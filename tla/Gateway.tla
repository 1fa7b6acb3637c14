------------------------------- MODULE Gateway -------------------------------
(***************************************************************************)
(* Requests through the gateway: GatewayService::on_default_message and    *)
(* handle_request (gateway_service.cpp), the GatewayPipeline it awaits,    *)
(* MessageRouter, PendingRequestsMap and its sweep, ResponseDispatcher,    *)
(* and the removal of a session at any moment.                             *)
(*                                                                         *)
(* The coroutines of a core interleave at the awaits of the pipeline.      *)
(* auth_states_ is a flat map: handle_request keeps a reference into it    *)
(* across those awaits, which an insertion that rehashes the map, or the   *)
(* removal of the session, leaves dangling.  The services answer over      *)
(* Kafka, late, more than once or never, also after the gateway restarted. *)
(***************************************************************************)
EXTENDS Naturals, Sequences, FiniteSets

CONSTANTS Sessions,        \* <<core, session id>>: ids are per core
          Users,           \* users tokens may be for
          Nobody,          \* user id 0
          Blacklist,       \* does the pipeline have a JwtBlacklist?
          InitialCapacity, \* entries auth_states_ takes before it rehashes
          MaxPending,      \* max_pending_per_core
          MaxRequests,     \* bound: requests per core and life of the gateway
          MaxRestarts      \* bound: restarts of the gateway

GatewayAssumption ==
  /\ Sessions \subseteq Nat \X Nat /\ Nobody \notin Users /\ Blacklist \in BOOLEAN
  /\ InitialCapacity \in Nat \ {0} /\ MaxPending \in Nat /\ MaxRequests \in Nat /\ MaxRestarts \in Nat

Cores == {s[1] : s \in Sessions}

VARIABLES
  conn,          \* "none", "open" or "removed" from SessionManager
  reading,       \* the read loop of the session runs
  auth,          \* auth_states_: NoEntry or token, user and authenticated
  capacity,      \* of auth_states_, per core
  handler,       \* the running handler: step, whose request, is its reference stale?
  corr_counter, pending,
  epoch,         \* which life of the gateway this is
  sent,          \* requests that are in Kafka: the services may answer them
  misattributed, \* history: a request went out under another user's id
  posted,        \* requests whose response is posted to its core's io_context
  answers        \* history: per request id, the answers written to its session

authVars == <<auth, capacity>>
kafkaVars == <<sent, misattributed, posted>>
vars == <<conn, reading, authVars, handler, corr_counter, pending, epoch, kafkaVars, answers>>

NoEntry == [token |-> Nobody, user |-> Nobody, authenticated |-> FALSE, present |-> FALSE]
NewEntry == [NoEntry EXCEPT !.present = TRUE]
Idle == [at |-> "idle", stale |-> FALSE, owner |-> Nobody]

\* A request is named by the life of the gateway, the core and its correlation id.
Ids == (0 .. MaxRestarts) \X Cores \X (1 .. MaxRequests)

Init ==
  /\ conn = [s \in Sessions |-> "none"] /\ reading = [s \in Sessions |-> FALSE]
  /\ auth = [s \in Sessions |-> NoEntry] /\ capacity = [c \in Cores |-> InitialCapacity]
  /\ handler = [s \in Sessions |-> Idle]
  /\ corr_counter = [c \in Cores |-> 0] /\ pending = [c \in Cores |-> {}] /\ epoch = 0
  /\ sent = {} /\ misattributed = FALSE /\ posted = {}
  /\ answers = [i \in Ids |-> <<>>]

-----------------------------------------------------------------------------
(* Sessions *)

Connect(s) ==
  /\ conn[s] = "none"
  /\ conn' = [conn EXCEPT ![s] = "open"] /\ reading' = [reading EXCEPT ![s] = TRUE]
  /\ UNCHANGED <<authVars, handler, corr_counter, pending, epoch, kafkaVars, answers>>

\* A session is removed, whether or not its handler is suspended; on_session_closed
\* erases its authentication state.
RemoveSession(s) ==
  /\ conn[s] = "open"
  /\ conn' = [conn EXCEPT ![s] = "removed"] /\ auth' = [auth EXCEPT ![s] = NoEntry]
  /\ handler' = [handler EXCEPT ![s].stale = handler[s].at # "idle"]
  /\ UNCHANGED <<reading, capacity, corr_counter, pending, epoch, kafkaVars, answers>>

ReadLoopEnds(s) ==
  /\ reading[s] /\ handler[s].at = "idle" /\ conn[s] = "removed"
  /\ reading' = [reading EXCEPT ![s] = FALSE]
  /\ UNCHANGED <<conn, authVars, handler, corr_counter, pending, epoch, kafkaVars, answers>>

\* A handler begins: the loop has read a frame, perhaps just before the session went.
Dispatched(s) == reading[s] /\ handler[s].at = "idle"

\* The handler of s returns; the loop of a closed session ends.
Return(s) ==
  /\ handler' = [handler EXCEPT ![s] = Idle]
  /\ reading' = [reading EXCEPT ![s] = conn[s] = "open"]

-----------------------------------------------------------------------------
(* auth_states_ *)

Entries(c) == {s \in Sessions : s[1] = c /\ auth[s].present}

\* auth_states_[session->id()]: the entry, made if it is missing.
Entry(s) == IF auth[s].present THEN auth[s] ELSE NewEntry
Rehashes(s) == ~auth[s].present /\ Cardinality(Entries(s[1])) = capacity[s[1]]
\* The other handlers of the core that hold references into the map.
Stale(s, h) ==
  [t \in Sessions |->
     IF Rehashes(s) /\ t[1] = s[1] /\ h[t].at # "idle" /\ t # s THEN [h[t] EXCEPT !.stale = TRUE]
     ELSE h[t]]
NewCapacity(s) ==
  capacity' = [capacity EXCEPT ![s[1]] = IF Rehashes(s) THEN 2 * @ ELSE @]

\* handle_authenticate_session: the token is bound, and verified at once.  A token that
\* fails leaves what an earlier one established.
HandleAuthenticateSession(s) ==
  /\ Dispatched(s)
  /\ \E u \in Users, valid \in BOOLEAN :
       auth' = [auth EXCEPT ![s] = IF valid
                  THEN [token |-> u, user |-> u, authenticated |-> TRUE, present |-> TRUE]
                  ELSE [Entry(s) EXCEPT !.token = u]]
  /\ NewCapacity(s) /\ handler' = [Stale(s, handler) EXCEPT ![s] = Idle]
  /\ reading' = [reading EXCEPT ![s] = conn[s] = "open"]
  /\ UNCHANGED <<conn, corr_counter, pending, epoch, kafkaVars, answers>>

-----------------------------------------------------------------------------
(* handle_request and GatewayPipeline::process *)

\* What the reference `state' shows: the entry of s, or anything once it is stale.
UsersSeen(s) == IF handler[s].stale THEN Users \cup {Nobody} ELSE {auth[s].user}

Suspend(s, at, owner) ==
  [Stale(s, handler) EXCEPT ![s] = [at |-> at, stale |-> FALSE, owner |-> owner]]

\* The IP limiter, a missing token or a token that fails verification end the request
\* with an error frame.
DenyAtOnce(s) ==
  /\ auth' = [auth EXCEPT ![s] = Entry(s)]
  /\ handler' = [Stale(s, handler) EXCEPT ![s] = Idle]
  /\ reading' = [reading EXCEPT ![s] = conn[s] = "open"]

\* From the lookup of `state' to the first await.  Exempt messages need no token; the
\* blacklist is asked about sensitive ones only.
BeginRequest(s, kind) ==
  /\ Dispatched(s) /\ NewCapacity(s)
  /\ \/ DenyAtOnce(s)
     \/ /\ kind = "exempt" /\ auth' = [auth EXCEPT ![s] = Entry(s)]
        /\ handler' = Suspend(s, IF Entry(s).authenticated THEN "user" ELSE "endpoint",
                              Entry(s).user)
        /\ UNCHANGED reading
     \/ /\ kind = "sensitive" /\ Blacklist /\ Entry(s).token # Nobody
        /\ auth' = [auth EXCEPT ![s] = Entry(s)]
        /\ handler' = Suspend(s, "blacklist", Entry(s).token)
        /\ UNCHANGED reading
     \/ /\ kind = "plain" \/ (kind = "sensitive" /\ ~Blacklist)
        /\ Entry(s).token # Nobody
        /\ auth' = [auth EXCEPT ![s] = [Entry(s) EXCEPT !.authenticated = TRUE,
                                                        !.user = Entry(s).token]]
        /\ handler' = Suspend(s, "user", Entry(s).token)
        /\ UNCHANGED reading
  /\ UNCHANGED <<conn, corr_counter, pending, epoch, kafkaVars, answers>>

\* is_blacklisted returns; the state is written through the reference.  A stale one leads
\* to freed memory or to the slot another session of the core has by now.
BlacklistChecked(s) ==
  /\ handler[s].at = "blacklist"
  /\ \/ Return(s) /\ UNCHANGED auth
     \/ /\ handler' = [handler EXCEPT ![s].at = "user"] /\ UNCHANGED reading
        /\ \/ handler[s].stale /\ UNCHANGED auth
           \/ \E t \in (IF handler[s].stale THEN Entries(s[1]) ELSE {s}) :
                auth' = [auth EXCEPT ![t].authenticated = TRUE, ![t].user = handler[s].owner]
  /\ UNCHANGED <<conn, capacity, corr_counter, pending, epoch, kafkaVars, answers>>

\* A Redis limiter answers.  An error of Redis allows the request.
UserChecked(s) ==
  /\ handler[s].at = "user"
  /\ \/ Return(s)
     \/ handler' = [handler EXCEPT ![s].at = "endpoint"] /\ UNCHANGED reading
  /\ UNCHANGED <<conn, authVars, corr_counter, pending, epoch, kafkaVars, answers>>

EndpointDenied(s) ==
  /\ handler[s].at = "endpoint" /\ Return(s)
  /\ UNCHANGED <<conn, authVars, corr_counter, pending, epoch, kafkaVars, answers>>

\* generate_corr_id (48 bits; no model run reaches their end).
NextCorrId(s) == corr_counter[s[1]] + 1

Insert(c, entry) ==
  /\ Cardinality(pending[c]) < MaxPending
  /\ pending' = [pending EXCEPT ![c] = @ \cup {entry}]

\* route: the message is in Kafka, under the user id the reference shows.
Route(s, id) ==
  /\ sent' = sent \cup {id}
  /\ \E u \in UsersSeen(s) : misattributed' = (misattributed \/ u # handler[s].owner)

\* The rest of handle_request: a correlation id, an entry in the pending map, the route.
\* Without a route, or when Kafka refuses the message, the entry is taken back.
Forward(s) ==
  /\ handler[s].at = "endpoint" /\ corr_counter[s[1]] < MaxRequests
  /\ Return(s)
  /\ LET c == s[1]
         corr == NextCorrId(s)
         id == <<epoch, c, corr>>
     IN /\ corr_counter' = [corr_counter EXCEPT ![c] = @ + 1]
        /\ \/ UNCHANGED <<pending, sent, misattributed>>   \* pending map full, no route, or not produced
           \/ /\ Insert(c, [corr |-> corr, session |-> s, id |-> id, expired |-> FALSE])
              /\ Route(s, id)
  /\ UNCHANGED <<conn, authVars, epoch, posted, answers>>

-----------------------------------------------------------------------------
(* Responses and timeouts *)

\* on_response, on the Kafka consumer's thread: the response is posted to the core named
\* in its metadata.  Kafka may deliver it again; of two copies posted at once the second
\* is as one posted after the first ran.
OnResponse(i) ==
  /\ i \in sent \ posted /\ posted' = posted \cup {i}
  /\ UNCHANGED <<conn, reading, authVars, handler, corr_counter, pending, epoch, sent,
                 misattributed, answers>>

Answer(entry, what) ==
  IF conn[entry.session] = "open" THEN [answers EXCEPT ![entry.id] = Append(@, what)] ELSE answers

\* Mutant of Extract: the entry is found but not erased.
ExtractKeeps(c, entry) == UNCHANGED pending

Extract(c, entry) == pending' = [pending EXCEPT ![c] = @ \ {entry}]

\* The posted lambda: extract the entry of that correlation id, write to its session.
DeliverResponse(i) ==
  /\ i \in posted /\ posted' = posted \ {i}
  /\ LET c == i[2]
         found == {e \in pending[c] : e.corr = i[3]}
     IN IF found = {} THEN UNCHANGED <<pending, answers>>
        ELSE \E e \in found : Extract(c, e) /\ answers' = Answer(e, i)
  /\ UNCHANGED <<conn, reading, authVars, handler, corr_counter, epoch, sent, misattributed>>

Timeout == <<0, 0, 0>>

\* request_timeout passes for an entry ...
Expire(c) ==
  /\ \E e \in pending[c] :
       ~e.expired /\ pending' = [pending EXCEPT ![c] = (@ \ {e}) \cup {[e EXCEPT !.expired = TRUE]}]
  /\ UNCHANGED <<conn, reading, authVars, handler, corr_counter, epoch, kafkaVars, answers>>

\* ... and the periodic sweep_expired answers and erases them all.
Sweep(c) ==
  LET gone == {e \in pending[c] : e.expired}
  IN /\ gone # {} /\ pending' = [pending EXCEPT ![c] = @ \ gone]
     /\ answers' = [i \in Ids |->
          IF \E e \in gone : e.id = i /\ conn[e.session] = "open" THEN Append(answers[i], Timeout)
          ELSE answers[i]]
     /\ UNCHANGED <<conn, reading, authVars, handler, corr_counter, epoch, kafkaVars>>

\* The gateway process ends and starts again; Kafka keeps what is in its topics.
Restart ==
  /\ epoch < MaxRestarts /\ epoch' = epoch + 1
  /\ conn' = [s \in Sessions |-> "none"] /\ reading' = [s \in Sessions |-> FALSE]
  /\ auth' = [s \in Sessions |-> NoEntry] /\ capacity' = [c \in Cores |-> InitialCapacity]
  /\ handler' = [s \in Sessions |-> Idle]
  /\ corr_counter' = [c \in Cores |-> 0] /\ pending' = [c \in Cores |-> {}]
  /\ posted' = {} /\ answers' = [i \in Ids |-> <<>>]
  /\ UNCHANGED <<sent, misattributed>>

SessionStep(s) ==
  \/ Connect(s) \/ RemoveSession(s) \/ ReadLoopEnds(s) \/ HandleAuthenticateSession(s)
  \/ (\E kind \in {"exempt", "plain", "sensitive"} : BeginRequest(s, kind))
  \/ BlacklistChecked(s) \/ UserChecked(s) \/ EndpointDenied(s) \/ Forward(s)

Next ==
  \/ \E s \in Sessions : SessionStep(s)
  \/ \E i \in Ids : OnResponse(i) \/ DeliverResponse(i)
  \/ \E c \in Cores : Expire(c) \/ Sweep(c)
  \/ Restart

\* Time passes, the sweep is periodic, and the core runs what is posted to it.
Fairness ==
  /\ \A c \in Cores : WF_vars(Expire(c)) /\ WF_vars(Sweep(c))
  /\ \A i \in Ids : WF_vars(DeliverResponse(i))

Spec == Init /\ [][Next]_vars /\ Fairness

-----------------------------------------------------------------------------
(* Properties *)

TypeOK ==
  /\ conn \in [Sessions -> {"none", "open", "removed"}] /\ reading \in [Sessions -> BOOLEAN]
  /\ auth \in [Sessions -> [token : Users \cup {Nobody}, user : Users \cup {Nobody},
                            authenticated : BOOLEAN, present : BOOLEAN]]
  /\ posted \subseteq sent /\ sent \subseteq Ids
  /\ corr_counter \in [Cores -> 0 .. MaxRequests] /\ epoch \in 0 .. MaxRestarts
  /\ \A s \in Sessions : handler[s].at \in {"idle", "blacklist", "user", "endpoint"}

\* However responses, copies of responses, timeouts and removals race, a request is
\* answered at most once, and what answers it is the response to it, unless that comes
\* from before a restart; and the pending map keeps its bound.
AnsweredOnce ==
  /\ \A i \in Ids :
       /\ Len(answers[i]) <= 1
       /\ \A k \in 1 .. Len(answers[i]) :
            answers[i][k] # Timeout /\ answers[i][k][1] = i[1] => answers[i][k] = i
  /\ \A c \in Cores : Cardinality(pending[c]) <= MaxPending

\* A request that was forwarded leaves the pending map, and its session hears of it
\* unless it is gone.
Waiting(i, s) == \E e \in pending[s[1]] : e.id = i /\ e.session = s
EveryRequestEnds ==
  \A i \in Ids, s \in Sessions :
    Waiting(i, s) ~> (Len(answers[i]) = 1 \/ conn[s] # "open" \/ epoch # i[1])

\* "Unique correlation ID" (message_router.hpp:35): the answer to a request is the
\* response to it.
RightAnswer ==
  \A i \in Ids : \A k \in 1 .. Len(answers[i]) : answers[i][k] \in {Timeout, i}

\* user_id of the metadata is the one "from the JWT" of the session (kafka_envelope.hpp:108).
ForwardedAsOwner == ~misattributed
=============================================================================

------------------------------- MODULE Server -------------------------------
(***************************************************************************)
(* Server::run, stop and the graceful shutdown (server.cpp): the control   *)
(* thread in control_io_.run(), the core threads with their handler        *)
(* queues, the acceptor, and the threads that call stop().                 *)
(*                                                                         *)
(* A connection is accepted, its accept_connection is posted to its core,  *)
(* the session is created there, its read_loop starts and is counted in    *)
(* active_sessions_, and ends.  Listener.tla has the checks before the     *)
(* post, Adapter.tla the adapters' part of finalize_shutdown.              *)
(***************************************************************************)
EXTENDS Naturals, Sequences, FiniteSets

CONSTANTS NumCores, Conns, Stoppers,
          EarlyStop   \* stop() may be called before run()

\* What the constants may be.
ServerAssumption ==
  /\ NumCores \in Nat \ {0} /\ IsFiniteSet(Conns)
  /\ EarlyStop \in BOOLEAN /\ Conns \cap {"close_all"} = {}

VARIABLES
  pcR,        \* the control thread: run(), its handlers, ~Server()
  pcS,        \* each thread calling stop()
  stopping,   \* stopping_
  control,    \* handlers queued in control_io_
  timer,      \* shutdown_timer_ is armed
  late,       \* shutdown_deadline_ has passed
  idx, total, \* total_active_sessions(): next core, sum so far
  accepting,  \* the listeners are started and their acceptors open
  running,    \* the core threads run
  queue,      \* handlers queued in each core's io_context
  conn, core, \* each connection's stage, and its core
  closed,     \* connections whose session is closed
  services,   \* "none", "started", "stopped"
  finalized,  \* calls of finalize_shutdown
  forced,     \* the last one was called at the deadline
  old         \* read_loops counted when the shutdown began, for the properties

pollVars == <<timer, late, idx, total>>
coreVars == <<queue, conn, core, closed>>
ghostVars == <<finalized, forced, old>>
vars == <<pcR, pcS, stopping, control, pollVars, accepting, running, coreVars, services, ghostVars>>

Cores == 0..(NumCores - 1)

Reading(k) == {c \in Conns : conn[c] = "reading" /\ core[c] = k}

active_sessions(k) == Cardinality(Reading(k))

Init ==
  /\ pcR = "new" /\ pcS = [s \in Stoppers |-> "idle"]
  /\ stopping = FALSE /\ control = <<>>
  /\ timer = FALSE /\ late = FALSE /\ idx = 0 /\ total = 0
  /\ accepting = FALSE /\ running = FALSE
  /\ queue = [k \in Cores |-> <<>>]
  /\ conn = [c \in Conns |-> "none"] /\ core = [c \in Conns |-> 0] /\ closed = {}
  /\ services = "none"
  /\ finalized = 0 /\ forced = FALSE /\ old = {}

-----------------------------------------------------------------------------
(* run(). *)

\* run() up to core_engine_->start(): stopping_ is reset, adapters and services are
\* initialised and started.
RunBegin ==
  /\ pcR = "new"
  /\ pcR' = "start_engine" /\ stopping' = FALSE /\ services' = "started"
  /\ UNCHANGED <<pcS, control, pollVars, accepting, running, coreVars, ghostVars>>

StartEngine ==
  /\ pcR = "start_engine"
  /\ pcR' = "start_listeners" /\ running' = TRUE
  /\ UNCHANGED <<pcS, stopping, control, pollVars, accepting, coreVars, services, ghostVars>>

StartListeners ==
  /\ pcR = "start_listeners"
  /\ pcR' = "loop" /\ accepting' = TRUE
  /\ UNCHANGED <<pcS, stopping, control, pollVars, running, coreVars, services, ghostVars>>

-----------------------------------------------------------------------------
(* stop(), on any thread. *)

\* The server exists, and run() has been called unless stop() may come early.
Callable == pcR \notin {"destroying", "destroyed"} /\ (EarlyStop \/ pcR # "new")

\* Only the call that turns stopping_ on goes on.
StopExchange(s) ==
  /\ pcS[s] = "idle" /\ Callable
  /\ stopping' = TRUE
  /\ pcS' = [pcS EXCEPT ![s] = IF stopping THEN "returned" ELSE "drain"]
  /\ UNCHANGED <<pcR, control, pollVars, accepting, running, coreVars, services, ghostVars>>

\* Listeners that have started stop accepting.
StopDrain(s) ==
  /\ pcS[s] = "drain"
  /\ pcS' = [pcS EXCEPT ![s] = "post"] /\ accepting' = FALSE
  /\ UNCHANGED <<pcR, stopping, control, pollVars, running, coreVars, services, ghostVars>>

StopPost(s) ==
  /\ pcS[s] = "post"
  /\ pcS' = [pcS EXCEPT ![s] = "returned"] /\ control' = Append(control, "begin_shutdown")
  /\ UNCHANGED <<pcR, stopping, pollVars, accepting, running, coreVars, services, ghostVars>>

StopStep == \E s \in Stoppers : StopExchange(s) \/ StopDrain(s) \/ StopPost(s)

-----------------------------------------------------------------------------
(* The handlers of control_io_, run by run() and once more by ~Server().  *)

\* Where control_io_ runs handlers.
Looping == pcR \in {"loop", "destroying"} /\ control # <<>>

\* begin_shutdown: the cores are told to close their sessions, the timer is replaced
\* (an armed one is cancelled), and poll_shutdown begins.
BeginShutdown ==
  /\ Looping /\ Head(control) = "begin_shutdown"
  /\ control' = Tail(control)
  /\ queue' = [k \in Cores |-> Append(queue[k], "close_all")]
  /\ timer' = FALSE /\ late' = FALSE
  /\ pcR' = "poll" /\ idx' = 0 /\ total' = 0
  /\ old' = {c \in Conns : conn[c] = "reading"}
  /\ UNCHANGED <<pcS, stopping, accepting, running, conn, core, closed, services, finalized, forced>>

\* The timer's handler: poll_shutdown again.
PollAgain ==
  /\ Looping /\ Head(control) = "poll_shutdown"
  /\ control' = Tail(control)
  /\ pcR' = "poll" /\ idx' = 0 /\ total' = 0
  /\ UNCHANGED <<pcS, stopping, timer, late, accepting, running, coreVars, services, ghostVars>>

\* Mutant of CountSessions: the last core is not counted.
CountSessionsShort ==
  /\ pcR = "poll" /\ idx < NumCores
  /\ idx' = idx + 1
  /\ total' = IF idx < NumCores - 1 THEN total + active_sessions(idx) ELSE total
  /\ UNCHANGED <<pcR, pcS, stopping, control, timer, late, accepting, running, coreVars,
                 services, ghostVars>>

\* total_active_sessions: one core's counter after the other.
CountSessions ==
  /\ pcR = "poll" /\ idx < NumCores
  /\ idx' = idx + 1 /\ total' = total + active_sessions(idx)
  /\ UNCHANGED <<pcR, pcS, stopping, control, timer, late, accepting, running, coreVars,
                 services, ghostVars>>

\* ... none left, or the deadline passed: finalize_shutdown.  Otherwise look again in a
\* millisecond.
PollShutdown ==
  /\ pcR = "poll" /\ idx = NumCores
  /\ \/ /\ total = 0 \/ late
        /\ pcR' = "finalize"
        /\ finalized' = finalized + 1 /\ forced' = (total # 0)
        /\ UNCHANGED <<timer, old>>
     \/ /\ total # 0 /\ ~late
        /\ pcR' = IF finalized = 0 THEN "loop" ELSE "destroying"
        /\ timer' = TRUE
        /\ UNCHANGED ghostVars
  /\ UNCHANGED <<pcS, stopping, control, late, idx, total, accepting, running, coreVars, services>>

TimerFires ==
  /\ timer
  /\ timer' = FALSE /\ control' = Append(control, "poll_shutdown")
  /\ UNCHANGED <<pcR, pcS, stopping, late, idx, total, accepting, running, coreVars, services, ghostVars>>

DeadlinePasses ==
  /\ ~late /\ finalized = 0 /\ pcR \in {"loop", "poll"} /\ (timer \/ pcR = "poll" \/ control # <<>>)
  /\ late' = TRUE
  /\ UNCHANGED <<pcR, pcS, stopping, control, timer, idx, total, accepting, running, coreVars,
                 services, ghostVars>>

\* finalize_shutdown, steps 0 to 3: the timer goes, listeners stop.
FinalizeListeners ==
  /\ pcR = "finalize"
  /\ pcR' = "stop_services" /\ timer' = FALSE /\ accepting' = FALSE
  /\ UNCHANGED <<pcS, stopping, control, late, idx, total, running, coreVars, services, ghostVars>>

\* Step 4.
StopServices ==
  /\ pcR = "stop_services"
  /\ pcR' = "stop_engine" /\ services' = "stopped"
  /\ UNCHANGED <<pcS, stopping, control, pollVars, accepting, running, coreVars, ghostVars>>

\* Steps 4.5 to 7: the adapters are closed, the core threads joined, control_io_
\* stopped; run() returns.  In the destructor poll() returns instead.
StopEngine ==
  /\ pcR = "stop_engine"
  /\ pcR' = IF finalized = 1 THEN "returned" ELSE "destroyed"
  /\ running' = FALSE
  /\ UNCHANGED <<pcS, stopping, control, pollVars, accepting, coreVars, services, ghostVars>>

\* ~Server: control_io_ is restarted and polled.
Destroy ==
  /\ pcR = "returned" /\ \A s \in Stoppers : pcS[s] \in {"idle", "returned"}
  /\ pcR' = "destroying"
  /\ UNCHANGED <<pcS, stopping, control, pollVars, accepting, running, coreVars, services, ghostVars>>

Destroyed ==
  /\ pcR = "destroying" /\ control = <<>>
  /\ pcR' = "destroyed"
  /\ UNCHANGED <<pcS, stopping, control, pollVars, accepting, running, coreVars, services, ghostVars>>

ControlStep ==
  \/ StartEngine \/ StartListeners
  \/ BeginShutdown \/ PollAgain \/ CountSessions \/ PollShutdown
  \/ FinalizeListeners \/ StopServices \/ StopEngine

-----------------------------------------------------------------------------
(* The core threads. *)

\* accept_loop has a connection and posts it to the core it is for.
Accept(c, k) ==
  /\ running /\ accepting /\ conn[c] = "none"
  /\ conn' = [conn EXCEPT ![c] = "posted"] /\ core' = [core EXCEPT ![c] = k]
  /\ queue' = [queue EXCEPT ![k] = Append(@, c)]
  /\ UNCHANGED <<pcR, pcS, stopping, control, pollVars, accepting, running, closed, services, ghostVars>>

\* The next handler of core k: accept_connection, or the closing of all sessions that
\* exist by now.
RunHandler(k) ==
  /\ running /\ queue[k] # <<>>
  /\ queue' = [queue EXCEPT ![k] = Tail(@)]
  /\ \/ /\ Head(queue[k]) \in Conns
        /\ conn' = [conn EXCEPT ![Head(queue[k])] = "created"]
        /\ UNCHANGED closed
     \/ /\ Head(queue[k]) = "close_all"
        /\ closed' = closed \cup {c \in Conns : core[c] = k /\ conn[c] \in {"created", "reading"}}
        /\ UNCHANGED conn
  /\ UNCHANGED <<pcR, pcS, stopping, control, pollVars, accepting, running, core, services, ghostVars>>

StartReadLoop(c) ==
  /\ running /\ conn[c] = "created"
  /\ conn' = [conn EXCEPT ![c] = "reading"]
  /\ UNCHANGED <<pcR, pcS, stopping, control, pollVars, accepting, running, queue, core, closed,
                 services, ghostVars>>

\* The read_loop of a closed session, or of one whose peer has gone, returns.
EndReadLoop(c) ==
  /\ running /\ conn[c] = "reading"
  /\ conn' = [conn EXCEPT ![c] = "done"]
  /\ UNCHANGED <<pcR, pcS, stopping, control, pollVars, accepting, running, queue, core, closed,
                 services, ghostVars>>

CoreStep(k) ==
  \/ RunHandler(k)
  \/ \E c \in Conns : core[c] = k /\ StartReadLoop(c)

Next ==
  \/ RunBegin \/ ControlStep \/ Destroy \/ Destroyed
  \/ TimerFires \/ DeadlinePasses \/ StopStep
  \/ \E c \in Conns, k \in Cores : Accept(c, k)
  \/ \E k \in Cores : CoreStep(k)
  \/ \E c \in Conns : EndReadLoop(c)

Spec == Init /\ [][Next]_vars

\* Every thread that can go on does; timers fire and the deadline passes.  No read_loop
\* has to end and run() need not be called.
FairSpec ==
  Spec /\ WF_vars(ControlStep) /\ WF_vars(StopStep) /\ WF_vars(TimerFires) /\ WF_vars(DeadlinePasses)

-----------------------------------------------------------------------------
(* Properties. *)

\* Type invariant.
TypeOK ==
  /\ pcR \in {"new", "start_engine", "start_listeners", "loop", "poll", "finalize",
              "stop_services", "stop_engine", "returned", "destroying", "destroyed"}
  /\ pcS \in [Stoppers -> {"idle", "drain", "post", "returned"}]
  /\ {stopping, timer, late, accepting, running, forced} \subseteq BOOLEAN
  /\ control \in Seq({"begin_shutdown", "poll_shutdown"})
  /\ idx \in 0..NumCores /\ total \in 0..Cardinality(Conns)
  /\ queue \in [Cores -> Seq(Conns \cup {"close_all"})]
  /\ conn \in [Conns -> {"none", "posted", "created", "reading", "done"}] /\ core \in [Conns -> Cores]
  /\ closed \subseteq Conns /\ old \subseteq Conns
  /\ services \in {"none", "started", "stopped"} /\ finalized \in Nat

\* stopping_ prevents re-entry: however many threads call stop(), the server is shut
\* down once.
ShutdownOnce == finalized <= 1

Finalizing == pcR \in {"finalize", "stop_services", "stop_engine"}

\* Without the deadline, services are stopped only after every read_loop that was
\* running when the shutdown began has ended.
OldSessionsDrained == Finalizing /\ ~forced => \A c \in old : conn[c] = "done"

\* begin_shutdown says that poll_shutdown polls until all read_loops exit.
AllReadLoopsExit == Finalizing /\ ~forced => \A c \in Conns : conn[c] \in {"none", "done"}

\* A call of stop(), even one before run(), makes run() return: whatever the sessions
\* do, the deadline bounds the wait.
StopHonoured ==
  \A s \in Stoppers : pcS[s] = "returned" /\ pcR # "new" ~> pcR \in {"returned", "destroying", "destroyed"}
=============================================================================

----------------------------- MODULE ServiceHost -----------------------------
(***************************************************************************)
(* The services of one core: ServiceBase (service_base.hpp), the           *)
(* MessageDispatcher they share (message_dispatcher.cpp), the coroutines   *)
(* they spawn and offload to the BlockingTaskExecutor                      *)
(* (blocking_task_executor.hpp), and the control thread that configures,   *)
(* wires, starts and stops them and waits for their coroutines (run and    *)
(* finalize_shutdown, server.cpp).                                         *)
(*                                                                         *)
(* Server.tla has the sessions: messages come while `reading' holds.       *)
(***************************************************************************)
EXTENDS Naturals, Sequences, FiniteSets, SequencesExt

CONSTANTS Services,   \* the services in the order they were added
          Routes,     \* the message ids each one registers in on_start
          Defaults,   \* those that call set_default_handler
          MsgIds, Nobody,
          NumListeners, \* the first has the dispatcher the services register with
          MaxSpawns,  \* bound: calls of spawn()
          Forced      \* the drain deadline may pass with sessions left

All == ToSet(Services)

Listeners == 1..NumListeners

\* What the constants may be.
HostAssumption ==
  /\ Routes \in [All -> SUBSET MsgIds] /\ Defaults \subseteq All
  /\ NumListeners \in Nat \ {0}
  /\ Nobody \notin All /\ MaxSpawns \in Nat /\ Forced \in BOOLEAN

VARIABLES
  pc, idx,            \* the control thread, and the service it has come to
  handlers,           \* the service each message id is handled by, in each listener's dispatcher
  default,            \* the service of its default handler
  registered,         \* registered_msg_ids_ of each service
  started,            \* the services with started_
  reading,            \* read_loops still run and dispatch messages
  calls,              \* services with a handler suspended in dispatch
  queued, live, pool, \* coroutines of each service: posted, running, in the thread pool
  outstanding,        \* outstanding_coros_ of each service
  spawns,             \* calls of spawn() so far
  total, late,        \* step 4.5: sum so far, its deadline has passed
  forced              \* read_loops were left when the shutdown was finalized

regVars == <<handlers, default, registered, started>>
coroVars == <<queued, live, pool, outstanding, spawns>>
vars == <<pc, idx, regVars, reading, calls, coroVars, total, late, forced>>

NoCoros == [s \in All |-> 0]

Init ==
  /\ pc = "configure" /\ idx = 1
  /\ handlers = [l \in Listeners |-> [m \in MsgIds |-> Nobody]]
  /\ default = [l \in Listeners |-> Nobody]
  /\ registered = [s \in All |-> {}] /\ started = {}
  /\ reading = FALSE /\ calls = {}
  /\ queued = NoCoros /\ live = NoCoros /\ pool = NoCoros /\ outstanding = NoCoros /\ spawns = 0
  /\ total = 0 /\ late = FALSE /\ forced = FALSE

Current == Services[idx]

\* The control thread turns to the next service, or to the next phase after the last.
Advance(next) ==
  IF idx < Len(Services) THEN idx' = idx + 1 /\ UNCHANGED pc ELSE idx' = 1 /\ pc' = next

-----------------------------------------------------------------------------
(* spawn() and what becomes of a coroutine. *)

\* spawn(): counted before co_spawn posts it.
Spawned(s) ==
  /\ spawns < MaxSpawns
  /\ spawns' = spawns + 1
  /\ queued' = [queued EXCEPT ![s] = @ + 1]
  /\ outstanding' = [outstanding EXCEPT ![s] = @ + 1]

EngineRuns == pc \in {"run", "stop", "wait", "sum", "close"}

CoroBegins(s) ==
  /\ EngineRuns /\ queued[s] > 0
  /\ queued' = [queued EXCEPT ![s] = @ - 1] /\ live' = [live EXCEPT ![s] = @ + 1]
  /\ UNCHANGED <<pc, idx, regVars, reading, calls, pool, outstanding, spawns, total, late, forced>>

\* A coroutine spawns another of its service.
CoroSpawns(s) ==
  /\ EngineRuns /\ live[s] > 0
  /\ Spawned(s)
  /\ UNCHANGED <<pc, idx, regVars, reading, calls, live, pool, total, late, forced>>

\* It returns or throws, which is caught: the counter is lowered.
CoroEnds(s) ==
  /\ EngineRuns /\ live[s] > 0
  /\ live' = [live EXCEPT ![s] = @ - 1]
  /\ outstanding' = [outstanding EXCEPT ![s] = @ - 1]
  /\ UNCHANGED <<pc, idx, regVars, reading, calls, queued, pool, spawns, total, late, forced>>

\* BlockingTaskExecutor::run: the work goes to the thread pool ...
Offload(s) ==
  /\ EngineRuns /\ live[s] > 0
  /\ live' = [live EXCEPT ![s] = @ - 1] /\ pool' = [pool EXCEPT ![s] = @ + 1]
  /\ UNCHANGED <<pc, idx, regVars, reading, calls, queued, outstanding, spawns, total, late, forced>>

\* ... and the coroutine is resumed on its core.
Resume(s) ==
  /\ EngineRuns /\ pool[s] > 0
  /\ pool' = [pool EXCEPT ![s] = @ - 1] /\ live' = [live EXCEPT ![s] = @ + 1]
  /\ UNCHANGED <<pc, idx, regVars, reading, calls, queued, outstanding, spawns, total, late, forced>>

-----------------------------------------------------------------------------
(* Messages. *)

\* The handler dispatch finds.
Handler(l, m) == IF handlers[l][m] # Nobody THEN handlers[l][m] ELSE default[l]

\* dispatch calls the handler, which is suspended at an await; without one the session
\* is told HandlerNotFound.  One message per service is in flight at a time.  A dispatch
\* that races with stop() unregistering its id finds the id or does not.
Dispatch(l, m) ==
  /\ EngineRuns /\ reading /\ Handler(l, m) # Nobody /\ Handler(l, m) \notin calls
  /\ calls' = calls \cup {Handler(l, m)}
  /\ UNCHANGED <<pc, idx, regVars, reading, coroVars, total, late, forced>>

\* A handler spawns a coroutine.
HandlerSpawns(s) ==
  /\ EngineRuns /\ s \in calls
  /\ Spawned(s)
  /\ UNCHANGED <<pc, idx, regVars, reading, calls, live, pool, total, late, forced>>

\* A handler returns or throws: HandlerException.
HandlerEnds(s) ==
  /\ EngineRuns /\ s \in calls
  /\ calls' = calls \ {s}
  /\ UNCHANGED <<pc, idx, regVars, reading, coroVars, total, late, forced>>

\* The last read_loop has returned, its handlers before it.
SessionsEnd ==
  /\ reading /\ calls = {} /\ reading' = FALSE
  /\ UNCHANGED <<pc, idx, regVars, calls, coroVars, total, late, forced>>

-----------------------------------------------------------------------------
(* The control thread. *)

\* Phases 1 and 2: internal_configure and internal_wire, service by service; an on_wire
\* may spawn, its coroutine runs once the core does.
Configure ==
  /\ pc = "configure" /\ Advance("wire")
  /\ UNCHANGED <<regVars, reading, calls, coroVars, total, late, forced>>

Wire ==
  /\ pc = "wire" /\ Advance("start")
  /\ \/ Spawned(Current)
     \/ UNCHANGED <<queued, outstanding, spawns>>
  /\ UNCHANGED <<regVars, reading, calls, live, pool, total, late, forced>>

\* handle() and route(): each registration replaces the one before it.
Register(s, ids) ==
  /\ handlers' = [handlers EXCEPT ![1] = [m \in MsgIds |-> IF m \in ids THEN s ELSE @[m]]]
  /\ registered' = [registered EXCEPT ![s] = @ \cup ids]

SetDefaultHandler(s) == default' = [default EXCEPT ![1] = s]

\* Phase 3, start(): on_start registers the handlers.
StartService ==
  /\ pc = "start" /\ Advance("sync")
  /\ Register(Current, Routes[Current])
  /\ IF Current \in Defaults THEN SetDefaultHandler(Current) ELSE UNCHANGED default
  /\ started' = started \cup {Current}
  /\ UNCHANGED <<reading, calls, coroVars, total, late, forced>>

\* Phase 3.5, sync_all_handlers: the other listeners' dispatchers get copies.
SyncHandlers ==
  /\ pc = "sync" /\ pc' = "engine"
  /\ handlers' = [l \in Listeners |-> handlers[1]]
  /\ default' = [l \in Listeners |-> default[1]]
  /\ UNCHANGED <<idx, registered, started, reading, calls, coroVars, total, late, forced>>

\* The core thread and the listeners start.
StartEngine ==
  /\ pc = "engine" /\ pc' = "run" /\ reading' = TRUE
  /\ UNCHANGED <<idx, regVars, calls, coroVars, total, late, forced>>

\* finalize_shutdown, when no read_loop is left or the deadline has passed.
Finalize ==
  /\ pc = "run" /\ (~reading \/ Forced) /\ pc' = "stop"
  /\ forced' = reading
  /\ UNCHANGED <<idx, regVars, reading, calls, coroVars, total, late>>

\* Mutant of StopService: the ids are forgotten before they are unregistered.
StopServiceForgets ==
  /\ pc = "stop" /\ Advance("wait")
  /\ registered' = [registered EXCEPT ![Current] = {}]
  /\ started' = started \ {Current}
  /\ UNCHANGED <<handlers, default, reading, calls, coroVars, total, late, forced>>

\* Step 4, stop(): the ids it registered are unregistered, whoever handles them by now,
\* from the first listener's dispatcher.
StopService ==
  /\ pc = "stop" /\ Advance("wait")
  /\ handlers' = [handlers EXCEPT
                    ![1] = [m \in MsgIds |-> IF m \in registered[Current] THEN Nobody ELSE @[m]]]
  /\ registered' = [registered EXCEPT ![Current] = {}]
  /\ started' = started \ {Current}
  /\ UNCHANGED <<default, reading, calls, coroVars, total, late, forced>>

\* Step 4.5: the counters are summed, one service after the other ...
CountCoros ==
  /\ pc = "wait" /\ total' = total + outstanding[Current] /\ Advance("sum")
  /\ UNCHANGED <<regVars, reading, calls, coroVars, late, forced>>

\* ... until there are none or drain_timeout is over.
AwaitCoros ==
  /\ pc = "sum"
  /\ pc' = IF total = 0 \/ late THEN "close" ELSE "wait"
  /\ total' = IF total = 0 \/ late THEN total ELSE 0
  /\ UNCHANGED <<idx, regVars, reading, calls, coroVars, late, forced>>

DrainTimeout ==
  /\ pc \in {"wait", "sum"} /\ ~late /\ late' = TRUE
  /\ UNCHANGED <<pc, idx, regVars, reading, calls, coroVars, total, forced>>

\* Steps 5 to 6.5: the engine is stopped, the thread pool joined.
StopEngine ==
  /\ pc = "close" /\ pc' = "stopped"
  /\ UNCHANGED <<idx, regVars, reading, calls, coroVars, total, late, forced>>

ControlStep ==
  Configure \/ Wire \/ StartService \/ SyncHandlers \/ StartEngine \/ StopService \/ CountCoros \/ AwaitCoros \/ StopEngine

CoreStep ==
  \/ \E s \in All :
       \/ CoroBegins(s) \/ CoroSpawns(s) \/ CoroEnds(s) \/ Offload(s) \/ Resume(s)
       \/ HandlerSpawns(s) \/ HandlerEnds(s)
  \/ \E l \in Listeners, m \in MsgIds : Dispatch(l, m)
  \/ SessionsEnd

Next == ControlStep \/ Finalize \/ DrainTimeout \/ CoreStep

\* The control thread goes on and the timeout passes; no coroutine has to end.
Fairness == WF_vars(ControlStep) /\ WF_vars(DrainTimeout)

Spec == Init /\ [][Next]_vars /\ Fairness

-----------------------------------------------------------------------------
(* Properties. *)

\* Type invariant.
TypeOK ==
  /\ pc \in {"configure", "wire", "start", "sync", "engine", "run", "stop", "wait", "sum", "close", "stopped"}
  /\ idx \in 1..Len(Services)
  /\ handlers \in [Listeners -> [MsgIds -> All \cup {Nobody}]]
  /\ default \in [Listeners -> All \cup {Nobody}]
  /\ registered \in [All -> SUBSET MsgIds] /\ started \subseteq All /\ calls \subseteq All
  /\ \A f \in {queued, live, pool, outstanding} : f \in [All -> 0..MaxSpawns]
  /\ spawns \in 0..MaxSpawns /\ {reading, late, forced} \subseteq BOOLEAN

\* In the dispatcher the services register with no message id is handled by a service
\* that has been stopped or not been started, even when two services register the same
\* one: whoever handles an id will take it out.  The other listeners agree with it while
\* the server runs.
HandlersOwned ==
  /\ \A m \in MsgIds : handlers[1][m] # Nobody
       => handlers[1][m] \in started /\ m \in registered[handlers[1][m]]
  /\ pc \in {"engine", "run"} => \A l \in Listeners, m \in MsgIds : Handler(l, m) = Handler(1, m)

\* The engine is stopped with a service's coroutine left over only if the drain timed
\* out, or sessions were left when the deadline passed: the sum over the services is
\* taken while coroutines start, spawn others, move to the thread pool and end.
DrainedIsQuiet ==
  pc \in {"close", "stopped"} /\ ~late /\ ~forced
    => \A s \in All : queued[s] + live[s] + pool[s] = 0

\* The shutdown of the services ends, whatever their coroutines do.
HostStops == pc = "stop" ~> pc = "stopped"

\* A handler is only ever called on a started service.  The default handler stays when
\* its service is stopped, and so do the copies in the other listeners' dispatchers.
StoppedNotCalled == [][\A s \in All : s \in calls' \ calls => s \in started]_vars
=============================================================================

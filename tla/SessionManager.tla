--------------------------- MODULE SessionManager ---------------------------
(***************************************************************************)
(* SessionManager (session_manager.cpp) over its timing wheel: one core's  *)
(* sessions, their heartbeat timers, and the ways a session ends: its      *)
(* read_loop (connection_handler.hpp) returns, or its heartbeat expires    *)
(* while the read_loop is suspended.  The callbacks do not touch the       *)
(* manager, as the header demands.                                         *)
(***************************************************************************)
EXTENDS TimingWheel

CONSTANTS Heartbeats,   \* values heartbeat_timeout_ticks_ may have, 0 for no timeout
          MaxSessions   \* bound: sessions created

\* What the constants may be.
ManagerAssumption ==
  /\ Heartbeats \subseteq 0..(NumSlots - 1)
  /\ MaxSessions \in Nat /\ MaxSessions <= MaxIds

VARIABLES
  heartbeat,         \* heartbeat_timeout_ticks_
  sessions,          \* ids in sessions_
  timer_to_session,  \* timer_to_session_
  timer_entry_id,    \* Session::timer_entry_id_ of every session created
  open,              \* sessions that are not closed
  reading,           \* sessions whose read_loop has not returned
  notified,          \* how often remove_callback_ ran for each session
  touched            \* the tick of the last create or touch, for the properties

managerVars ==
  <<heartbeat, sessions, timer_to_session, timer_entry_id, open, reading, notified, touched>>
vars == <<wheelVars, managerVars>>

Created == DOMAIN timer_entry_id

\* f without x, and f with x mapped to y.
Without(f, x) == [z \in DOMAIN f \ {x} |-> f[z]]
With(f, x, y) == [z \in DOMAIN f \cup {x} |-> IF z = x THEN y ELSE f[z]]

Init ==
  /\ WheelInit
  /\ heartbeat \in Heartbeats
  /\ sessions = {} /\ open = {} /\ reading = {}
  /\ timer_to_session = [i \in {} |-> 0]
  /\ timer_entry_id = [s \in {} |-> 0]
  /\ notified = [s \in {} |-> 0] /\ touched = [s \in {} |-> 0]

\* Handlers of the core's io_context run between ticks.
Between == calling = 0 /\ expired = {}

\* create_session, and the read_loop spawned for it.
CreateSession ==
  LET s == Cardinality(Created) + 1 IN
  /\ Between /\ s <= MaxSessions
  /\ sessions' = sessions \cup {s} /\ open' = open \cup {s} /\ reading' = reading \cup {s}
  /\ UNCHANGED heartbeat
  /\ notified' = With(notified, s, 0) /\ touched' = With(touched, s, current_tick)
  /\ \/ /\ heartbeat > 0
        /\ \E i \in Ids :
             /\ Schedule(i, heartbeat)
             /\ timer_to_session' = With(timer_to_session, i, s)
             /\ timer_entry_id' = With(timer_entry_id, s, i)
     \/ /\ heartbeat = 0
        /\ timer_entry_id' = With(timer_entry_id, s, 0)
        /\ UNCHANGED <<timer_to_session, wheelVars>>

\* remove_session: nothing for an id that is gone; otherwise close, drop the timer,
\* notify the services, erase.
RemoveSession(s) ==
  \/ s \notin sessions /\ UNCHANGED <<sessions, open, notified, timer_to_session, timer_entry_id, wheelVars>>
  \/ /\ s \in sessions
     /\ sessions' = sessions \ {s} /\ open' = open \ {s}
     /\ notified' = [notified EXCEPT ![s] = @ + 1]
     /\ \/ /\ timer_entry_id[s] # 0
           /\ Cancel(timer_entry_id[s])
           /\ timer_to_session' = Without(timer_to_session, timer_entry_id[s])
           /\ timer_entry_id' = [timer_entry_id EXCEPT ![s] = 0]
        \/ timer_entry_id[s] = 0 /\ UNCHANGED <<timer_to_session, timer_entry_id, wheelVars>>

\* The read_loop ends, for whatever reason, and removes its session.
ReadLoopReturns(s) ==
  /\ Between /\ s \in reading
  /\ reading' = reading \ {s}
  /\ RemoveSession(s)
  /\ UNCHANGED <<touched, heartbeat>>

\* Session::close by a handler, a failed write or the server's shutdown.
CloseSession(s) ==
  /\ Between /\ s \in open
  /\ open' = open \ {s}
  /\ UNCHANGED <<wheelVars, heartbeat, sessions, timer_to_session, timer_entry_id, reading, notified, touched>>

\* touch_session, by the read_loop of an open session after it has handled what it
\* read.
TouchSession(s) ==
  /\ Between /\ s \in reading /\ s \in open
  /\ s \in sessions /\ timer_entry_id[s] # 0
  /\ touched' = [touched EXCEPT ![s] = current_tick]
  /\ Reschedule(timer_entry_id[s], heartbeat)
  /\ UNCHANGED <<heartbeat, sessions, timer_to_session, timer_entry_id, open, reading, notified>>

\* tick(): the wheel's collection of due timers.
Tick == BeginTick /\ UNCHANGED managerVars

\* Mutant of OnTimerExpire: the session is closed and left to its read_loop.
OnTimerExpireLeavesSession(i) ==
  /\ calling = 0 /\ i \in expired
  /\ LET gone == {s \in sessions : timer_to_session[i] = s} IN
     /\ timer_to_session' = Without(timer_to_session, i)
     /\ timer_entry_id' = [s \in Created |-> IF s \in gone THEN 0 ELSE timer_entry_id[s]]
     /\ notified' = [s \in Created |-> IF s \in gone THEN notified[s] + 1 ELSE notified[s]]
     /\ open' = open \ gone
  /\ expired' = expired \ {i} /\ free_ids' = free_ids \cup {i}
  /\ current_tick' = IF expired' = {} THEN current_tick + 1 ELSE current_tick
  /\ UNCHANGED <<deadline, slots, next_id, calling, heartbeat, sessions, reading, touched>>

\* on_timer_expire, called back by the wheel for entry i: the session the timer
\* leads to, if there is one and it is still managed, leaves the map; the services
\* are notified and the session closed.  The wheel's BeginCallback and EndCallback
\* are part of the step.
OnTimerExpire(i) ==
  /\ calling = 0 /\ i \in expired
  /\ LET gone == {s \in sessions : i \in DOMAIN timer_to_session /\ timer_to_session[i] = s} IN
     /\ timer_to_session' = Without(timer_to_session, i)
     /\ timer_entry_id' = [s \in Created |-> IF s \in gone THEN 0 ELSE timer_entry_id[s]]
     /\ notified' = [s \in Created |-> IF s \in gone THEN notified[s] + 1 ELSE notified[s]]
     /\ sessions' = sessions \ gone /\ open' = open \ gone
  /\ expired' = expired \ {i} /\ free_ids' = free_ids \cup {i}
  /\ current_tick' = IF expired' = {} THEN current_tick + 1 ELSE current_tick
  /\ UNCHANGED <<deadline, slots, next_id, calling, heartbeat, reading, touched>>

Next ==
  \/ CreateSession \/ Tick
  \/ \E s \in Created : ReadLoopReturns(s) \/ CloseSession(s) \/ TouchSession(s)
  \/ \E i \in Ids : OnTimerExpire(i)

Spec == Init /\ [][Next]_vars

-----------------------------------------------------------------------------
(* Properties. *)

\* Type invariant.
TypeOK ==
  /\ WheelTypeOK
  /\ Created \subseteq 1..MaxSessions
  /\ sessions \subseteq Created /\ open \subseteq Created /\ reading \subseteq Created
  /\ DOMAIN timer_to_session \subseteq Ids
  /\ timer_to_session \in [DOMAIN timer_to_session -> Created]
  /\ timer_entry_id \in [Created -> Ids \cup {0}]
  /\ heartbeat \in Heartbeats /\ notified \in [Created -> 0..1] /\ touched \in [Created -> Nat]

\* A managed session has exactly one timer, the timer leads back to it, and no timer
\* outlives its session: none is left to expire on a session whose id it no longer
\* has, and no session is left that can never time out.
TimersMatchSessions ==
  /\ DOMAIN timer_to_session = Entries \cup expired
  /\ \A i \in DOMAIN timer_to_session :
       LET s == timer_to_session[i] IN s \in sessions /\ timer_entry_id[s] = i
  /\ heartbeat > 0 =>
       \A s \in sessions : timer_entry_id[s] \in Entries \cup expired

\* However a session ends, by its read_loop, its heartbeat or both, the services
\* hear of it exactly once, when it leaves the manager.
NotifiedOnce == \A s \in Created : notified[s] = IF s \in sessions THEN 0 ELSE 1

\* A session that has left the manager is closed, so its read_loop ends.
RemovedIsClosed == open \subseteq sessions

\* A session times out only after heartbeat_timeout_ticks without a touch, and then
\* at once: a managed session was touched within that many ticks.
ExpiresOnTime ==
  /\ \A i \in expired : touched[timer_to_session[i]] + heartbeat = current_tick
  /\ heartbeat > 0 => \A s \in sessions : current_tick <= touched[s] + heartbeat
=============================================================================

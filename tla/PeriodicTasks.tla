---------------------------- MODULE PeriodicTasks ----------------------------
(***************************************************************************)
(* PeriodicTaskScheduler (periodic_task_scheduler.cpp): tasks repeated on  *)
(* a core's io_context, cancelled by the core, and stopped all together by *)
(* finalize_shutdown (server.cpp), which runs on the control thread while  *)
(* the core goes on.                                                       *)
(*                                                                         *)
(* The scheduler has no lock.  A stop_all that meets a handler between its *)
(* find and its schedule_next destroys the entry under it; `corrupt' says  *)
(* that this has happened, and the core takes no step after it.            *)
(***************************************************************************)
EXTENDS Naturals, FiniteSets

CONSTANTS MaxTasks,   \* bound: calls of schedule()
          NoTask

\* What the constants may be.
PeriodicAssumption == MaxTasks \in Nat /\ NoTask \notin 1..MaxTasks

VARIABLES
  next_handle,  \* next_handle_: handles given out so far
  tasks,        \* the handles in tasks_
  timer,        \* each handle's wait: "none", "pending", "ok" or "aborted" (queued)
  executing,    \* the handle whose task runs
  erased,       \* history: handles taken out, from when no call of their task is under way
  stopped,      \* stop_all() has been called
  corrupt       \* it destroyed a task that was running

vars == <<next_handle, tasks, timer, executing, erased, stopped, corrupt>>

Handles == 1..MaxTasks

Init ==
  /\ next_handle = 0 /\ tasks = {} /\ timer = [h \in Handles |-> "none"]
  /\ executing = NoTask /\ erased = {} /\ stopped = FALSE /\ corrupt = FALSE

\* timer->cancel(): a wait that is pending completes with an error; one that has
\* completed already is not called back.
Cancelled(hs) == [h \in Handles |-> IF h \in hs /\ timer[h] = "pending" THEN "aborted" ELSE timer[h]]

\* schedule(), by a service's on_wire or by a task.
Schedule ==
  /\ next_handle < MaxTasks /\ ~stopped /\ ~corrupt
  /\ next_handle' = next_handle + 1
  /\ tasks' = tasks \cup {next_handle'}
  /\ timer' = [timer EXCEPT ![next_handle'] = "pending"]
  /\ UNCHANGED <<executing, erased, stopped, corrupt>>

\* cancel(), on the core, also by the task itself.
Cancel(h) ==
  /\ h \in tasks /\ ~corrupt
  /\ tasks' = tasks \ {h} /\ timer' = Cancelled({h})
  /\ erased' = erased \cup ({h} \ {executing})
  /\ UNCHANGED <<next_handle, executing, stopped, corrupt>>

Expire(h) ==
  /\ timer[h] = "pending"
  /\ timer' = [timer EXCEPT ![h] = "ok"]
  /\ UNCHANGED <<next_handle, tasks, executing, erased, stopped, corrupt>>

CoreFree == executing = NoTask /\ ~corrupt

\* The handler of a wait that was cancelled, or whose task is gone.
Ignore(h) ==
  /\ CoreFree
  /\ timer[h] = "aborted" \/ (timer[h] = "ok" /\ h \notin tasks)
  /\ timer' = [timer EXCEPT ![h] = "none"]
  /\ UNCHANGED <<next_handle, tasks, executing, erased, stopped, corrupt>>

\* ... of one that fired: the task is called.
Execute(h) ==
  /\ CoreFree /\ timer[h] = "ok" /\ h \in tasks
  /\ timer' = [timer EXCEPT ![h] = "none"] /\ executing' = h
  /\ UNCHANGED <<next_handle, tasks, erased, stopped, corrupt>>

\* The task returns or throws, which is caught; schedule_next waits again if the
\* task is still there.
TaskEnds ==
  /\ executing # NoTask /\ ~corrupt
  /\ executing' = NoTask
  /\ \/ executing \in tasks /\ timer' = [timer EXCEPT ![executing] = "pending"]
     \/ executing \notin tasks /\ UNCHANGED timer
  /\ erased' = erased \cup ({executing} \ tasks)
  /\ UNCHANGED <<next_handle, tasks, stopped, corrupt>>

\* stop_all(), on the control thread.
StopAll ==
  /\ ~stopped
  /\ stopped' = TRUE
  /\ timer' = Cancelled(tasks) /\ tasks' = {}
  /\ erased' = erased \cup (tasks \ {executing})
  /\ corrupt' = (corrupt \/ executing \in tasks)
  /\ UNCHANGED <<next_handle, executing>>

CoreStep == \E h \in Handles : Expire(h) \/ Ignore(h) \/ Execute(h)

Next == Schedule \/ StopAll \/ TaskEnds \/ CoreStep \/ \E h \in Handles : Cancel(h)

\* Every timer fires, its handler is run, and tasks return.
Fairness ==
  WF_vars(TaskEnds) /\ \A h \in Handles : WF_vars(Expire(h)) /\ WF_vars(Ignore(h)) /\ SF_vars(Execute(h))

Spec == Init /\ [][Next]_vars /\ Fairness

-----------------------------------------------------------------------------
(* Properties. *)

\* Type invariant.
TypeOK ==
  /\ next_handle \in 0..MaxTasks /\ tasks \subseteq Handles /\ erased \subseteq Handles
  /\ timer \in [Handles -> {"none", "pending", "ok", "aborted"}]
  /\ executing \in Handles \cup {NoTask} /\ {stopped, corrupt} \subseteq BOOLEAN

\* A task that cancel() or stop_all() has taken out is never called again, even if its
\* timer had fired and its handler was waiting in the queue; every other task has its
\* wait or is running.
CancelIsFinal ==
  /\ executing \notin erased
  /\ \A h \in tasks : timer[h] \in {"pending", "ok"} \/ executing = h

\* A task is called again and again until it is taken out, whatever it throws.
TaskKeepsRunning ==
  \A h \in Handles : h \in tasks ~> (executing = h \/ h \notin tasks \/ corrupt)

\* The class is to be used on a single thread only, the one that runs the io_context, says
\* its comment; stop_all is called from another, and destroys a running task.
NotDestroyedWhileRunning == ~corrupt
=============================================================================

---------------------------- MODULE CrossCoreCall ----------------------------
(***************************************************************************)
(* cross_core_call (cross_core_call.hpp): coroutines of one core run a     *)
(* function on another core and await its result with a timeout.  Each     *)
(* core is one thread.  The caller's thread is inside a coroutine from the *)
(* return of try_enqueue to async_wait; the target interleaves with it.    *)
(*                                                                         *)
(* The queue is SpscQueue's bounded FIFO.  A full queue suspends the       *)
(* caller; a second one that suspends replaces, and so destroys, the first *)
(* (pending_handler_), and a resumed one that finds the queue full again   *)
(* goes on as if its message had been queued.                              *)
(***************************************************************************)
EXTENDS Naturals, Sequences, SequencesExt

CONSTANTS Calls,      \* the calls made, each by a coroutine of its own
          Capacity,   \* capacity of the queue from caller to target
          None

ASSUME CallAssumption == Capacity \in Nat \ {0} /\ None \notin Calls

VARIABLES
  pc,        \* the coroutine of each call
  active,    \* the coroutine the caller's thread is in, or None
  queue,     \* tasks in the queue
  cancels,   \* calls whose timer->cancel() is posted to the caller's core
  expired,   \* calls whose timer has expired
  status,    \* State::status
  result,    \* State::result: "none", "value"
  task,      \* the heap-allocated std::function of each call
  pcT, cur,  \* the target's thread and the call it runs
  threw      \* calls whose function threw

callerVars == <<pc, active, expired>>
targetVars == <<pcT, cur, threw>>
vars == <<callerVars, queue, cancels, status, result, task, targetVars>>

Init ==
  /\ pc = [c \in Calls |-> "idle"] /\ active = None
  /\ queue = <<>> /\ cancels = {} /\ expired = {}
  /\ status = [c \in Calls |-> 0]
  /\ result = [c \in Calls |-> "none"]
  /\ task = [c \in Calls |-> "none"]
  /\ pcT = "idle" /\ cur = None /\ threw = {}

-----------------------------------------------------------------------------
(* The caller's core. *)

\* The message is queued, or lost; the coroutine runs on to async_wait.
Enqueue(c) ==
  /\ queue' = Append(queue, c)
  /\ task' = [task EXCEPT ![c] = "queued"]
  /\ pc' = [pc EXCEPT ![c] = "queued"]
  /\ active' = c

\* The timer is armed, the task allocated and posted; a full queue suspends.
Call(c) ==
  /\ active = None /\ pc[c] = "idle"
  /\ \/ Len(queue) < Capacity /\ Enqueue(c)
     \/ /\ Len(queue) = Capacity
        /\ pc' = [d \in Calls |-> IF d = c THEN "suspended"
                                  ELSE IF pc[d] = "suspended" THEN "destroyed" ELSE pc[d]]
        /\ task' = [task EXCEPT ![c] = "held"]
        /\ UNCHANGED <<queue, active>>
  /\ UNCHANGED <<cancels, expired, status, result, targetVars>>

\* The suspended co_post_to is resumed after the target's notification ...
Resume(c) ==
  /\ active = None /\ pc[c] = "resuming"
  /\ \/ Len(queue) < Capacity /\ Enqueue(c)
     \/ /\ Len(queue) = Capacity
        /\ pc' = [pc EXCEPT ![c] = "queued"] /\ active' = c
        /\ task' = [task EXCEPT ![c] = "lost"]
        /\ UNCHANGED queue
  /\ UNCHANGED <<cancels, expired, status, result, targetVars>>

\* ... or with an error, after which the task is deleted and the call throws.
Abort(c) ==
  /\ active = None /\ pc[c] = "suspended"
  /\ pc' = [pc EXCEPT ![c] = "thrown"]
  /\ task' = [task EXCEPT ![c] = "deleted"]
  /\ UNCHANGED <<active, queue, cancels, expired, status, result, targetVars>>

AsyncWait(c) ==
  /\ active = c
  /\ pc' = [pc EXCEPT ![c] = "waiting"] /\ active' = None
  /\ UNCHANGED <<queue, cancels, expired, status, result, task, targetVars>>

\* The timeout passes.
Expire(c) ==
  /\ pc[c] \in {"queued", "suspended", "resuming", "waiting"}
  /\ expired' = expired \cup {c}
  /\ UNCHANGED <<pc, active, queue, cancels, status, result, task, targetVars>>

\* timer->cancel() completes the wait, if the coroutine is waiting.
RunCancel(c) ==
  /\ active = None /\ c \in cancels
  /\ cancels' = cancels \ {c}
  /\ pc' = [pc EXCEPT ![c] = IF @ = "waiting" THEN "woken" ELSE @]
  /\ UNCHANGED <<active, queue, expired, status, result, task, targetVars>>

TimerFires(c) ==
  /\ active = None /\ pc[c] = "waiting" /\ c \in expired
  /\ pc' = [pc EXCEPT ![c] = "woken"]
  /\ UNCHANGED <<active, queue, cancels, expired, status, result, task, targetVars>>

\* Mutant of Settle: the timeout is stored without looking at the status.
SettleWithStore(c) ==
  /\ active = None /\ pc[c] = "woken"
  /\ status' = [status EXCEPT ![c] = 2]
  /\ pc' = [pc EXCEPT ![c] = IF status[c] = 1 THEN "reading"
                             ELSE IF status[c] = 3 THEN "failed" ELSE "timeout"]
  /\ UNCHANGED <<active, queue, cancels, expired, result, task, targetVars>>

\* CAS(0, 2): the timeout wins, or the outcome is what the target has set.
Settle(c) ==
  /\ active = None /\ pc[c] = "woken"
  /\ status' = [status EXCEPT ![c] = IF @ = 0 THEN 2 ELSE @]
  /\ pc' = [pc EXCEPT ![c] = CASE status[c] = 0 -> "timeout"
                               [] status[c] = 3 -> "failed"
                               [] OTHER -> "reading"]
  /\ UNCHANGED <<active, queue, cancels, expired, result, task, targetVars>>

\* The result is moved out of the state.
ReadResult(c) ==
  /\ active = None /\ pc[c] = "reading"
  /\ pc' = [pc EXCEPT ![c] = "value"]
  /\ UNCHANGED <<active, queue, cancels, expired, status, result, task, targetVars>>

CallerStep(c) ==
  Resume(c) \/ AsyncWait(c) \/ RunCancel(c) \/ TimerFires(c) \/ Settle(c) \/ ReadResult(c)

-----------------------------------------------------------------------------
(* The target's core: dispatch_message running the task. *)

TakeTask ==
  /\ pcT = "idle" /\ queue # <<>>
  /\ cur' = Head(queue) /\ queue' = Tail(queue)
  /\ task' = [task EXCEPT ![cur'] = "running"]
  /\ pcT' = "load"
  /\ UNCHANGED <<callerVars, cancels, status, result, threw>>

\* Mutant of LoadStatus: the early return leaves the task undeleted.
LoadStatusLeaks ==
  /\ pcT = "load"
  /\ pcT' = IF status[cur] # 0 THEN "idle" ELSE "invoke"
  /\ cur' = IF status[cur] # 0 THEN None ELSE cur
  /\ UNCHANGED <<callerVars, queue, cancels, status, result, task, threw>>

\* A call that has already timed out is not run.
LoadStatus ==
  /\ pcT = "load"
  /\ pcT' = IF status[cur] # 0 THEN "delete" ELSE "invoke"
  /\ UNCHANGED <<callerVars, queue, cancels, status, result, task, cur, threw>>

InvokeReturns ==
  /\ pcT = "invoke"
  /\ pcT' = "emplace"
  /\ UNCHANGED <<callerVars, queue, cancels, status, result, task, cur, threw>>

InvokeThrows ==
  /\ pcT = "invoke"
  /\ threw' = threw \cup {cur}
  /\ pcT' = "cas"
  /\ UNCHANGED <<callerVars, queue, cancels, status, result, task, cur>>

\* Mutant of Emplace: the status is set before the result is there.
EmplaceAfterStatus ==
  /\ pcT = "emplace"
  /\ status' = [status EXCEPT ![cur] = IF @ = 0 THEN 1 ELSE @]
  /\ pcT' = "cas"
  /\ UNCHANGED <<callerVars, queue, cancels, result, task, cur, threw>>

Emplace ==
  /\ pcT = "emplace"
  /\ result' = [result EXCEPT ![cur] = "value"]
  /\ pcT' = "cas"
  /\ UNCHANGED <<callerVars, queue, cancels, status, task, cur, threw>>

\* CAS(0, 1), or CAS(0, 3) after an exception.
CompareExchange ==
  /\ pcT = "cas"
  /\ status' = [status EXCEPT ![cur] = IF @ # 0 THEN @ ELSE IF cur \in threw THEN 3 ELSE 1]
  /\ pcT' = IF status[cur] = 0 THEN "cancel" ELSE "delete"
  /\ UNCHANGED <<callerVars, queue, cancels, result, task, cur, threw>>

\* Mutant of PostCancel: the target cancels the timer itself.
PostCancelDirectly ==
  /\ pcT = "cancel"
  /\ pc' = [pc EXCEPT ![cur] = IF @ = "waiting" THEN "woken" ELSE @]
  /\ pcT' = "delete"
  /\ UNCHANGED <<active, expired, cancels, queue, status, result, task, cur, threw>>

PostCancel ==
  /\ pcT = "cancel"
  /\ cancels' = cancels \cup {cur}
  /\ pcT' = "delete"
  /\ UNCHANGED <<callerVars, queue, status, result, task, cur, threw>>

DeleteTask ==
  /\ pcT = "delete"
  /\ task' = [task EXCEPT ![cur] = "deleted"]
  /\ pcT' = "idle" /\ cur' = None
  /\ UNCHANGED <<callerVars, queue, cancels, status, result, threw>>

\* After dequeuing, the drain posts the resumption of a waiting producer.
NotifyProducer ==
  /\ pcT = "idle" /\ \E c \in Calls : pc[c] = "suspended"
  /\ pc' = [c \in Calls |-> IF pc[c] = "suspended" THEN "resuming" ELSE pc[c]]
  /\ UNCHANGED <<active, expired, queue, cancels, status, result, task, targetVars>>

TargetStep ==
  \/ TakeTask \/ LoadStatus \/ InvokeReturns \/ InvokeThrows
  \/ Emplace \/ CompareExchange \/ PostCancel \/ DeleteTask \/ NotifyProducer

Next ==
  \/ \E c \in Calls : Call(c) \/ Abort(c) \/ Expire(c) \/ CallerStep(c)
  \/ TargetStep

Spec == Init /\ [][Next]_vars

\* The caller's io_context runs what is ready.  The target may be slow for ever
\* (that is what the timeout is for), and a timer need not expire soon.
FairSpec == Spec /\ \A c \in Calls : WF_vars(CallerStep(c))

\* As FairSpec, and the timeout does pass.
TimedSpec == FairSpec /\ \A c \in Calls : WF_vars(Expire(c))

-----------------------------------------------------------------------------
(* Properties. *)

Returned == {"value", "timeout", "failed", "thrown"}

\* Type invariant.
TypeOK ==
  /\ pc \in [Calls -> {"idle", "suspended", "destroyed", "resuming", "queued", "waiting",
                       "woken", "reading"} \cup Returned]
  /\ active \in Calls \cup {None}
  /\ queue \in Seq(Calls) /\ Len(queue) <= Capacity
  /\ cancels \subseteq Calls /\ expired \subseteq Calls
  /\ status \in [Calls -> 0..3]
  /\ result \in [Calls -> {"none", "value"}]
  /\ task \in [Calls -> {"none", "held", "queued", "running", "lost", "deleted"}]
  /\ pcT \in {"idle", "load", "invoke", "emplace", "cas", "cancel", "delete"}
  /\ cur \in Calls \cup {None}
  /\ threw \subseteq Calls

\* The status CAS decides the call once, and caller and target agree on it: what
\* the coroutine returns is what the status says, a value only if there is one, an
\* exception only if the function threw.
OutcomeAgreed ==
  \A c \in Calls :
    /\ pc[c] = "timeout" <=> status[c] = 2
    /\ pc[c] \in {"reading", "value"} => status[c] = 1 /\ result[c] = "value"
    /\ pc[c] = "failed" => status[c] = 3 /\ c \in threw

\* The result has no concurrent reader and writer: while the caller moves it out,
\* and after, the target does not touch it.
ResultNotShared ==
  \A c \in Calls : pc[c] \in {"reading", "value"} => ~(cur = c /\ pcT \in {"emplace", "cas"})

\* A task has one owner: it is in the queue once, or the target runs it, or it is
\* deleted, never two of these.
TaskOwnedOnce ==
  /\ IsInjective(queue)
  /\ \A c \in Calls : (task[c] = "queued" <=> c \in Range(queue)) /\ (task[c] = "running" <=> cur = c)

\* A settled call is never settled again.
SettledOnce == [][\A c \in Calls : status[c] # 0 => status'[c] = status[c]]_vars

\* Completion wakes the caller: once the target has settled a call it returns,
\* even if its timer never expires (the cancel posted to the caller's core cannot
\* come before async_wait).
CompletionWakesCaller ==
  \A c \in Calls : (status[c] \in {1, 3} /\ pcT # "cancel") ~> pc[c] \in Returned

\* cross_core_call.hpp: "Returns CrossCoreTimeout if timeout expires before
\* completion", so a call whose timer has expired returns.
ExpiredCallReturns == \A c \in Calls : c \in expired ~> pc[c] \in Returned
=============================================================================

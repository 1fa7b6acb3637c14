----------------------------- MODULE CoreEngine -----------------------------
(***************************************************************************)
(* Event-driven draining of the SPSC mesh into one destination core:       *)
(* CoreEngine::post_to, co_post_to and schedule_drain (core_engine.cpp) and*)
(* SpscMesh::drain_all_for (spsc_mesh.cpp).  Every destination has its own *)
(* flag, queues and thread, so one destination is modelled and the other   *)
(* cores are its sources.                                                  *)
(*                                                                         *)
(* A queue is the bounded FIFO that SpscQueue implements; its operations   *)
(* are single steps here and only its length is kept.  Each source core    *)
(* has at most one coroutine suspended in co_post_to, and other coroutines *)
(* that call post_to meanwhile.                                            *)
(*                                                                         *)
(* StoreBuffer = TRUE lets the destination's plain store to drain_pending_ *)
(* become visible after the loads that follow it, as x86 does with a       *)
(* release store; a read-modify-write empties the buffer.                  *)
(***************************************************************************)
EXTENDS Naturals

CONSTANTS NumCores,    \* core_count()
          Dst,         \* the destination core
          Capacity,    \* spsc_queue_capacity
          BatchLimit,  \* drain_batch_limit
          StoreBuffer, \* is the store to drain_pending_ buffered?
          Awaiting,    \* do sources use co_post_to?
          MaxRestarts  \* bound: times the engine is stopped and started again

ASSUME EngineAssumption ==
  /\ NumCores \in Nat \ {0, 1}
  /\ Dst \in 0..(NumCores - 1)
  /\ Capacity \in Nat \ {0}
  /\ BatchLimit \in Nat \ {0}
  /\ StoreBuffer \in BOOLEAN
  /\ Awaiting \in BOOLEAN
  /\ MaxRestarts \in Nat

Cores == 0..(NumCores - 1)
Srcs == Cores \ {Dst}

VARIABLES
  queued,         \* length of the queue of each source
  drain_pending,  \* drain_pending_[Dst], as memory has it
  buffered,       \* the destination's store of false is still in its buffer
  posted,         \* drain handlers in the destination's io_context
  pc,             \* where each source thread is
  waiter,         \* each source's coroutine in enqueue()
  pcD,            \* where the destination's drain handler is
  drain_rotate,   \* drain_rotate_[Dst]
  offset,         \* offset of drain_all_for, src of the re-check
  total,          \* total of drain_all_for
  restarts        \* times start() was called again

srcVars == <<pc, waiter>>
dstVars == <<pcD, drain_rotate, offset, total>>
vars == <<queued, drain_pending, buffered, posted, srcVars, dstVars, restarts>>

SrcPcs == {"idle", "exchange", "post", "recheck", "suspend"}
DstPcs == {"idle", "visit", "dequeue", "notify", "store", "recheck", "reschedule", "repost"}

Init ==
  /\ queued = [s \in Srcs |-> 0]
  /\ drain_pending = FALSE /\ buffered = FALSE /\ posted = 0
  /\ pc = [s \in Srcs |-> "idle"]
  /\ waiter = [s \in Srcs |-> "none"]
  /\ pcD = "idle" /\ drain_rotate = 0 /\ offset = 0 /\ total = 0
  /\ restarts = 0

-----------------------------------------------------------------------------
(* A source core. *)

\* try_enqueue, then on to schedule_drain; full is answered by `IfFull'.
TryEnqueue(s, IfFull) ==
  IF queued[s] < Capacity
  THEN /\ queued' = [queued EXCEPT ![s] = @ + 1]
       /\ pc' = [pc EXCEPT ![s] = "exchange"]
  ELSE UNCHANGED queued /\ pc' = [pc EXCEPT ![s] = IfFull]

\* post_to: a full queue is CrossCoreQueueFull.
PostTo(s) ==
  /\ pc[s] = "idle"
  /\ TryEnqueue(s, "idle")
  /\ UNCHANGED <<drain_pending, buffered, posted, waiter, dstVars, restarts>>

\* co_post_to: a full queue suspends the coroutine ...
CoPostTo(s) ==
  /\ Awaiting
  /\ pc[s] = "idle" /\ waiter[s] = "none"
  /\ TryEnqueue(s, "recheck")
  /\ UNCHANGED <<drain_pending, buffered, posted, waiter, dstVars, restarts>>

\* ... unless the re-check inside async_initiate finds room by now.
Recheck(s) ==
  /\ pc[s] = "recheck"
  /\ IF queued[s] < Capacity
     THEN pc' = [pc EXCEPT ![s] = "idle"] /\ waiter' = [waiter EXCEPT ![s] = "posted"]
     ELSE pc' = [pc EXCEPT ![s] = "suspend"] /\ UNCHANGED waiter
  /\ UNCHANGED <<queued, drain_pending, buffered, posted, dstVars, restarts>>

\* The handler is stored and producer_waiting_ raised.
Suspend(s) ==
  /\ pc[s] = "suspend"
  /\ waiter' = [waiter EXCEPT ![s] = "stored"]
  /\ pc' = [pc EXCEPT ![s] = "idle"]
  /\ UNCHANGED <<queued, drain_pending, buffered, posted, dstVars, restarts>>

\* The resumed enqueue() tries once more; co_post_to goes on to schedule_drain
\* whether or not there was room.  An aborted one throws.
Resume(s) ==
  /\ pc[s] = "idle" /\ waiter[s] \in {"posted", "aborted"}
  /\ waiter' = [waiter EXCEPT ![s] = "none"]
  /\ IF waiter[s] = "posted" THEN TryEnqueue(s, "exchange") ELSE UNCHANGED <<queued, pc>>
  /\ UNCHANGED <<drain_pending, buffered, posted, dstVars, restarts>>

\* schedule_drain: only the caller that turns the flag on posts a drain handler.
ExchangeFlag(s) ==
  /\ pc[s] = "exchange"
  /\ drain_pending' = TRUE
  /\ pc' = [pc EXCEPT ![s] = IF drain_pending THEN "idle" ELSE "post"]
  /\ UNCHANGED <<queued, buffered, posted, waiter, dstVars, restarts>>

PostDrain(s) ==
  /\ pc[s] = "post"
  /\ posted' = posted + 1
  /\ pc' = [pc EXCEPT ![s] = "idle"]
  /\ UNCHANGED <<queued, drain_pending, buffered, waiter, dstVars, restarts>>

SourceStep(s) ==
  Recheck(s) \/ Suspend(s) \/ Resume(s) \/ ExchangeFlag(s) \/ PostDrain(s)

-----------------------------------------------------------------------------
(* The destination core: the posted handler of schedule_drain. *)

BeginDrain ==
  /\ pcD = "idle" /\ posted > 0
  /\ posted' = posted - 1
  /\ pcD' = "visit" /\ offset' = 0 /\ total' = 0
  /\ UNCHANGED <<queued, drain_pending, buffered, srcVars, drain_rotate, restarts>>

\* The source drain_all_for is at.
Current == (drain_rotate + offset) % NumCores

\* Mutant of Visit: the start index is not advanced.
VisitWithoutRotation ==
  /\ pcD = "visit"
  /\ IF offset = NumCores \/ (Current # Dst /\ total >= BatchLimit)
     THEN pcD' = "store" /\ UNCHANGED offset
     ELSE IF Current = Dst THEN offset' = offset + 1 /\ UNCHANGED pcD
          ELSE pcD' = "dequeue" /\ UNCHANGED offset
  /\ UNCHANGED <<queued, drain_pending, buffered, posted, srcVars, total, drain_rotate, restarts>>

\* The head of drain_all_for's loop over the sources, and what follows it.
Visit ==
  /\ pcD = "visit"
  /\ IF offset = NumCores \/ (Current # Dst /\ total >= BatchLimit)
     THEN /\ pcD' = "store"
          /\ drain_rotate' = (drain_rotate + 1) % NumCores
          /\ UNCHANGED offset
     ELSE /\ UNCHANGED drain_rotate
          /\ IF Current = Dst THEN offset' = offset + 1 /\ UNCHANGED pcD
             ELSE pcD' = "dequeue" /\ UNCHANGED offset
  /\ UNCHANGED <<queued, drain_pending, buffered, posted, srcVars, total, restarts>>

\* try_dequeue and the dispatch of the message.
Dequeue ==
  /\ pcD = "dequeue"
  /\ IF total < BatchLimit /\ queued[Current] > 0
     THEN /\ queued' = [queued EXCEPT ![Current] = @ - 1]
          /\ total' = total + 1
          /\ UNCHANGED pcD
     ELSE pcD' = "notify" /\ UNCHANGED <<queued, total>>
  /\ UNCHANGED <<drain_pending, buffered, posted, srcVars, drain_rotate, offset, restarts>>

\* notify_producer_if_waiting of the queue just drained.
Notify ==
  /\ pcD = "notify"
  /\ waiter' = [waiter EXCEPT ![Current] = IF @ = "stored" THEN "posted" ELSE @]
  /\ pcD' = "visit" /\ offset' = offset + 1
  /\ UNCHANGED <<queued, drain_pending, buffered, posted, pc, drain_rotate, total, restarts>>

\* Mutant of StoreFlag: the handler ends without the re-check.
StoreFlagAndLeave ==
  /\ pcD = "store"
  /\ drain_pending' = FALSE
  /\ pcD' = "idle" /\ offset' = 0
  /\ UNCHANGED <<queued, buffered, posted, srcVars, drain_rotate, total, restarts>>

\* drain_pending_.store(false, release).
StoreFlag ==
  /\ pcD = "store"
  /\ IF StoreBuffer THEN buffered' = TRUE /\ UNCHANGED drain_pending
                    ELSE drain_pending' = FALSE /\ UNCHANGED buffered
  /\ pcD' = "recheck" /\ offset' = 0
  /\ UNCHANGED <<queued, posted, srcVars, drain_rotate, total, restarts>>

\* The re-check, one queue's empty() at a time.
RecheckQueue ==
  /\ pcD = "recheck"
  /\ pcD' = IF offset = NumCores THEN "idle"
            ELSE IF offset # Dst /\ queued[offset] > 0 THEN "reschedule" ELSE "recheck"
  /\ offset' = IF pcD' = "recheck" THEN offset + 1 ELSE 0
  /\ UNCHANGED <<queued, drain_pending, buffered, posted, srcVars, drain_rotate, total, restarts>>

\* Mutant of Reschedule: a drain is posted whatever the flag says.
RescheduleAlways ==
  /\ pcD = "reschedule"
  /\ drain_pending' = TRUE /\ buffered' = FALSE
  /\ pcD' = "repost"
  /\ UNCHANGED <<queued, posted, srcVars, drain_rotate, offset, total, restarts>>

\* schedule_drain called by the handler itself.
Reschedule ==
  /\ pcD = "reschedule"
  /\ drain_pending' = TRUE /\ buffered' = FALSE
  /\ pcD' = IF drain_pending /\ ~buffered THEN "idle" ELSE "repost"
  /\ UNCHANGED <<queued, posted, srcVars, drain_rotate, offset, total, restarts>>

Repost ==
  /\ pcD = "repost"
  /\ posted' = posted + 1
  /\ pcD' = "idle"
  /\ UNCHANGED <<queued, drain_pending, buffered, srcVars, drain_rotate, offset, total, restarts>>

\* The buffered store reaches memory.
FlushBuffer ==
  /\ buffered
  /\ drain_pending' = FALSE /\ buffered' = FALSE
  /\ UNCHANGED <<queued, posted, srcVars, dstVars, restarts>>

(* stop(), which lets every thread finish its handler, join() and start() again,
   with or without drain_remaining() in between.  Posted handlers stay in the
   io_contexts; the flag is cleared. *)
Restart(drained) ==
  /\ restarts < MaxRestarts
  /\ pcD = "idle" /\ \A s \in Srcs : pc[s] = "idle"
  /\ restarts' = restarts + 1
  /\ drain_pending' = FALSE /\ buffered' = FALSE
  /\ IF drained
     THEN /\ queued' = [s \in Srcs |-> 0]
          /\ waiter' = [s \in Srcs |-> IF waiter[s] = "stored" THEN "aborted" ELSE waiter[s]]
     ELSE UNCHANGED <<queued, waiter>>
  /\ UNCHANGED <<posted, pc, dstVars>>

DrainStep ==
  \/ BeginDrain \/ Visit \/ Dequeue \/ Notify
  \/ StoreFlag \/ RecheckQueue \/ Reschedule \/ Repost

\* The steps of a machine whose stores are visible at once ...
SyncNext ==
  \/ \E s \in Srcs : PostTo(s) \/ CoPostTo(s) \/ SourceStep(s)
  \/ DrainStep
  \/ \E drained \in BOOLEAN : Restart(drained)

\* ... and of any machine.
Next == SyncNext \/ FlushBuffer

Spec == Init /\ [][Next]_vars

\* Every core's io_context runs what is posted to it; nothing makes a coroutine post
\* again.
Fairness == WF_vars(DrainStep) /\ \A s \in Srcs : WF_vars(SourceStep(s))

SyncFairSpec == Init /\ [][SyncNext]_vars /\ Fairness

\* A store becomes visible in the end.
FairSpec == Spec /\ Fairness /\ WF_vars(FlushBuffer)

-----------------------------------------------------------------------------
(* Properties. *)

\* Type invariant.
TypeOK ==
  /\ queued \in [Srcs -> 0..Capacity]
  /\ drain_pending \in BOOLEAN /\ buffered \in BOOLEAN
  /\ posted \in Nat
  /\ pc \in [Srcs -> SrcPcs]
  /\ waiter \in [Srcs -> {"none", "stored", "posted", "aborted"}]
  /\ pcD \in DstPcs
  /\ drain_rotate \in Cores /\ offset \in 0..NumCores /\ total \in 0..BatchLimit
  /\ restarts \in 0..MaxRestarts

\* The handler is between its start and the store to the flag, or about to post
\* its successor: it owns the flag.
Draining == pcD \in {"visit", "dequeue", "notify", "store", "repost"}

\* No message is left behind: while a queue holds one, a drain is posted or
\* running, or a thread is on its way to post one (the re-check after the store
\* to drain_pending_).
NoStrandedMessage ==
  (\E s \in Srcs : queued[s] > 0) =>
     \/ posted > 0 \/ pcD # "idle" \/ \E s \in Srcs : pc[s] \in {"exchange", "post"}

\* Draining is coalesced: until the engine is started again, at most one drain is
\* posted, running or about to be posted.
DrainCoalesced ==
  restarts = 0 =>
    /\ posted <= 1
    /\ Draining => posted = 0
    /\ \A s \in Srcs : pc[s] = "post" =>
         posted = 0 /\ ~Draining /\ \A t \in Srcs : pc[t] = "post" => t = s

\* Rotation of the start index: a source that has messages is served again and
\* again, however busy the others keep the batch limit.
NoStarvation ==
  \A s \in Srcs : []<>(queued[s] = 0) \/ []<><<queued'[s] < queued[s]>>_vars

\* core_engine.hpp: "Drain is event-driven: post_to() triggers immediate drain via
\* post()", so what is queued is dispatched.
EveryMessageDrained == \A s \in Srcs : queued[s] > 0 ~> queued[s] = 0

\* core_engine.hpp, co_post_to: "Suspends if SPSC queue is full, resumes when space
\* available."
SuspendedIsResumed == \A s \in Srcs : waiter[s] = "stored" ~> waiter[s] # "stored"
=============================================================================

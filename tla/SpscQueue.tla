------------------------------ MODULE SpscQueue ------------------------------
(***************************************************************************)
(* The bounded single-producer single-consumer queue between two cores     *)
(* (apex_core/include/apex/core/spsc_queue.hpp), one step per access to    *)
(* memory that both threads touch.                                         *)
(*                                                                         *)
(* The producer THREAD is one core; it runs many coroutines, one at a      *)
(* time, each until it suspends.  Awaiters call enqueue() (the awaitable   *)
(* one, through CoreEngine::co_post_to), the others try_enqueue() (through *)
(* post_to).  The consumer thread runs the per-queue part of               *)
(* SpscMesh::drain_all_for: dequeue until empty or the batch limit, then   *)
(* notify_producer_if_waiting.                                             *)
(*                                                                         *)
(* An acquire load may return an old value: any value between the last one *)
(* the thread saw and the current one, at most MaxLag behind.  MaxLag = 0  *)
(* is sequential consistency.                                              *)
(***************************************************************************)
EXTENDS Naturals, Sequences, FiniteSets

CONSTANTS Coroutines,  \* coroutines of the producer's core
          Awaiters,    \* those that use the awaitable enqueue()
          Capacity,    \* capacity_
          BatchLimit,  \* batch_limit of drain_all_for
          MaxItems,    \* bound: calls made by each coroutine
          MaxLag,      \* bound: how far behind a load may be
          None         \* no coroutine, no item

ASSUME SpscAssumption ==
  /\ Capacity \in Nat \ {0}
  /\ BatchLimit \in Nat \ {0}
  /\ MaxItems \in Nat
  /\ MaxLag \in Nat
  /\ Awaiters \subseteq Coroutines
  /\ None \notin Coroutines

VARIABLES
  head, tail,             \* head_ (producer only), tail_ (consumer only)
  published, consumed,    \* published_, consumed_
  slots,                  \* slots_
  producer_waiting,       \* producer_waiting_
  pending_handler,        \* pending_handler_: the coroutine it resumes
  posted,                 \* handlers posted to producer_io_: <<coroutine, ec>>
  pc,                     \* where each coroutine is
  calls,                  \* how many calls each coroutine has made
  seenConsumed,           \* last value of consumed_ the producer loaded
  pcC,                    \* where the consumer thread is
  seenPublished,          \* last value of published_ the consumer loaded
  count,                  \* items the dequeue in progress will take
  batch,                  \* items it has read so far
  total,                  \* drain_all_for's total
  stopped,                \* the core threads are joined
  accepted, received,     \* history: items enqueued, items handed over
  dropped                 \* history: items lost by a resumed enqueue()

prodVars == <<head, published, posted, pc, calls, seenConsumed, accepted, dropped>>
consVars == <<tail, consumed, pcC, seenPublished, count, batch, total, received>>
vars == <<prodVars, consVars, slots, producer_waiting, pending_handler, stopped>>

Items == Coroutines \X (1..MaxItems)
ItemOf(c) == <<c, calls[c]>>

\* slots_[i & mask_]
Slot(i) == i % Capacity

\* Where a coroutine holds the producer thread ...
Running == {"try", "write", "publish", "recheck", "store", "set_flag", "retry"}
\* ... and where it does not: between calls, suspended, ended by an
\* operation_aborted exception, or destroyed together with its handler.
Resting == {"idle", "suspended", "aborted", "destroyed"}
ConsumerPcs == {"idle", "load", "read", "store", "notify", "clear", "take"}

ProducerFree == \A c \in Coroutines : pc[c] \notin Running
Goto(c, l) == pc' = [pc EXCEPT ![c] = l]

\* The values an acquire load of a counter may return.
Loads(seen, actual) == {v \in seen..actual : actual - v <= MaxLag}

Init ==
  /\ head = 0 /\ tail = 0 /\ published = 0 /\ consumed = 0
  /\ slots = [i \in 0..(Capacity - 1) |-> None]
  /\ producer_waiting = FALSE /\ pending_handler = None /\ posted = {}
  /\ pc = [c \in Coroutines |-> "idle"] /\ calls = [c \in Coroutines |-> 0]
  /\ seenConsumed = 0 /\ seenPublished = 0
  /\ pcC = "idle" /\ count = 0 /\ batch = << >> /\ total = 0
  /\ stopped = FALSE
  /\ accepted = << >> /\ received = << >> /\ dropped = {}

-----------------------------------------------------------------------------
(* The producer thread. *)

\* A coroutine of the core starts an enqueue() or a try_enqueue().
BeginEnqueue(c) ==
  /\ ProducerFree /\ ~stopped
  /\ pc[c] = "idle" /\ calls[c] < MaxItems
  /\ calls' = [calls EXCEPT ![c] = @ + 1]
  /\ Goto(c, "try")
  /\ UNCHANGED <<head, published, posted, seenConsumed, accepted, dropped,
                 consVars, slots, producer_waiting, pending_handler, stopped>>

\* Mutant of TryLoad: the full test is off by one.
TryLoadOffByOne(c) ==
  /\ pc[c] \in {"try", "retry"}
  /\ \E v \in Loads(seenConsumed, consumed) :
       /\ seenConsumed' = v
       /\ IF head - v > Capacity
          THEN Goto(c, IF c \in Awaiters /\ pc[c] = "try" THEN "recheck" ELSE "idle")
          ELSE Goto(c, "write")
  /\ UNCHANGED <<head, published, posted, calls, accepted, dropped,
                 consVars, slots, producer_waiting, pending_handler, stopped>>

\* try_enqueue: load consumed_; when full it returns false.  A plain caller is
\* told, an awaiting one goes on to suspend, and one that was resumed drops its
\* item (the assert is compiled out of release builds).
TryLoad(c) ==
  /\ pc[c] \in {"try", "retry"}
  /\ \E v \in Loads(seenConsumed, consumed) :
       /\ seenConsumed' = v
       /\ IF head - v >= Capacity
          THEN /\ Goto(c, IF c \in Awaiters /\ pc[c] = "try" THEN "recheck" ELSE "idle")
               /\ dropped' = IF pc[c] = "retry" THEN dropped \cup {ItemOf(c)} ELSE dropped
          ELSE Goto(c, "write") /\ UNCHANGED dropped
  /\ UNCHANGED <<head, published, posted, calls, accepted,
                 consVars, slots, producer_waiting, pending_handler, stopped>>

TryWrite(c) ==
  /\ pc[c] = "write"
  /\ slots' = [slots EXCEPT ![Slot(head)] = ItemOf(c)]
  /\ head' = head + 1
  /\ Goto(c, "publish")
  /\ UNCHANGED <<published, posted, calls, seenConsumed, accepted, dropped,
                 consVars, producer_waiting, pending_handler, stopped>>

TryPublish(c) ==
  /\ pc[c] = "publish"
  /\ published' = head
  /\ accepted' = Append(accepted, ItemOf(c))
  /\ Goto(c, "idle")
  /\ UNCHANGED <<head, posted, calls, seenConsumed, dropped,
                 consVars, slots, producer_waiting, pending_handler, stopped>>

\* enqueue's async_initiate: look again before suspending; if there is room by
\* now the coroutine's own handler is posted.
Recheck(c) ==
  /\ pc[c] = "recheck"
  /\ \E v \in Loads(seenConsumed, consumed) :
       /\ seenConsumed' = v
       /\ IF head - v < Capacity
          THEN posted' = posted \cup {<<c, "ok">>} /\ Goto(c, "suspended")
          ELSE Goto(c, "store") /\ UNCHANGED posted
  /\ UNCHANGED <<head, published, calls, accepted, dropped,
                 consVars, slots, producer_waiting, pending_handler, stopped>>

\* pending_handler_ = std::move(handler): a handler that was there is destroyed,
\* and with it the coroutine waiting on it.
StoreHandler(c) ==
  /\ pc[c] = "store"
  /\ pc' = [d \in Coroutines |-> IF d = c THEN "set_flag"
                                 ELSE IF d = pending_handler THEN "destroyed"
                                 ELSE pc[d]]
  /\ pending_handler' = c
  /\ UNCHANGED <<head, published, posted, calls, seenConsumed, accepted, dropped,
                 consVars, slots, producer_waiting, stopped>>

\* Mutant of SetWaiting: the flag is not raised.
SetWaitingForgotten(c) ==
  /\ pc[c] = "set_flag"
  /\ Goto(c, "suspended")
  /\ UNCHANGED <<head, published, posted, calls, seenConsumed, accepted, dropped,
                 consVars, slots, producer_waiting, pending_handler, stopped>>

SetWaiting(c) ==
  /\ pc[c] = "set_flag"
  /\ producer_waiting' = TRUE
  /\ Goto(c, "suspended")
  /\ UNCHANGED <<head, published, posted, calls, seenConsumed, accepted, dropped,
                 consVars, slots, pending_handler, stopped>>

\* producer_io_ runs a posted handler.  operation_aborted is rethrown by
\* use_awaitable: the call ends without enqueueing.
Resume(c, ec) ==
  /\ ProducerFree
  /\ <<c, ec>> \in posted /\ pc[c] = "suspended"
  /\ posted' = posted \ {<<c, ec>>}
  /\ Goto(c, IF ec = "ok" THEN "retry" ELSE "aborted")
  /\ UNCHANGED <<head, published, calls, seenConsumed, accepted, dropped,
                 consVars, slots, producer_waiting, pending_handler, stopped>>

ProducerStep(c) ==
  \/ TryLoad(c) \/ TryWrite(c) \/ TryPublish(c)
  \/ Recheck(c) \/ StoreHandler(c) \/ SetWaiting(c)
  \/ \E ec \in {"ok", "aborted"} : Resume(c, ec)

-----------------------------------------------------------------------------
(* The consumer thread. *)

\* drain_all_for reaches this queue.
BeginDrain ==
  /\ pcC = "idle" /\ ~stopped
  /\ pcC' = "load" /\ total' = 0
  /\ UNCHANGED <<tail, consumed, seenPublished, count, batch, received,
                 prodVars, slots, producer_waiting, pending_handler, stopped>>

\* Mutant of DequeueLoad: consumed_ is stored before the slots are read.
DequeueLoadReleasesFirst(want) ==
  /\ pcC = "load"
  /\ \E v \in Loads(seenPublished, published) :
       /\ seenPublished' = v
       /\ count' = IF v - tail < want THEN v - tail ELSE want
       /\ consumed' = tail + count'
       /\ batch' = << >>
       /\ pcC' = IF v - tail = 0 THEN "notify" ELSE "read"
  /\ UNCHANGED <<tail, total, received,
                 prodVars, slots, producer_waiting, pending_handler, stopped>>

\* try_dequeue (want = 1) and drain(span) (want = the span's size): how many
\* items this call takes.  None left, or the batch limit reached: on to notify.
DequeueLoad(want) ==
  /\ pcC = "load"
  /\ IF total >= BatchLimit
     THEN pcC' = "notify" /\ UNCHANGED <<seenPublished, count, batch>>
     ELSE \E v \in Loads(seenPublished, published) :
            /\ seenPublished' = v
            /\ count' = IF v - tail < want THEN v - tail ELSE want
            /\ batch' = << >>
            /\ pcC' = IF v - tail = 0 THEN "notify" ELSE "read"
  /\ UNCHANGED <<tail, consumed, total, received,
                 prodVars, slots, producer_waiting, pending_handler, stopped>>

DequeueRead ==
  /\ pcC = "read"
  /\ batch' = Append(batch, slots[Slot(tail + Len(batch))])
  /\ pcC' = IF Len(batch) + 1 = count THEN "store" ELSE "read"
  /\ UNCHANGED <<tail, consumed, seenPublished, count, total, received,
                 prodVars, slots, producer_waiting, pending_handler, stopped>>

\* Hands the items over; drain_all_for goes round its loop.
DequeueStore ==
  /\ pcC = "store"
  /\ tail' = tail + count
  /\ consumed' = tail'
  /\ received' = received \o batch
  /\ total' = total + count
  /\ pcC' = "load"
  /\ UNCHANGED <<seenPublished, count, batch,
                 prodVars, slots, producer_waiting, pending_handler, stopped>>

\* Mutant of NotifyLoad: the handler is taken whether or not the flag is up.
NotifyLoadUnguarded ==
  /\ pcC = "notify"
  /\ pcC' = "clear"
  /\ UNCHANGED <<tail, consumed, seenPublished, count, batch, total, received,
                 prodVars, slots, producer_waiting, pending_handler, stopped>>

\* notify_producer_if_waiting, its load, its store and its move of the handler.
NotifyLoad ==
  /\ pcC = "notify"
  /\ pcC' = IF producer_waiting THEN "clear" ELSE "idle"
  /\ UNCHANGED <<tail, consumed, seenPublished, count, batch, total, received,
                 prodVars, slots, producer_waiting, pending_handler, stopped>>

NotifyClear ==
  /\ pcC = "clear"
  /\ producer_waiting' = FALSE
  /\ pcC' = "take"
  /\ UNCHANGED <<tail, consumed, seenPublished, count, batch, total, received,
                 prodVars, slots, pending_handler, stopped>>

\* Mutant of NotifyTake: the handler is moved out but not posted.
NotifyTakeUnposted ==
  /\ pcC = "take"
  /\ pending_handler' = None
  /\ pcC' = "idle"
  /\ UNCHANGED <<tail, consumed, seenPublished, count, batch, total, received,
                 prodVars, slots, producer_waiting, stopped>>

NotifyTake ==
  /\ pcC = "take"
  /\ posted' = IF pending_handler = None THEN posted
               ELSE posted \cup {<<pending_handler, "ok">>}
  /\ pending_handler' = None
  /\ pcC' = "idle"
  /\ UNCHANGED <<tail, consumed, seenPublished, count, batch, total, received,
                 head, published, pc, calls, seenConsumed, accepted, dropped,
                 slots, producer_waiting, stopped>>

ConsumerStep ==
  \/ BeginDrain
  \/ \E want \in {1, BatchLimit} : DequeueLoad(want)
  \/ DequeueRead \/ DequeueStore
  \/ NotifyLoad \/ NotifyClear \/ NotifyTake

-----------------------------------------------------------------------------
(* Shutdown: CoreEngine::stop() and join() let the handler each thread is in *)
(* finish; SpscMesh::shutdown() then runs alone.  ~Server polls the producer *)
(* io_context afterwards, which is when an aborted coroutine learns of it.   *)

Stop ==
  /\ ~stopped /\ ProducerFree /\ pcC = "idle"
  /\ stopped' = TRUE
  /\ UNCHANGED <<prodVars, consVars, slots, producer_waiting, pending_handler>>

\* cancel_waiting_producer, then every remaining item is dequeued and dropped.
Shutdown ==
  /\ stopped /\ ProducerFree
  /\ producer_waiting \/ tail < published
  /\ posted' = IF producer_waiting /\ pending_handler # None
               THEN posted \cup {<<pending_handler, "aborted">>} ELSE posted
  /\ pending_handler' = IF producer_waiting THEN None ELSE pending_handler
  /\ producer_waiting' = FALSE
  /\ tail' = published /\ consumed' = published /\ seenPublished' = published
  /\ received' = accepted
  /\ UNCHANGED <<head, published, pc, calls, seenConsumed, accepted, dropped,
                 pcC, count, batch, total, slots, stopped>>

Next ==
  \/ \E c \in Coroutines : BeginEnqueue(c) \/ ProducerStep(c)
  \/ ConsumerStep
  \/ Stop
  \/ Shutdown

Spec == Init /\ [][Next]_vars

\* Both threads keep running: the producer's io_context runs what is ready, the
\* consumer drains again and again, and a joined engine is shut down.
Fairness ==
  /\ WF_vars(\E c \in Coroutines : ProducerStep(c))
  /\ WF_vars(ConsumerStep)
  /\ WF_vars(Shutdown)

FairSpec == Spec /\ Fairness

-----------------------------------------------------------------------------
(* Properties. *)

\* Type invariant: the variables of the queue and of its two threads.
TypeOK ==
  /\ head \in Nat /\ tail \in Nat /\ published \in Nat /\ consumed \in Nat
  /\ slots \in [0..(Capacity - 1) -> Items \cup {None}]
  /\ producer_waiting \in BOOLEAN
  /\ pending_handler \in Coroutines \cup {None}
  /\ posted \subseteq Coroutines \X {"ok", "aborted"}
  /\ pc \in [Coroutines -> Running \cup Resting]
  /\ calls \in [Coroutines -> 0..MaxItems]
  /\ seenConsumed \in Nat /\ seenPublished \in Nat
  /\ pcC \in ConsumerPcs
  /\ count \in 0..Capacity /\ batch \in Seq(Items \cup {None}) /\ total \in Nat
  /\ stopped \in BOOLEAN
  /\ accepted \in Seq(Items) /\ received \in Seq(Items) /\ dropped \subseteq Items

\* The queue is a bounded FIFO: what try_enqueue published is handed over once
\* each, in order, whatever the interleaving and however stale the loads.
Fifo == INSTANCE BoundedFifo WITH delivered <- received
FifoSpec == Fifo!Spec

\* The slots are plain memory: the slot try_enqueue is about to write is never
\* the one the consumer is reading (published_/consumed_ order the accesses).
SlotExclusive ==
  \A c \in Coroutines : pc[c] = "write" /\ pcC = "read"
                          => Slot(head) # Slot(tail + Len(batch))

\* pending_handler_ is plain memory too: the consumer never moves it out while
\* an enqueue() stores one.  True when one coroutine at a time awaits the queue.
HandlerExclusive ==
  \A c \in Coroutines : ~(pc[c] = "store" /\ pcC = "take")

\* A suspended enqueue() can always be woken: its handler is posted, or stored
\* with the flag set (or the consumer already on its way to take it).
SuspendedIsReachable ==
  \A c \in Coroutines : pc[c] = "suspended" =>
     \/ \E ec \in {"ok", "aborted"} : <<c, ec>> \in posted
     \/ pending_handler = c /\ (producer_waiting \/ pcC = "take")

\* With a consumer that keeps draining, a suspended enqueue() returns (resumed,
\* or aborted by the shutdown of the mesh).
AwaitReturns ==
  \A c \in Coroutines : pc[c] = "suspended" ~> pc[c] # "suspended"

\* spsc_queue.hpp: "Resumed - enqueue must succeed now", and the assert after it.
ResumedEnqueueSucceeds == dropped = {}

\* spsc_queue.hpp: the awaitable enqueue "Suspends if queue is full, resumes when
\* space available": a suspended coroutine is not destroyed instead.
NoCallDestroyed == \A c \in Coroutines : pc[c] # "destroyed"
=============================================================================

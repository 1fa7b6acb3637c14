------------------------------ MODULE MpscQueue ------------------------------
(***************************************************************************)
(* MpscQueue (mpsc_queue.hpp): a bounded ring that any number of producers *)
(* append to by compare-and-swap on head_, and one consumer empties.  Each *)
(* load, store and compare-and-swap is a step of its own.                  *)
(***************************************************************************)
EXTENDS Integers, Sequences

CONSTANTS Producers,
          Capacity,        \* capacity_, a power of two
          MaxItems,        \* bound: slots reserved over the life of the queue
          None             \* no item

MpscAssumption == Capacity \in Nat \ {0} /\ MaxItems \in Nat

VARIABLES
  head, tail,              \* head_, tail_
  ready, data,             \* Slot::ready and Slot::data
  producer,                \* per producer: step, and its locals head and tail
  consumer,                \* the consumer's step and the item it copied
  reserved,                \* history: <<producer, index>> in the order of reservation
  taken                    \* history: what dequeue returned

vars == <<head, tail, ready, data, producer, consumer, reserved, taken>>

Idle == [at |-> "idle", head |-> 0, tail |-> 0]

Init ==
  /\ head = 0 /\ tail = 0
  /\ ready = [i \in 0 .. Capacity - 1 |-> FALSE] /\ data = [i \in 0 .. Capacity - 1 |-> None]
  /\ producer = [p \in Producers |-> Idle]
  /\ consumer = [at |-> "idle", item |-> None]
  /\ reserved = <<>> /\ taken = <<>>

Slot(i) == i % Capacity

\* Unsigned subtraction: a head older than the tail is at capacity too.
Full(h, t) == h < t \/ h - t >= Capacity

LoadHead(p) ==
  /\ producer[p].at = "idle" /\ Len(reserved) < MaxItems
  /\ producer' = [producer EXCEPT ![p] = [at |-> "tail", head |-> head, tail |-> 0]]
  /\ UNCHANGED <<head, tail, ready, data, consumer, reserved, taken>>

LoadTail(p) ==
  /\ producer[p].at = "tail"
  /\ producer' = [producer EXCEPT ![p] = [at |-> "swap", head |-> @.head, tail |-> tail]]
  /\ UNCHANGED <<head, tail, ready, data, consumer, reserved, taken>>

\* BufferFull.
Refuse(p) ==
  /\ producer[p].at = "swap" /\ Full(producer[p].head, producer[p].tail)
  /\ producer' = [producer EXCEPT ![p] = Idle]
  /\ UNCHANGED <<head, tail, ready, data, consumer, reserved, taken>>

\* Mutant of Reserve: the check for room is off by one.
ReserveOneMore(p) ==
  /\ producer[p].at = "swap" /\ producer[p].head - producer[p].tail \in 0 .. Capacity
  /\ Len(reserved) < MaxItems
  /\ head = producer[p].head /\ head' = head + 1
  /\ producer' = [producer EXCEPT ![p].at = "write"]
  /\ reserved' = Append(reserved, <<p, head>>)
  /\ UNCHANGED <<tail, ready, data, consumer, taken>>

Reserve(p) ==
  /\ producer[p].at = "swap" /\ ~Full(producer[p].head, producer[p].tail)
  /\ Len(reserved) < MaxItems
  /\ head = producer[p].head /\ head' = head + 1
  /\ producer' = [producer EXCEPT ![p].at = "write"]
  /\ reserved' = Append(reserved, <<p, head>>)
  /\ UNCHANGED <<tail, ready, data, consumer, taken>>

\* compare_exchange_weak fails: head is reloaded, and the tail after it.
Retry(p) ==
  /\ producer[p].at = "swap" /\ ~Full(producer[p].head, producer[p].tail)
  /\ producer' = [producer EXCEPT ![p] = [at |-> "tail", head |-> head, tail |-> 0]]
  /\ UNCHANGED <<head, tail, ready, data, consumer, reserved, taken>>

WriteData(p) ==
  /\ producer[p].at = "write"
  /\ data' = [data EXCEPT ![Slot(producer[p].head)] = <<p, producer[p].head>>]
  /\ producer' = [producer EXCEPT ![p].at = "publish"]
  /\ UNCHANGED <<head, tail, ready, consumer, reserved, taken>>

Publish(p) ==
  /\ producer[p].at = "publish"
  /\ ready' = [ready EXCEPT ![Slot(producer[p].head)] = TRUE]
  /\ producer' = [producer EXCEPT ![p] = Idle]
  /\ UNCHANGED <<head, tail, data, consumer, reserved, taken>>

\* dequeue, step by step; an unready slot ends it with nothing.
ReadSlot ==
  /\ consumer.at = "idle" /\ ready[Slot(tail)]
  /\ consumer' = [at |-> "clear", item |-> data[Slot(tail)]]
  /\ UNCHANGED <<head, tail, ready, data, producer, reserved, taken>>

ClearReady ==
  /\ consumer.at = "clear"
  /\ ready' = [ready EXCEPT ![Slot(tail)] = FALSE]
  /\ consumer' = [consumer EXCEPT !.at = "advance"]
  /\ UNCHANGED <<head, tail, data, producer, reserved, taken>>

Advance ==
  /\ consumer.at = "advance"
  /\ tail' = tail + 1 /\ taken' = Append(taken, consumer.item)
  /\ consumer' = [at |-> "idle", item |-> None]
  /\ UNCHANGED <<head, ready, data, producer, reserved>>

Dequeue == ReadSlot \/ ClearReady \/ Advance

Enqueue(p) ==
  \/ LoadHead(p) \/ LoadTail(p) \/ Refuse(p) \/ Reserve(p) \/ Retry(p) \/ WriteData(p)
  \/ Publish(p)

Next == Dequeue \/ \E p \in Producers : Enqueue(p)

\* The consumer drains on every tick; a producer inside enqueue is a running thread.
Spec ==
  /\ Init /\ [][Next]_vars /\ WF_vars(Dequeue)
  /\ \A p \in Producers : WF_vars(WriteData(p)) /\ WF_vars(Publish(p))

-----------------------------------------------------------------------------
(* Properties *)

Filling(p) == producer[p].at \in {"write", "publish"}

\* A reserved slot belongs to its producer until it is published and then to the consumer
\* until the tail passes it, though none of them holds a lock: no two producers fill one
\* slot, none fills a slot that is being read, no slot is used for two items at once.
MpscSlotExclusive ==
  /\ tail <= head /\ head - tail <= Capacity
  /\ \A p \in Producers : Filling(p) =>
       /\ tail <= producer[p].head /\ producer[p].head < head
       /\ ~ready[Slot(producer[p].head)]
       /\ \A q \in Producers \ {p} : Filling(q) =>
            Slot(producer[p].head) # Slot(producer[q].head)
       /\ consumer.at # "idle" => Slot(producer[p].head) # Slot(tail)

\* The queue is a bounded FIFO in the order of the reservations.
Fifo == INSTANCE BoundedFifo WITH Items <- Producers \X (0 .. MaxItems), accepted <- reserved,
                                  delivered <- taken
FifoSpec == Fifo!Spec

\* Every reserved item is delivered: a slow producer delays the ones behind it, no more.
EveryItemTaken == []<>(Len(taken) = Len(reserved))
=============================================================================

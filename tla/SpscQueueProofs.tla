--------------------------- MODULE SpscQueueProofs ---------------------------
(***************************************************************************)
(* Proofs about SpscQueue, for every capacity, batch limit, number of      *)
(* coroutines and staleness of the loads: the type invariant, exclusive    *)
(* access to slots and to the stored handler, that a suspended enqueue()   *)
(* stays reachable, and that the queue implements BoundedFifo.             *)
(***************************************************************************)
EXTENDS SpscQueue, SequenceTheorems, TLAPS

-----------------------------------------------------------------------------
(* Arithmetic of the ring. *)

\* Division with remainder by the capacity.
LEMMA DivMod ==
  ASSUME NEW C \in Nat \ {0}, NEW i \in Nat
  PROVE  /\ i = C * (i \div C) + (i % C)
         /\ i % C \in 0..(C - 1)
         /\ i \div C \in Nat
OBVIOUS

LEMMA NextMultiple ==
  ASSUME NEW C \in Nat \ {0}, NEW a \in Nat, NEW b \in Nat, a < b
  PROVE  C * b >= C * a + C
OBVIOUS

\* Two cursors less than a capacity apart fall on different slots.
LEMMA SlotsDiffer ==
  ASSUME NEW i \in Nat, NEW j \in Nat, i < j, j < i + Capacity
  PROVE  Slot(i) # Slot(j)
<1> DEFINE a == i \div Capacity
           b == j \div Capacity
<1>1. Capacity \in Nat \ {0}
  BY SpscAssumption
<1>2. /\ i = Capacity * a + (i % Capacity) /\ j = Capacity * b + (j % Capacity)
      /\ a \in Nat /\ b \in Nat
      /\ i % Capacity \in 0..(Capacity - 1) /\ j % Capacity \in 0..(Capacity - 1)
  BY <1>1, DivMod, Zenon
<1>3. Capacity * a \in Nat /\ Capacity * b \in Nat
  BY <1>1, <1>2
<1> HIDE DEF a, b
<1>4. CASE a = b
  BY <1>2, <1>3, <1>4 DEF Slot
<1>5. CASE a < b
  <2>1. Capacity * b >= Capacity * a + Capacity
    BY <1>1, <1>2, <1>5, NextMultiple
  <2> QED BY <1>1, <1>2, <1>3, <2>1 DEF Slot
<1>6. CASE b < a
  <2>1. Capacity * a >= Capacity * b + Capacity
    BY <1>1, <1>2, <1>6, NextMultiple
  <2> QED BY <1>1, <1>2, <1>3, <2>1 DEF Slot
<1> QED BY <1>2, <1>4, <1>5, <1>6

LEMMA SlotType ==
  ASSUME NEW i \in Nat
  PROVE  Slot(i) \in 0..(Capacity - 1)
BY SpscAssumption, DivMod DEF Slot

-----------------------------------------------------------------------------
(* The inductive invariant. *)

\* The core thread runs one coroutine at a time; one that is inside a call has
\* made at least one.
OneRunner ==
  /\ \A c, d \in Coroutines : pc[c] \in Running /\ pc[d] \in Running => c = d
  /\ \A c \in Coroutines : pc[c] \in Running \cup {"suspended"} => calls[c] \in 1..MaxItems
  /\ stopped => pcC = "idle"

\* The order of the cursors: consumer's side first, producer's side last.
Cursors ==
  /\ consumed = tail
  /\ tail <= seenPublished /\ seenPublished <= published
  /\ seenConsumed <= consumed
  /\ head <= seenConsumed + Capacity
  /\ \A c \in Coroutines : pc[c] = "write" => head < seenConsumed + Capacity
  /\ \A c \in Coroutines : pc[c] = "publish" => head = published + 1
  /\ (\A c \in Coroutines : pc[c] # "publish") => head = published

\* What the log, the slots and the consumer's batch have to do with each other.
Contents ==
  /\ Len(accepted) = published
  /\ Len(received) = consumed
  /\ \A i \in 1..consumed : received[i] = accepted[i]
  /\ \A i \in Nat : consumed <= i /\ i < published => slots[Slot(i)] = accepted[i + 1]
  /\ \A c \in Coroutines : pc[c] = "publish" => slots[Slot(published)] = ItemOf(c)

Batch ==
  /\ pcC \in {"read", "store"} =>
       /\ tail + count <= seenPublished
       /\ Len(batch) <= count
       /\ \A i \in 1..Len(batch) : batch[i] = accepted[tail + i]
  /\ pcC = "read" => Len(batch) < count
  /\ pcC = "store" => Len(batch) = count /\ count > 0

QueueInv == TypeOK /\ OneRunner /\ Cursors /\ Contents /\ Batch

\* A coroutine about to raise the flag has its handler stored or already posted.
HandlerInv ==
  /\ SuspendedIsReachable
  /\ \A c \in Coroutines : pc[c] = "set_flag" =>
       pending_handler = c \/ <<c, "ok">> \in posted

-----------------------------------------------------------------------------

LEMMA QueueInvInit == Init => QueueInv
<1> SUFFICES ASSUME Init PROVE QueueInv
  OBVIOUS
<1> USE SpscAssumption DEF Init
<1>1. TypeOK
  BY DEF TypeOK, Running, Resting, ConsumerPcs
<1>2. OneRunner
  BY DEF OneRunner, Running
<1>3. Cursors
  BY DEF Cursors
<1>4. Contents
  BY DEF Contents
<1>5. Batch
  BY DEF Batch
<1> QED BY <1>1, <1>2, <1>3, <1>4, <1>5 DEF QueueInv

LEMMA QueueInvStep == QueueInv /\ [Next]_vars => QueueInv'
<1> SUFFICES ASSUME QueueInv, [Next]_vars PROVE QueueInv'
  OBVIOUS
<1> USE SpscAssumption
<1>a. TypeOK /\ OneRunner /\ Cursors /\ Contents /\ Batch
  BY DEF QueueInv
<1>b. ASSUME NEW c \in Coroutines, pc[c] \in Running PROVE ItemOf(c) \in Items
  BY <1>a, <1>b DEF ItemOf, Items, OneRunner
<1>c. ASSUME NEW c \in Coroutines, NEW d \in Coroutines, pc[c] \in Running, c # d
      PROVE  pc[d] \notin Running
  BY <1>a, <1>c DEF OneRunner
<1>1. ASSUME NEW c \in Coroutines, BeginEnqueue(c) PROVE QueueInv'
  <2>1. TypeOK'
    BY <1>a, <1>1 DEF TypeOK, BeginEnqueue, Goto, Running, Resting, consVars
  <2>2. OneRunner' /\ Cursors'
    BY <1>a, <1>1 DEF TypeOK, OneRunner, Cursors, BeginEnqueue, Goto, Running, ProducerFree, consVars
  <2>3. Contents' /\ Batch'
    BY <1>a, <1>1 DEF TypeOK, Contents, Batch, ItemOf, BeginEnqueue, Goto, consVars
  <2> QED BY <2>1, <2>2, <2>3 DEF QueueInv
<1>2. ASSUME NEW c \in Coroutines, TryLoad(c) PROVE QueueInv'
  <2>1. PICK v \in Loads(seenConsumed, consumed) :
          /\ seenConsumed' = v
          /\ IF head - v >= Capacity
             THEN /\ Goto(c, IF c \in Awaiters /\ pc[c] = "try" THEN "recheck" ELSE "idle")
                  /\ dropped' = IF pc[c] = "retry" THEN dropped \cup {ItemOf(c)} ELSE dropped
             ELSE Goto(c, "write") /\ UNCHANGED dropped
    BY <1>2 DEF TryLoad
  <2>2. v \in Nat /\ seenConsumed <= v /\ v <= consumed
    BY <1>a, <2>1 DEF Loads, TypeOK
  <2>3. pc[c] \in Running /\ ItemOf(c) \in Items
    BY <1>2, <1>b DEF TryLoad, Running
  <2>4. TypeOK'
    <3>1. dropped' \subseteq Items
      BY <1>a, <2>1, <2>3 DEF TypeOK
    <3>2. pc' \in [Coroutines -> Running \cup Resting]
      BY <1>a, <2>1, Zenon DEF TypeOK, Goto, Running, Resting
    <3> QED BY <1>a, <1>2, <2>1, <2>2, <3>1, <3>2 DEF TypeOK, TryLoad, consVars
  <2>5. OneRunner'
    BY <1>a, <1>2, <2>1, <2>3, ZenonT(40) DEF TypeOK, OneRunner, TryLoad, Goto, Running, consVars
  <2>6. Cursors'
    BY <1>a, <1>2, <2>1, <2>2, SMTT(30) DEF TypeOK, Cursors, TryLoad, Goto, consVars
  <2>7. Contents' /\ Batch'
    BY <1>a, <1>2, <2>1 DEF TypeOK, Contents, Batch, TryLoad, Goto, ItemOf, consVars
  <2> QED BY <2>4, <2>5, <2>6, <2>7 DEF QueueInv
<1>3. ASSUME NEW c \in Coroutines, TryWrite(c) PROVE QueueInv'
  <2>1. pc[c] \in Running /\ ItemOf(c) \in Items /\ ItemOf(c)' = ItemOf(c)
    BY <1>3, <1>b DEF TryWrite, Running, ItemOf
  <2>2. /\ head = published /\ published < consumed + Capacity
        /\ \A d \in Coroutines : pc[d] # "publish"
    BY <1>a, <1>3, <1>c, <2>1, SMTT(30) DEF TryWrite, Cursors, TypeOK, Running
  <2>3. TypeOK'
    <3>1. Slot(head) \in 0..(Capacity - 1)
      BY <1>a, SlotType, Zenon DEF TypeOK
    <3>2. slots' \in [0..(Capacity - 1) -> Items \cup {None}]
      BY <1>a, <1>3, <2>1, <3>1 DEF TypeOK, TryWrite
    <3> QED BY <1>a, <1>3, <3>2, SMTT(30) DEF TypeOK, TryWrite, Goto, Running, Resting, consVars
  <2>4. OneRunner' /\ Cursors'
    BY <1>a, <1>3, <1>c, <2>1, <2>2 DEF TypeOK, OneRunner, Cursors, TryWrite, Goto, Running, consVars
  <2>5. Contents'
    <3>1. ASSUME NEW i \in Nat, consumed <= i, i < published
          PROVE  slots'[Slot(i)] = accepted[i + 1]
      <4>1. head \in Nat /\ i < head /\ head < i + Capacity
        BY <1>a, <2>2, <3>1, SpscAssumption, SMTT(30) DEF TypeOK
      <4>2. Slot(i) # Slot(head)
        BY <3>1, <4>1, SlotsDiffer
      <4> QED BY <1>a, <1>3, <3>1, <4>2, SlotType DEF Contents, TryWrite, TypeOK
    <3>2. slots'[Slot(published)] = ItemOf(c)
      BY <1>a, <1>3, <2>2, SlotType DEF TryWrite, TypeOK
    <3>3. \A d \in Coroutines : pc'[d] = "publish" => d = c
      BY <1>a, <1>3, <2>2 DEF TryWrite, Goto, TypeOK
    <3> QED BY <1>a, <1>3, <2>1, <3>1, <3>2, <3>3, SMTT(30) DEF Contents, TryWrite, consVars
  <2>6. Batch'
    BY <1>a, <1>3 DEF Batch, TryWrite, consVars
  <2> QED BY <2>3, <2>4, <2>5, <2>6 DEF QueueInv
<1>4. ASSUME NEW c \in Coroutines, TryPublish(c) PROVE QueueInv'
  <2>1. pc[c] \in Running /\ ItemOf(c) \in Items
    BY <1>4, <1>b DEF TryPublish, Running
  <2>2. head = published + 1 /\ published' = published + 1
    BY <1>a, <1>4 DEF TryPublish, Cursors
  <2>3. /\ accepted' \in Seq(Items) /\ Len(accepted') = published + 1
        /\ \A i \in 1..published : accepted'[i] = accepted[i]
        /\ accepted'[published + 1] = ItemOf(c)
    BY <1>a, <1>4, <2>1 DEF TryPublish, TypeOK, Contents
  <2>4. \A d \in Coroutines : pc'[d] # "publish"
    BY <1>a, <1>4, <1>c, <2>1 DEF TryPublish, Goto, TypeOK, Running
  <2>5. TypeOK'
    BY <1>a, <1>4, <2>2, <2>3 DEF TypeOK, TryPublish, Goto, Running, Resting, consVars
  <2>6. OneRunner' /\ Cursors'
    BY <1>a, <1>4, <2>2, <2>4 DEF TypeOK, OneRunner, Cursors, TryPublish, Goto, Running, consVars
  <2>7. Contents'
    <3>1. ASSUME NEW i \in 1..consumed PROVE received[i] = accepted'[i]
      <4>1. i \in 1..published
        BY <1>a DEF Cursors, TypeOK
      <4> QED BY <1>a, <2>3, <4>1, Zenon DEF Contents
    <3>2. ASSUME NEW i \in Nat, consumed <= i, i < published + 1
          PROVE  slots[Slot(i)] = accepted'[i + 1]
      <4>1. CASE i = published
        BY <1>a, <1>4, <2>3, <4>1 DEF Contents, TryPublish
      <4>2. CASE i < published
        BY <1>a, <2>3, <3>2, <4>2, SMTT(30) DEF Contents, TypeOK
      <4> QED BY <1>a, <3>2, <4>1, <4>2 DEF TypeOK
    <3> QED BY <1>a, <1>4, <2>2, <2>3, <2>4, <3>1, <3>2, Zenon DEF Contents, TryPublish, consVars
  <2>8. Batch'
    <3>1. ASSUME pcC \in {"read", "store"}, NEW i \in 1..Len(batch)
          PROVE  batch[i] = accepted'[tail + i]
      <4>1. tail + i \in 1..published
        BY <1>a, <3>1 DEF Batch, Cursors, TypeOK
      <4> QED BY <1>a, <2>3, <3>1, <4>1 DEF Batch
    <3> QED BY <1>a, <1>4, <3>1, Zenon DEF Batch, TryPublish, consVars
  <2> QED BY <2>5, <2>6, <2>7, <2>8 DEF QueueInv
<1>5. ASSUME NEW c \in Coroutines, Recheck(c) PROVE QueueInv'
  <2>1. PICK v \in Loads(seenConsumed, consumed) :
          /\ seenConsumed' = v
          /\ IF head - v < Capacity
             THEN posted' = posted \cup {<<c, "ok">>} /\ Goto(c, "suspended")
             ELSE Goto(c, "store") /\ UNCHANGED posted
    BY <1>5 DEF Recheck
  <2>2. v \in Nat /\ seenConsumed <= v /\ v <= consumed
    BY <1>a, <2>1 DEF Loads, TypeOK
  <2>3. TypeOK'
    <3>1. posted' \subseteq Coroutines \X {"ok", "aborted"}
      BY <1>a, <2>1, SMTT(30) DEF TypeOK
    <3>2. pc' \in [Coroutines -> Running \cup Resting]
      BY <1>a, <2>1, Zenon DEF TypeOK, Goto, Running, Resting
    <3> QED BY <1>a, <1>5, <2>1, <2>2, <3>1, <3>2 DEF TypeOK, Recheck, consVars
  <2>4. OneRunner'
    BY <1>a, <1>5, <2>1, ZenonT(40) DEF TypeOK, OneRunner, Recheck, Goto, Running, consVars
  <2>5. Cursors'
    BY <1>a, <1>5, <2>1, <2>2 DEF TypeOK, Cursors, Recheck, Goto, consVars
  <2>6. Contents' /\ Batch'
    BY <1>a, <1>5, <2>1 DEF TypeOK, Contents, Batch, Recheck, Goto, ItemOf, consVars
  <2> QED BY <2>3, <2>4, <2>5, <2>6 DEF QueueInv
<1>6. ASSUME NEW c \in Coroutines, StoreHandler(c) PROVE QueueInv'
  <2>1. TypeOK'
    BY <1>a, <1>6, SMTT(30) DEF TypeOK, StoreHandler, Running, Resting, consVars
  <2>2. OneRunner' /\ Cursors'
    BY <1>a, <1>6 DEF TypeOK, OneRunner, Cursors, StoreHandler, Running, consVars
  <2>3. Contents' /\ Batch'
    BY <1>a, <1>6 DEF TypeOK, Contents, Batch, ItemOf, StoreHandler, consVars
  <2> QED BY <2>1, <2>2, <2>3 DEF QueueInv
<1>7. ASSUME NEW c \in Coroutines, SetWaiting(c) PROVE QueueInv'
  <2>1. TypeOK'
    BY <1>a, <1>7, SMTT(30) DEF TypeOK, SetWaiting, Goto, Running, Resting, consVars
  <2>2. OneRunner' /\ Cursors'
    BY <1>a, <1>7 DEF TypeOK, OneRunner, Cursors, SetWaiting, Goto, Running, consVars
  <2>3. Contents' /\ Batch'
    BY <1>a, <1>7 DEF TypeOK, Contents, Batch, ItemOf, SetWaiting, Goto, consVars
  <2> QED BY <2>1, <2>2, <2>3 DEF QueueInv
<1>8. ASSUME NEW c \in Coroutines, NEW ec \in {"ok", "aborted"}, Resume(c, ec) PROVE QueueInv'
  <2>1. TypeOK'
    BY <1>a, <1>8 DEF TypeOK, Resume, Goto, Running, Resting, consVars
  <2>2. OneRunner' /\ Cursors'
    BY <1>a, <1>8 DEF TypeOK, OneRunner, Cursors, Resume, Goto, Running, ProducerFree, consVars
  <2>3. Contents' /\ Batch'
    BY <1>a, <1>8, SMTT(30) DEF TypeOK, Contents, Batch, ItemOf, Resume, Goto, consVars
  <2> QED BY <2>1, <2>2, <2>3 DEF QueueInv
<1>9. ASSUME BeginDrain PROVE QueueInv'
  BY <1>a, <1>9 DEF QueueInv, BeginDrain, TypeOK, OneRunner, Cursors, Contents, Batch, ItemOf,
     ConsumerPcs, prodVars
<1>10. ASSUME NEW want \in {1, BatchLimit}, DequeueLoad(want) PROVE QueueInv'
  <2>0. published - tail <= Capacity /\ published <= head
    BY <1>a, SMTT(30) DEF Cursors, TypeOK
  <2>1. CASE total >= BatchLimit
    BY <1>a, <1>10, <2>1 DEF QueueInv, DequeueLoad, prodVars, TypeOK, OneRunner, Cursors, Contents, Batch,
       ConsumerPcs, ItemOf
  <2>2. CASE ~(total >= BatchLimit)
    <3>1. PICK v \in Loads(seenPublished, published) :
            /\ seenPublished' = v
            /\ count' = IF v - tail < want THEN v - tail ELSE want
            /\ batch' = << >>
            /\ pcC' = IF v - tail = 0 THEN "notify" ELSE "read"
      BY <1>10, <2>2 DEF DequeueLoad
    <3>2. v \in Nat /\ seenPublished <= v /\ v <= published /\ want \in Nat \ {0}
      BY <1>a, <3>1 DEF Loads, TypeOK
    <3>3. /\ count' \in 0..Capacity /\ tail + count' <= v
          /\ v - tail # 0 => count' > 0
      BY <1>a, <2>0, <3>1, <3>2 DEF Cursors, TypeOK
    <3>4. batch' \in Seq(Items \cup {None}) /\ Len(batch') = 0
      BY <3>1
    <3>5. TypeOK' /\ OneRunner' /\ Cursors'
      BY <1>a, <1>10, <3>1, <3>2, <3>3, <3>4 DEF DequeueLoad, TypeOK, OneRunner, Cursors, ConsumerPcs, prodVars
    <3>6. Contents' /\ Batch'
      BY <1>a, <1>10, <3>1, <3>2, <3>3, <3>4 DEF DequeueLoad, TypeOK, Contents, Batch, ItemOf, prodVars
    <3> QED BY <3>5, <3>6 DEF QueueInv
  <2> QED BY <2>1, <2>2
<1>11. ASSUME DequeueRead PROVE QueueInv'
  <2> DEFINE x == slots[Slot(tail + Len(batch))]
  <2>1. Len(batch) \in Nat /\ Len(batch) < count
    BY <1>a, <1>11 DEF Batch, DequeueRead, TypeOK
  <2>2. x \in Items \cup {None}
    BY <1>a, <2>1, SlotType DEF TypeOK
  <2>3. x = accepted[tail + Len(batch) + 1]
    <3>1. tail + Len(batch) \in Nat /\ consumed <= tail + Len(batch) /\ tail + Len(batch) < published
      BY <1>a, <1>11, <2>1 DEF Batch, Cursors, TypeOK, DequeueRead
    <3> QED BY <1>a, <3>1 DEF Contents
  <2>4. /\ batch' \in Seq(Items \cup {None}) /\ Len(batch') = Len(batch) + 1
        /\ \A i \in 1..Len(batch) : batch'[i] = batch[i]
        /\ batch'[Len(batch) + 1] = x
    <3> HIDE DEF x
    <3>1. batch' = Append(batch, x)
      BY <1>11 DEF DequeueRead, x
    <3> QED BY <1>a, <2>2, <3>1 DEF TypeOK
  <2> HIDE DEF x
  <2>5. TypeOK' /\ OneRunner' /\ Cursors'
    BY <1>a, <1>11, <2>4, SMTT(30) DEF DequeueRead, TypeOK, OneRunner, Cursors, ConsumerPcs, prodVars
  <2>6. Contents'
    BY <1>a, <1>11 DEF DequeueRead, Contents, ItemOf, prodVars
  <2>7. Batch'
    <3>1. ASSUME NEW i \in 1..Len(batch') PROVE batch'[i] = accepted[tail + i]
      <4>1. CASE i \in 1..Len(batch)
        BY <1>a, <1>11, <2>4, <4>1 DEF Batch, DequeueRead
      <4>2. CASE i = Len(batch) + 1
        <5>1. tail + Len(batch) + 1 = tail + i
          BY <1>a, <2>1, <4>2 DEF TypeOK
        <5> QED BY <2>3, <2>4, <4>2, <5>1
      <4> QED BY <2>1, <2>4, <4>1, <4>2
    <3> QED BY <1>a, <1>11, <2>1, <2>4, <3>1, SMTT(30) DEF Batch, DequeueRead, TypeOK, prodVars
  <2> QED BY <2>5, <2>6, <2>7 DEF QueueInv
<1>12. ASSUME DequeueStore PROVE QueueInv'
  <2>1. /\ Len(batch) = count /\ count > 0 /\ tail + count <= seenPublished
        /\ \A i \in 1..count : batch[i] = accepted[tail + i]
    BY <1>a, <1>12 DEF Batch, DequeueStore
  <2>2. batch \in Seq(Items)
    <3>1. ASSUME NEW i \in 1..count PROVE batch[i] \in Items
      <4>1. tail + i \in 1..Len(accepted)
        BY <1>a, <2>1 DEF Contents, Cursors, TypeOK
      <4> QED BY <1>a, <2>1, <4>1, ElementOfSeq, Zenon DEF TypeOK
    <3>2. batch \in [1..count -> Items \cup {None}]
      BY <1>a, <2>1, LenProperties, SMTT(30) DEF TypeOK
    <3>3. batch \in [1..count -> Items]
      BY <3>1, <3>2
    <3> QED BY <1>a, <3>3, SeqDef DEF TypeOK
  <2>3. /\ received' \in Seq(Items) /\ Len(received') = consumed + count
        /\ \A i \in 1..consumed : received'[i] = received[i]
        /\ \A i \in 1..count : received'[consumed + i] = batch[i]
    <3>1. received \in Seq(Items) /\ received' = received \o batch /\ Len(received) = consumed
      BY <1>a, <1>12 DEF TypeOK, Contents, DequeueStore
    <3>2. /\ received \o batch \in Seq(Items)
          /\ Len(received \o batch) = Len(received) + Len(batch)
          /\ \A i \in 1 .. Len(received) + Len(batch) : (received \o batch)[i] =
               IF i <= Len(received) THEN received[i] ELSE batch[i - Len(received)]
      BY <2>2, <3>1, ConcatProperties, Zenon
    <3>3. consumed \in Nat /\ count \in Nat /\ Len(received) = consumed /\ Len(batch) = count
      BY <1>a, <2>1, <3>1 DEF TypeOK
    <3> QED BY <3>1, <3>2, <3>3
  <2>4. tail' = tail + count /\ consumed' = tail + count /\ tail = consumed
    BY <1>a, <1>12 DEF DequeueStore, Cursors
  <2>5. TypeOK' /\ OneRunner' /\ Cursors'
    BY <1>a, <1>12, <2>1, <2>3, <2>4 DEF DequeueStore, TypeOK, OneRunner, Cursors, ConsumerPcs, prodVars
  <2>6. Contents'
    <3>1. ASSUME NEW i \in 1..(consumed + count) PROVE received'[i] = accepted[i]
      <4>1. CASE i \in 1..consumed
        BY <1>a, <2>3, <4>1 DEF Contents
      <4>2. CASE i \notin 1..consumed
        <5>1. i - consumed \in 1..count /\ consumed + (i - consumed) = i
          BY <1>a, <4>2 DEF TypeOK
        <5> QED BY <2>1, <2>3, <2>4, <5>1
      <4> QED BY <4>1, <4>2
    <3>2. ASSUME NEW i \in Nat, consumed' <= i, i < published
          PROVE  slots[Slot(i)] = accepted[i + 1]
      <4>1. consumed <= i
        BY <1>a, <2>4, <3>2 DEF TypeOK
      <4> QED BY <1>a, <3>2, <4>1 DEF Contents
    <3> QED BY <1>a, <1>12, <2>3, <2>4, <3>1, <3>2, Zenon DEF Contents, DequeueStore, ItemOf, prodVars
  <2>7. Batch'
    BY <1>12, SMTT(30) DEF Batch, DequeueStore
  <2> QED BY <2>5, <2>6, <2>7 DEF QueueInv
<1>13. ASSUME NotifyLoad PROVE QueueInv'
  BY <1>a, <1>13, SMTT(30) DEF QueueInv, NotifyLoad, TypeOK, OneRunner, Cursors, Contents, Batch, ItemOf,
     ConsumerPcs, prodVars
<1>14. ASSUME NotifyClear PROVE QueueInv'
  BY <1>a, <1>14, Zenon DEF QueueInv, NotifyClear, TypeOK, OneRunner, Cursors, Contents, Batch, ItemOf,
     ConsumerPcs, prodVars
<1>15. ASSUME NotifyTake PROVE QueueInv'
  BY <1>a, <1>15, SMTT(30) DEF QueueInv, NotifyTake, TypeOK, OneRunner, Cursors, Contents, Batch, ItemOf,
     ConsumerPcs
<1>16. ASSUME Stop PROVE QueueInv'
  BY <1>a, <1>16, SMTT(30) DEF QueueInv, Stop, TypeOK, OneRunner, Cursors, Contents, Batch, ItemOf,
     ConsumerPcs, prodVars, consVars
<1>17. ASSUME Shutdown PROVE QueueInv'
  <2>1. /\ received' = accepted /\ consumed' = published /\ tail' = published
        /\ seenPublished' = published /\ UNCHANGED <<published, accepted, head, pc, calls, slots>>
    BY <1>17 DEF Shutdown
  <2>2. TypeOK'
    <3>1. posted' \subseteq Coroutines \X {"ok", "aborted"}
      BY <1>a, <1>17, SMTT(30) DEF TypeOK, Shutdown
    <3> QED BY <1>a, <1>17, <2>1, <3>1, Zenon DEF TypeOK, Shutdown
  <2>3. OneRunner' /\ Cursors'
    BY <1>a, <1>17, <2>1, SMTT(30) DEF TypeOK, OneRunner, Cursors, Shutdown, Running, ProducerFree
  <2>4. Contents' /\ Batch'
    BY <1>a, <1>17, <2>1, SMTT(30) DEF TypeOK, OneRunner, Contents, Batch, ItemOf, Shutdown
  <2> QED BY <2>2, <2>3, <2>4 DEF QueueInv
<1>18. CASE UNCHANGED vars
  BY <1>a, <1>18 DEF vars, prodVars, consVars, QueueInv, TypeOK, OneRunner, Cursors, Contents, Batch, ItemOf
<1> QED
  BY <1>1, <1>2, <1>3, <1>4, <1>5, <1>6, <1>7, <1>8, <1>9, <1>10, <1>11, <1>12, <1>13, <1>14, <1>15,
     <1>16, <1>17, <1>18 DEF Next, ProducerStep, ConsumerStep

\* The type invariant holds, and with it the order of the cursors and the
\* correspondence between log, slots and batch.
THEOREM QueueInvariant == Spec => []QueueInv
BY QueueInvInit, QueueInvStep, PTL DEF Spec

\* Every variable of the queue and of its two threads keeps its type.
THEOREM TypeCorrect == Spec => []TypeOK
<1>1. QueueInv => TypeOK
  BY DEF QueueInv
<1> QED BY <1>1, QueueInvariant, PTL

\* try_enqueue never writes the slot that the consumer is reading.
THEOREM SlotsNotShared == Spec => []SlotExclusive
<1>1. QueueInv => SlotExclusive
  <2> SUFFICES ASSUME QueueInv, NEW c \in Coroutines, pc[c] = "write", pcC = "read"
               PROVE  Slot(head) # Slot(tail + Len(batch))
    BY DEF SlotExclusive
  <2>1. \A d \in Coroutines : pc[d] # "publish"
    BY DEF QueueInv, OneRunner, Running
  <2> DEFINE i == tail + Len(batch)
  <2>2. i \in Nat /\ head \in Nat /\ i < head /\ head < i + Capacity
    <3>1. Len(batch) \in Nat /\ Len(batch) < count /\ tail + count <= seenPublished
      BY DEF QueueInv, TypeOK, Batch
    <3>2. head = published /\ head < seenConsumed + Capacity
      BY <2>1 DEF QueueInv, Cursors
    <3> QED BY <3>1, <3>2, SpscAssumption DEF QueueInv, TypeOK, Cursors
  <2> HIDE DEF i
  <2>3. Slot(i) # Slot(head)
    BY <2>2, SlotsDiffer
  <2> QED BY <2>3 DEF i
<1> QED BY <1>1, QueueInvariant, PTL

\* The queue implements a bounded FIFO: try_enqueue's release store is the Put,
\* the store to consumed_ is the Take.
THEOREM ImplementsFifo == Spec => FifoSpec
<1>1. Init => Fifo!Init
  BY DEF Init, Fifo!Init
<1>2. QueueInv /\ [Next]_vars => [Fifo!Next]_(Fifo!vars)
  <2> SUFFICES ASSUME QueueInv, [Next]_vars PROVE [Fifo!Next]_(Fifo!vars)
    OBVIOUS
  <2> USE SpscAssumption
  <2>1. ASSUME NEW c \in Coroutines, TryPublish(c) PROVE Fifo!Next
    <3>1. ItemOf(c) \in Items
      BY <2>1, SMTT(30) DEF QueueInv, OneRunner, TryPublish, Running, ItemOf, Items
    <3>2. Len(accepted) - Len(received) < Capacity
      BY <2>1, SMTT(30) DEF QueueInv, TypeOK, Cursors, Contents, TryPublish
    <3>3. Fifo!Put(ItemOf(c))
      BY <2>1, <3>2 DEF Fifo!Put, TryPublish, consVars
    <3> QED BY <3>1, <3>3 DEF Fifo!Next
  <2>2. ASSUME NEW k \in 1..Capacity, Len(received) + k <= Len(accepted), UNCHANGED accepted,
               received' \in Seq(Items), Len(received') = Len(received) + k,
               \A i \in 1..(Len(received) + k) : received'[i] = accepted[i]
        PROVE  Fifo!Next
    <3>1. /\ SubSeq(accepted, 1, Len(received) + k) \in Seq(Items)
          /\ Len(SubSeq(accepted, 1, Len(received) + k)) = Len(received) + k
          /\ \A i \in 1..(Len(received) + k) : SubSeq(accepted, 1, Len(received) + k)[i] = accepted[i]
      BY <2>2, SMTT(30) DEF QueueInv, TypeOK
    <3>2. received' = SubSeq(accepted, 1, Len(received) + k)
      BY <2>2, <3>1, SeqEqual
    <3> QED BY <2>2, <3>2 DEF Fifo!Next, Fifo!Take
  <2>3. QueueInv'
    BY QueueInvStep
  <2>4. CASE DequeueStore
    <3>1. /\ count \in 1..Capacity /\ Len(received') = Len(received) + count
          /\ Len(received) + count <= Len(accepted) /\ UNCHANGED accepted
      BY <2>3, <2>4, SMTT(30) DEF DequeueStore, QueueInv, TypeOK, Cursors, Contents, Batch, prodVars
    <3>2. received' \in Seq(Items) /\ \A i \in 1..(Len(received) + count) : received'[i] = accepted[i]
      BY <2>3, <3>1, Zenon DEF QueueInv, TypeOK, Contents
    <3> QED BY <2>2, <3>1, <3>2
  <2>5. CASE Shutdown
    <3>1. CASE tail = published
      <4>1. received = accepted
        BY <3>1, SeqEqual, SMTT(30) DEF QueueInv, TypeOK, Contents, Cursors
      <4> QED BY <2>5, <4>1, SMTT(30) DEF Shutdown, Fifo!vars
    <3>2. CASE tail # published
      <4>1. /\ tail \in Nat /\ published \in Nat /\ tail <= published /\ published <= tail + Capacity
            /\ Len(received) = tail /\ Len(accepted) = published
        BY SMTT(30) DEF QueueInv, TypeOK, Cursors, Contents
      <4>2. published - tail \in 1..Capacity /\ Len(received) + (published - tail) = Len(accepted)
        BY <3>2, <4>1, SpscAssumption
      <4>3. received' = accepted /\ UNCHANGED accepted /\ accepted \in Seq(Items)
        BY <2>5 DEF Shutdown, QueueInv, TypeOK
      <4> DEFINE k == published - tail
      <4>4. /\ Len(received) + k <= Len(accepted) /\ received' \in Seq(Items)
            /\ Len(received') = Len(received) + k
            /\ \A i \in 1..(Len(received) + k) : received'[i] = accepted[i]
        BY <4>1, <4>2, <4>3
      <4>5. k \in 1..Capacity
        BY <4>2
      <4> HIDE DEF k
      <4> QED BY <2>2, <4>3, <4>4, <4>5, Zenon
    <3> QED BY <3>1, <3>2
  <2>6. CASE UNCHANGED <<accepted, received>>
    BY <2>6, SMTT(30) DEF Fifo!vars
  <2>7. \/ \E c \in Coroutines : TryPublish(c)
        \/ DequeueStore \/ Shutdown \/ UNCHANGED <<accepted, received>>
    BY Zenon DEF Next, ProducerStep, ConsumerStep, BeginEnqueue, TryLoad, TryWrite, Recheck, StoreHandler,
       SetWaiting, Resume, BeginDrain, DequeueLoad, DequeueRead, NotifyLoad, NotifyClear, NotifyTake,
       Stop, vars, prodVars, consVars
  <2> QED BY <2>1, <2>4, <2>5, <2>6, <2>7
<1> QED BY <1>1, <1>2, QueueInvariant, PTL DEF Spec, FifoSpec, Fifo!Spec

-----------------------------------------------------------------------------
(* The stored handler. *)

LEMMA HandlerInvStep == QueueInv /\ HandlerInv /\ [Next]_vars => HandlerInv'
<1> SUFFICES ASSUME QueueInv, HandlerInv, [Next]_vars PROVE HandlerInv'
  OBVIOUS
<1> USE DEF HandlerInv, SuspendedIsReachable
<1>a. TypeOK /\ OneRunner
  BY DEF QueueInv
<1>1. ASSUME NEW c \in Coroutines, BeginEnqueue(c) \/ TryLoad(c) \/ TryWrite(c) \/ TryPublish(c)
      PROVE  HandlerInv'
  BY <1>a, <1>1, Zenon DEF TypeOK, BeginEnqueue, TryLoad, TryWrite, TryPublish, Goto, consVars
<1>2. ASSUME NEW c \in Coroutines, Recheck(c) PROVE HandlerInv'
  BY <1>a, <1>2 DEF TypeOK, Recheck, Goto, consVars
<1>3. ASSUME NEW c \in Coroutines, StoreHandler(c) PROVE HandlerInv'
  BY <1>a, <1>3 DEF TypeOK, OneRunner, Running, StoreHandler, consVars
<1>4. ASSUME NEW c \in Coroutines, SetWaiting(c) PROVE HandlerInv'
  BY <1>a, <1>4 DEF TypeOK, SetWaiting, Goto, consVars
<1>5. ASSUME NEW c \in Coroutines, NEW ec \in {"ok", "aborted"}, Resume(c, ec) PROVE HandlerInv'
  <2>1. \A d \in Coroutines : d # c =>
          \A e \in {"ok", "aborted"} : <<d, e>> \in posted => <<d, e>> \in posted'
    BY <1>5 DEF Resume
  <2>2. pc'[c] # "suspended" /\ pc'[c] # "set_flag" /\ \A d \in Coroutines : d # c => pc'[d] = pc[d]
    BY <1>a, <1>5, SMTT(30) DEF TypeOK, Resume, Goto
  <2> QED BY <1>5, <2>1, <2>2, Zenon DEF Resume, consVars
<1>6. ASSUME \/ BeginDrain \/ DequeueRead \/ DequeueStore \/ NotifyLoad \/ NotifyClear
             \/ \E want \in {1, BatchLimit} : DequeueLoad(want)
      PROVE  HandlerInv'
  BY <1>6, SMTT(30) DEF BeginDrain, DequeueLoad, DequeueRead, DequeueStore, NotifyLoad, NotifyClear, prodVars
<1>7. ASSUME NotifyTake PROVE HandlerInv'
  BY <1>a, <1>7, SpscAssumption, SMTT(30) DEF TypeOK, NotifyTake
<1>8. ASSUME Stop \/ Shutdown \/ UNCHANGED vars PROVE HandlerInv'
  <2>1. CASE Shutdown
    BY <1>a, <2>1, SpscAssumption DEF TypeOK, OneRunner, Running, ProducerFree, Shutdown
  <2> QED BY <1>8, <2>1 DEF Stop, vars, prodVars, consVars
<1> QED BY <1>1, <1>2, <1>3, <1>4, <1>5, <1>6, <1>7, <1>8, Zenon DEF Next, ProducerStep, ConsumerStep

\* No suspended enqueue() loses its way back: whatever notify, a second enqueue()
\* or shutdown do, its handler is posted, or stored behind a raised flag.
THEOREM WaitersReachable == Spec => []SuspendedIsReachable
<1>1. Init => HandlerInv
  BY DEF Init, HandlerInv, SuspendedIsReachable
<1>2. HandlerInv => SuspendedIsReachable
  BY SMTT(30) DEF HandlerInv
<1> QED BY <1>1, <1>2, HandlerInvStep, QueueInvariant, PTL DEF Spec

\* At most one coroutine of the producer's core awaits this queue.
LoneAwaiter == \A a, b \in Awaiters : a = b

\* With a lone awaiter the flag, and the consumer's way to the handler, belong to
\* a coroutine that is suspended and has not been posted yet.
LoneInv ==
  /\ \A c \in Coroutines : pc[c] \in {"recheck", "store", "set_flag", "suspended"} => c \in Awaiters
  /\ pcC = "clear" => producer_waiting
  /\ pcC = "take" => ~producer_waiting
  /\ producer_waiting \/ pcC = "take" =>
       /\ pending_handler \in Coroutines /\ pc[pending_handler] = "suspended"
       /\ \A e \in {"ok", "aborted"} : <<pending_handler, e>> \notin posted
  /\ \A c \in Coroutines : pc[c] = "set_flag" => pending_handler = c
  /\ \A c \in Coroutines : pc[c] # "suspended" => \A e \in {"ok", "aborted"} : <<c, e>> \notin posted
  /\ \A c \in Coroutines : ~(<<c, "ok">> \in posted /\ <<c, "aborted">> \in posted)

LEMMA LoneInvStep ==
  ASSUME LoneAwaiter
  PROVE  QueueInv /\ LoneInv /\ [Next]_vars => LoneInv'
<1> SUFFICES ASSUME QueueInv, LoneInv, [Next]_vars PROVE LoneInv'
  OBVIOUS
<1> USE LoneAwaiter, SpscAssumption DEF LoneInv, LoneAwaiter
<1>a. TypeOK /\ OneRunner
  BY SMTT(30) DEF QueueInv
<1>1. ASSUME NEW c \in Coroutines, BeginEnqueue(c) \/ TryLoad(c) \/ TryWrite(c) \/ TryPublish(c)
      PROVE  LoneInv'
  <2>1. /\ pc[c] \notin {"recheck", "store", "set_flag", "suspended"}
        /\ \/ pc'[c] \notin {"recheck", "store", "set_flag", "suspended"}
           \/ pc'[c] = "recheck" /\ c \in Awaiters
        /\ \A d \in Coroutines : d # c => pc'[d] = pc[d]
    BY <1>a, <1>1, SMTT(30) DEF TypeOK, BeginEnqueue, TryLoad, TryWrite, TryPublish, Goto
  <2>2. UNCHANGED <<pcC, producer_waiting, pending_handler, posted>>
    BY <1>1 DEF BeginEnqueue, TryLoad, TryWrite, TryPublish, consVars
  <2> QED BY <2>1, <2>2, SMTT(30)
<1>2. ASSUME NEW c \in Coroutines, Recheck(c) PROVE LoneInv'
  BY <1>a, <1>2, SMTT(30) DEF TypeOK, Recheck, Goto, consVars
<1>3. ASSUME NEW c \in Coroutines, StoreHandler(c) PROVE LoneInv'
  BY <1>a, <1>3 DEF TypeOK, StoreHandler, consVars
<1>4. ASSUME NEW c \in Coroutines, SetWaiting(c) PROVE LoneInv'
  BY <1>a, <1>4 DEF TypeOK, SetWaiting, Goto, consVars
<1>5. ASSUME NEW c \in Coroutines, NEW ec \in {"ok", "aborted"}, Resume(c, ec) PROVE LoneInv'
  BY <1>a, <1>5, Zenon DEF TypeOK, Resume, Goto, consVars
<1>6. ASSUME \/ BeginDrain \/ DequeueRead \/ DequeueStore \/ NotifyLoad \/ NotifyClear
             \/ \E want \in {1, BatchLimit} : DequeueLoad(want)
      PROVE  LoneInv'
  BY <1>6 DEF BeginDrain, DequeueLoad, DequeueRead, DequeueStore, NotifyLoad, NotifyClear, prodVars
<1>7. ASSUME NotifyTake PROVE LoneInv'
  BY <1>a, <1>7, ZenonT(40) DEF TypeOK, NotifyTake
<1>8. ASSUME Stop \/ Shutdown \/ UNCHANGED vars PROVE LoneInv'
  <2>1. CASE Shutdown
    BY <1>a, <2>1, Zenon DEF TypeOK, OneRunner, Shutdown
  <2> QED BY <1>8, <2>1 DEF Stop, vars, prodVars, consVars
<1> QED BY <1>1, <1>2, <1>3, <1>4, <1>5, <1>6, <1>7, <1>8, Zenon DEF Next, ProducerStep, ConsumerStep

\* When one coroutine at a time awaits the queue, the consumer never moves
\* pending_handler_ out while enqueue() stores it: the flag orders the two.
THEOREM HandlerNotShared ==
  ASSUME LoneAwaiter
  PROVE  Spec => []HandlerExclusive
<1>1. Init => LoneInv
  BY DEF Init, LoneInv
<1>2. LoneInv => HandlerExclusive
  BY LoneAwaiter DEF LoneInv, HandlerExclusive, LoneAwaiter
<1>3. QueueInv /\ LoneInv /\ [Next]_vars => LoneInv'
  BY LoneAwaiter, LoneInvStep
<1> QED BY <1>1, <1>2, <1>3, QueueInvariant, PTL DEF Spec
=============================================================================

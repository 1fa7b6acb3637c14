--------------------------- MODULE MpscQueueProofs ---------------------------
(***************************************************************************)
(* Proofs about MpscQueue, for every capacity and any number of producers: *)
(* exclusive access to slots, and that the queue implements BoundedFifo.   *)
(***************************************************************************)
EXTENDS MpscQueue, SequenceTheorems, TLAPS

-----------------------------------------------------------------------------
(* Arithmetic of the ring. *)

\* Division with remainder by the capacity.
LEMMA DivMod ==
  ASSUME NEW C \in Nat \ {0}, NEW i \in Nat
  PROVE  /\ i = C * (i \div C) + (i % C)
         /\ i % C \in 0 .. C - 1
         /\ i \div C \in Nat
OBVIOUS

LEMMA NextMultiple ==
  ASSUME NEW C \in Nat \ {0}, NEW a \in Nat, NEW b \in Nat, a < b
  PROVE  C * b >= C * a + C
OBVIOUS

\* Two indices of one window of capacity_ slots fall on different slots.
LEMMA SlotsDiffer ==
  ASSUME MpscAssumption, NEW i \in Nat, NEW j \in Nat, i < j, j < i + Capacity
  PROVE  Slot(i) # Slot(j)
<1> DEFINE a == i \div Capacity
           b == j \div Capacity
<1>1. Capacity \in Nat \ {0}
  BY DEF MpscAssumption
<1>2. /\ i = Capacity * a + (i % Capacity) /\ j = Capacity * b + (j % Capacity)
      /\ a \in Nat /\ b \in Nat
      /\ i % Capacity \in 0 .. Capacity - 1 /\ j % Capacity \in 0 .. Capacity - 1
  BY <1>1, DivMod, Zenon
<1>3. Capacity * a \in Nat /\ Capacity * b \in Nat
  BY <1>1, <1>2
<1> HIDE DEF a, b
<1>4. CASE a = b
  BY <1>2, <1>3, <1>4 DEF Slot
<1>5. CASE a < b
  <2>1. Capacity * b >= Capacity * a + Capacity
    BY <1>1, <1>2, <1>5, NextMultiple
  <2> QED BY <1>1, <1>2, <1>3, <2>1 DEF Slot
<1>6. CASE b < a
  <2>1. Capacity * a >= Capacity * b + Capacity
    BY <1>1, <1>2, <1>6, NextMultiple
  <2> QED BY <1>1, <1>2, <1>3, <2>1 DEF Slot
<1> QED BY <1>2, <1>4, <1>5, <1>6

LEMMA SlotType ==
  ASSUME MpscAssumption, NEW i \in Nat
  PROVE  Slot(i) \in 0 .. Capacity - 1
BY DivMod DEF Slot, MpscAssumption

-----------------------------------------------------------------------------
(* The inductive invariant. *)

Items == Producers \X (0 .. MaxItems)
Steps == {"idle", "tail", "swap", "write", "publish"}

Types ==
  /\ head \in Nat /\ tail \in Nat
  /\ ready \in [0 .. Capacity - 1 -> BOOLEAN] /\ data \in [0 .. Capacity - 1 -> Items \cup {None}]
  /\ producer \in [Producers -> [at : Steps, head : Nat, tail : Nat]]
  /\ consumer \in [at : {"idle", "clear", "advance"}, item : Items \cup {None}]
  /\ reserved \in Seq(Items) /\ taken \in Seq(Items)

\* The window between the cursors; a tail a producer loaded is at most too old.
Window ==
  /\ tail <= head /\ head <= tail + Capacity /\ head <= MaxItems
  /\ Len(reserved) = head /\ Len(taken) = tail
  /\ \A i \in 1 .. tail : taken[i] = reserved[i]
  /\ \A p \in Producers : producer[p].tail <= tail

\* What a producer fills is what it reserved.  Its history entry names it, so no other
\* producer fills the same index.
Fills ==
  \A p \in Producers : Filling(p) =>
    /\ tail <= producer[p].head /\ producer[p].head < head
    /\ ~ready[Slot(producer[p].head)]
    /\ reserved[producer[p].head + 1] = <<p, producer[p].head>>
    /\ producer[p].at = "publish" => data[Slot(producer[p].head)] = <<p, producer[p].head>>

\* A slot is ready only inside the window, and then holds the item reserved for it.
ReadySlots ==
  /\ \A s \in 0 .. Capacity - 1 : ready[s] => \E i \in tail .. head - 1 : s = Slot(i)
  /\ \A i \in Nat : tail <= i /\ i < head /\ ready[Slot(i)] => data[Slot(i)] = reserved[i + 1]

\* Inside dequeue() the consumer has the item at the tail, which nobody is filling.
Reading ==
  consumer.at # "idle" =>
    /\ tail < head /\ consumer.item = reserved[tail + 1]
    /\ consumer.at = "clear" => ready[Slot(tail)]
    /\ consumer.at = "advance" => ~ready[Slot(tail)]
    /\ \A p \in Producers : Filling(p) => producer[p].head # tail

RingInv == Types /\ Window /\ Fills /\ ReadySlots /\ Reading

\* Indices of the window are on one slot only if they are equal.
LEMMA SameSlot ==
  ASSUME MpscAssumption, RingInv, NEW i \in Nat, NEW j \in Nat,
         tail <= i, i < tail + Capacity, tail <= j, j < tail + Capacity, Slot(i) = Slot(j)
  PROVE  i = j
<1>1. Capacity \in Nat /\ tail \in Nat
  BY DEF MpscAssumption, RingInv, Types
<1>2. ~(i < j) /\ ~(j < i)
  BY <1>1, SlotsDiffer
<1> QED BY <1>2

\* Two producers that fill slots fill different ones.
LEMMA FillsDiffer ==
  ASSUME MpscAssumption, RingInv, NEW p \in Producers, NEW q \in Producers, p # q,
         Filling(p), Filling(q)
  PROVE  Slot(producer[p].head) # Slot(producer[q].head)
<1>1. /\ producer[p].head \in Nat /\ producer[q].head \in Nat /\ Capacity \in Nat
      /\ tail \in Nat /\ head \in Nat
  BY DEF RingInv, Types, MpscAssumption
<1>2. producer[p].head # producer[q].head
  BY <1>1 DEF RingInv, Fills
<1>3. /\ tail <= producer[p].head /\ producer[p].head < tail + Capacity
      /\ tail <= producer[q].head /\ producer[q].head < tail + Capacity
  BY <1>1 DEF RingInv, Fills, Window
<1> QED BY <1>1, <1>2, <1>3, SameSlot

LEMMA RingInvInit ==
  ASSUME MpscAssumption, Init
  PROVE  RingInv
<1> USE DEF MpscAssumption, Init, Idle
<1>1. Types
  BY DEF Types, Steps
<1>2. Window
  BY DEF Window
<1>3. Fills
  BY DEF Fills, Filling
<1>4. ReadySlots
  BY SlotType DEF ReadySlots
<1>5. Reading
  BY DEF Reading
<1> QED BY <1>1, <1>2, <1>3, <1>4, <1>5 DEF RingInv

LEMMA RingInvStep ==
  ASSUME MpscAssumption, RingInv, [Next]_vars
  PROVE  RingInv'
<1>a. Types /\ Window /\ Fills /\ ReadySlots /\ Reading /\ Capacity \in Nat \ {0} /\ MaxItems \in Nat
  BY DEF RingInv, MpscAssumption
<1>b. ASSUME NEW q \in Producers, Filling(q)
      PROVE  /\ producer[q].head \in Nat /\ Slot(producer[q].head) \in 0 .. Capacity - 1
             /\ producer[q].head + 1 \in 1 .. Len(reserved) /\ <<q, producer[q].head>> \in Items
  <2>1. producer[q].head \in Nat /\ producer[q].head < head /\ head \in Nat
    BY <1>a, <1>b DEF Types, Fills
  <2>2. Slot(producer[q].head) \in 0 .. Capacity - 1
    BY <2>1, SlotType
  <2>3. producer[q].head + 1 \in 1 .. Len(reserved) /\ producer[q].head \in 0 .. MaxItems
    BY <1>a, <2>1 DEF Window
  <2> QED BY <2>1, <2>2, <2>3 DEF Items
<1>1. ASSUME NEW p \in Producers, LoadHead(p) \/ LoadTail(p) \/ Refuse(p) \/ Retry(p)
      PROVE  RingInv'
  <2>1. /\ UNCHANGED <<head, tail, ready, data, consumer, reserved, taken>>
        /\ producer' \in [Producers -> [at : Steps, head : Nat, tail : Nat]]
        /\ producer'[p].at \notin {"write", "publish"} /\ producer'[p].tail <= tail
        /\ \A q \in Producers \ {p} : producer'[q] = producer[q]
    <3>1. /\ producer[p].tail <= tail /\ tail \in Nat /\ head \in Nat
          /\ producer \in [Producers -> [at : Steps, head : Nat, tail : Nat]]
      BY <1>a DEF Types, Window
    <3>2. CASE LoadHead(p)
      BY <3>1, <3>2 DEF LoadHead, Steps
    <3>3. CASE LoadTail(p)
      BY <3>1, <3>3 DEF LoadTail, Steps
    <3>4. CASE Refuse(p)
      BY <3>1, <3>4 DEF Refuse, Idle, Steps
    <3>5. CASE Retry(p)
      BY <3>1, <3>5 DEF Retry, Steps
    <3> QED BY <1>1, <3>2, <3>3, <3>4, <3>5
  <2>2. Types' /\ Window'
    BY <1>a, <2>1, Zenon DEF Types, Window
  <2>3. Fills'
    BY <1>a, <2>1, Zenon DEF Fills, Filling, Slot
  <2>4. ReadySlots'
    BY <1>a, <2>1 DEF ReadySlots, Slot
  <2>5. Reading'
    BY <1>a, <2>1 DEF Reading, Filling, Slot
  <2> QED BY <2>2, <2>3, <2>4, <2>5 DEF RingInv
<1>2. ASSUME NEW p \in Producers, Reserve(p) PROVE RingInv'
  <2>1. /\ head' = head + 1 /\ UNCHANGED <<tail, ready, data, consumer, taken>>
        /\ producer[p].head = head /\ head < tail + Capacity /\ head < MaxItems
        /\ producer' = [producer EXCEPT ![p].at = "write"]
        /\ <<p, head>> \in Items /\ reserved' = Append(reserved, <<p, head>>)
    BY <1>a, <1>2 DEF Reserve, Full, Types, Window, Items
  <2>2. /\ reserved' \in Seq(Items) /\ Len(reserved') = head + 1 /\ reserved'[head + 1] = <<p, head>>
        /\ \A i \in 1 .. head : reserved'[i] = reserved[i]
    BY <1>a, <2>1 DEF Types, Window
  <2>3. /\ producer' \in [Producers -> [at : Steps, head : Nat, tail : Nat]]
        /\ producer'[p].at = "write" /\ producer'[p].head = head /\ producer'[p].tail = producer[p].tail
        /\ \A q \in Producers \ {p} : producer'[q] = producer[q]
    BY <1>a, <2>1, Zenon DEF Types, Steps
  <2>4. Slot(head) \in 0 .. Capacity - 1 /\ ~ready[Slot(head)]
    <3>1. Slot(head) \in 0 .. Capacity - 1
      BY <1>a, SlotType, Zenon DEF Types
    <3>2. ASSUME ready[Slot(head)] PROVE FALSE
      <4>1. PICK i \in tail .. head - 1 : Slot(head) = Slot(i)
        BY <1>a, <3>1, <3>2 DEF ReadySlots
      <4>2. i \in Nat /\ i < head /\ head < i + Capacity
        BY <1>a, <2>1, <4>1, SMTT(30) DEF Types
      <4> QED BY <1>a, <4>1, <4>2, SlotsDiffer DEF Types
    <3> QED BY <3>1, <3>2
  <2>5. Types'
    <3>1. head' \in Nat
      BY <1>a, <2>1 DEF Types
    <3> QED BY <1>a, <2>1, <2>2, <2>3, <3>1, Zenon DEF Types
  <2>6. Window'
    BY <1>a, <2>1, <2>2, <2>3, SMTT(30) DEF Window, Types
  <2>7. Fills'
    <3>1. ASSUME NEW q \in Producers, q # p, Filling(q)'
          PROVE  /\ tail' <= producer'[q].head /\ producer'[q].head < head'
                 /\ ~ready'[Slot(producer'[q].head)]
                 /\ reserved'[producer'[q].head + 1] = <<q, producer'[q].head>>
                 /\ producer'[q].at = "publish" => data'[Slot(producer'[q].head)] = <<q, producer'[q].head>>
      <4>1. Filling(q) /\ producer'[q] = producer[q]
        BY <2>3, <3>1 DEF Filling
      <4>2. producer[q].head + 1 \in 1 .. head /\ producer[q].head < head + 1
        <5>1. producer[q].head \in Nat /\ producer[q].head + 1 \in 1 .. Len(reserved)
          BY <1>b, <4>1, Zenon
        <5>2. Len(reserved) = head /\ head \in Nat
          BY <1>a DEF Window, Types
        <5> QED BY <5>1, <5>2
      <4>3. reserved'[producer[q].head + 1] = reserved[producer[q].head + 1]
        BY <2>2, <4>2
      <4>4. /\ tail <= producer[q].head /\ ~ready[Slot(producer[q].head)]
            /\ reserved[producer[q].head + 1] = <<q, producer[q].head>>
            /\ producer[q].at = "publish" => data[Slot(producer[q].head)] = <<q, producer[q].head>>
        BY <1>a, <4>1, <4>2 DEF Fills
      <4> QED BY <2>1, <4>1, <4>2, <4>3, <4>4, Zenon
    <3>2. /\ tail' <= producer'[p].head /\ producer'[p].head < head'
          /\ ~ready'[Slot(producer'[p].head)]
          /\ reserved'[producer'[p].head + 1] = <<p, producer'[p].head>>
          /\ producer'[p].at # "publish"
      BY <1>a, <2>1, <2>2, <2>3, <2>4, SMTT(30) DEF Window, Types
    <3> QED BY <3>1, <3>2, Zenon DEF Fills, Slot
  <2>8. ReadySlots'
    <3>1. ASSUME NEW s \in 0 .. Capacity - 1, ready'[s]
          PROVE  \E i \in tail' .. head' - 1 : s = Slot(i)
      BY <1>a, <2>1, <3>1, SMTT(30) DEF ReadySlots, Types
    <3>2. ASSUME NEW i \in Nat, tail' <= i, i < head', ready'[Slot(i)]
          PROVE  data'[Slot(i)] = reserved'[i + 1]
      <4>1. i # head
        BY <2>1, <2>4, <3>2
      <4>2. i + 1 \in 1 .. head
        BY <1>a, <2>1, <3>2, <4>1, SMTT(30) DEF Types
      <4> QED BY <1>a, <2>1, <2>2, <3>2, <4>1, <4>2, SMTT(30) DEF ReadySlots, Types
    <3> QED BY <3>1, <3>2 DEF ReadySlots, Slot
  <2>9. Reading'
    <3> SUFFICES ASSUME consumer.at # "idle" PROVE Reading'
      BY <2>1, Zenon DEF Reading
    <3>1. /\ tail \in Nat /\ head \in Nat /\ tail < head /\ tail + 1 \in 1 .. head
          /\ consumer.item = reserved[tail + 1]
          /\ \A q \in Producers : Filling(q) => producer[q].head # tail
      BY <1>a DEF Reading, Types
    <3>2. reserved'[tail + 1] = reserved[tail + 1] /\ tail < head + 1
      BY <2>2, <3>1
    <3>3. ASSUME NEW q \in Producers, Filling(q)' PROVE producer'[q].head # tail
      BY <2>3, <3>1, <3>3 DEF Filling
    <3> QED BY <1>a, <2>1, <3>1, <3>2, <3>3, Zenon DEF Reading, Slot
  <2> QED BY <2>5, <2>6, <2>7, <2>8, <2>9 DEF RingInv
<1>3. ASSUME NEW p \in Producers, WriteData(p) PROVE RingInv'
  <2>1. /\ UNCHANGED <<head, tail, ready, consumer, reserved, taken>> /\ Filling(p)
        /\ data' = [data EXCEPT ![Slot(producer[p].head)] = <<p, producer[p].head>>]
        /\ producer' = [producer EXCEPT ![p].at = "publish"]
    BY <1>3 DEF WriteData, Filling
  <2>2. /\ producer' \in [Producers -> [at : Steps, head : Nat, tail : Nat]]
        /\ producer'[p].at = "publish" /\ producer'[p].head = producer[p].head
        /\ producer'[p].tail = producer[p].tail
        /\ \A q \in Producers \ {p} : producer'[q] = producer[q]
    BY <1>a, <2>1, ZenonT(40) DEF Types, Steps
  <2>3. /\ data' \in [0 .. Capacity - 1 -> Items \cup {None}]
        /\ data'[Slot(producer[p].head)] = <<p, producer[p].head>>
        /\ \A s \in 0 .. Capacity - 1 : s # Slot(producer[p].head) => data'[s] = data[s]
    BY <1>a, <1>b, <2>1 DEF Types
  <2>4. Types'
    BY <1>a, <2>1, <2>2, <2>3, SMTT(30) DEF Types
  <2>5. Window'
    BY <1>a, <2>1, <2>2 DEF Window
  <2>6. Fills'
    <3>1. ASSUME NEW q \in Producers, q # p, Filling(q)'
          PROVE  Filling(q) /\ producer'[q] = producer[q]
                 /\ data'[Slot(producer[q].head)] = data[Slot(producer[q].head)]
      <4>1. Filling(q) /\ producer'[q] = producer[q]
        BY <2>2, <3>1 DEF Filling
      <4> QED BY <1>b, <2>1, <2>3, <3>1, <4>1, FillsDiffer
    <3>2. ASSUME NEW q \in Producers, Filling(q)'
          PROVE  /\ tail <= producer'[q].head /\ producer'[q].head < head
                 /\ ~ready[Slot(producer'[q].head)]
                 /\ reserved[producer'[q].head + 1] = <<q, producer'[q].head>>
                 /\ producer'[q].at = "publish" => data'[Slot(producer'[q].head)] = <<q, producer'[q].head>>
      <4>1. CASE q = p
        BY <1>a, <2>1, <2>2, <2>3, <4>1, Zenon DEF Fills
      <4>2. CASE q # p
        BY <1>a, <3>1, <3>2, <4>2 DEF Fills
      <4> QED BY <4>1, <4>2
    <3> QED BY <2>1, <3>2, Zenon DEF Fills, Slot
  <2>7. ReadySlots'
    BY <1>a, <1>b, <2>1, <2>3, SlotType, Zenon DEF ReadySlots, Fills, Slot
  <2>8. Reading'
    BY <1>a, <2>1, <2>2 DEF Reading, Filling, Slot
  <2> QED BY <2>4, <2>5, <2>6, <2>7, <2>8 DEF RingInv
<1>4. ASSUME NEW p \in Producers, Publish(p) PROVE RingInv'
  <2>1. /\ UNCHANGED <<head, tail, data, consumer, reserved, taken>> /\ Filling(p)
        /\ producer[p].at = "publish"
        /\ ready' = [ready EXCEPT ![Slot(producer[p].head)] = TRUE]
        /\ producer' = [producer EXCEPT ![p] = Idle]
    BY <1>4 DEF Publish, Filling
  <2>2. /\ producer' \in [Producers -> [at : Steps, head : Nat, tail : Nat]]
        /\ producer'[p].at = "idle" /\ producer'[p].tail = 0
        /\ \A q \in Producers \ {p} : producer'[q] = producer[q]
    BY <1>a, <2>1 DEF Types, Steps, Idle
  <2>3. /\ ready' \in [0 .. Capacity - 1 -> BOOLEAN] /\ ready'[Slot(producer[p].head)]
        /\ \A s \in 0 .. Capacity - 1 : s # Slot(producer[p].head) => ready'[s] = ready[s]
    BY <1>a, <1>b, <2>1, Zenon DEF Types
  <2>4. Types'
    BY <1>a, <2>1, <2>2, <2>3 DEF Types
  <2>5. Window'
    BY <1>a, <2>1, <2>2 DEF Window, Types
  <2>6. Fills'
    <3>1. ASSUME NEW q \in Producers, Filling(q)'
          PROVE  /\ Filling(q) /\ producer'[q] = producer[q]
                 /\ ready'[Slot(producer[q].head)] = ready[Slot(producer[q].head)]
      <4>1. q # p /\ Filling(q) /\ producer'[q] = producer[q]
        BY <2>2, <3>1 DEF Filling
      <4> QED BY <1>b, <2>1, <2>3, <4>1, FillsDiffer, Zenon
    <3> QED BY <1>a, <2>1, <3>1, ZenonT(40) DEF Fills, Slot
  <2>7. ReadySlots'
    <3>1. ASSUME NEW s \in 0 .. Capacity - 1, ready'[s]
          PROVE  \E i \in tail .. head - 1 : s = Slot(i)
      <4>1. CASE s = Slot(producer[p].head)
        BY <1>a, <1>b, <2>1, <4>1 DEF Fills, Types
      <4>2. CASE s # Slot(producer[p].head)
        BY <1>a, <2>3, <3>1, <4>2 DEF ReadySlots
      <4> QED BY <4>1, <4>2
    <3>2. ASSUME NEW i \in Nat, tail <= i, i < head, ready'[Slot(i)]
          PROVE  data[Slot(i)] = reserved[i + 1]
      <4>1. CASE Slot(i) = Slot(producer[p].head)
        <5>1. i = producer[p].head
          BY <1>a, <1>b, <2>1, <3>2, <4>1, SameSlot DEF Fills, Window, Types
        <5> QED BY <1>a, <2>1, <5>1, Zenon DEF Fills
      <4>2. CASE Slot(i) # Slot(producer[p].head)
        BY <1>a, <2>3, <3>2, <4>2, SlotType, Zenon DEF ReadySlots
      <4> QED BY <4>1, <4>2
    <3> QED BY <2>1, <3>1, <3>2 DEF ReadySlots, Slot
  <2>8. Reading'
    <3>1. consumer.at # "idle" => Slot(tail) # Slot(producer[p].head)
      <4>1. ASSUME consumer.at # "idle", Slot(tail) = Slot(producer[p].head) PROVE FALSE
        <5>1. tail = producer[p].head
          <6>1. /\ tail \in Nat /\ tail < tail + Capacity /\ producer[p].head \in Nat
                /\ tail <= producer[p].head /\ producer[p].head < tail + Capacity
            BY <1>a, <1>b, <2>1 DEF Fills, Window, Types
          <6> QED BY <4>1, <6>1, SameSlot
        <5> QED BY <1>a, <2>1, <4>1, <5>1 DEF Reading
      <4> QED BY <4>1
    <3>2. consumer.at # "idle" => ready'[Slot(tail)] = ready[Slot(tail)]
      BY <1>a, <2>3, <3>1, SlotType DEF Types
    <3> QED BY <1>a, <2>1, <2>2, <3>2, Zenon DEF Reading, Filling, Slot
  <2> QED BY <2>4, <2>5, <2>6, <2>7, <2>8 DEF RingInv
<1>5. CASE ReadSlot
  <2>1. /\ UNCHANGED <<head, tail, ready, data, producer, reserved, taken>>
        /\ ready[Slot(tail)] /\ consumer' = [at |-> "clear", item |-> data[Slot(tail)]]
    BY <1>5 DEF ReadSlot
  <2>2. Slot(tail) \in 0 .. Capacity - 1
    BY <1>a, SlotType, Zenon DEF Types
  <2>3. tail < head
    BY <1>a, <2>1, <2>2 DEF ReadySlots, Types
  <2>4. Types' /\ Window'
    BY <1>a, <2>1, <2>2 DEF Types, Window
  <2>5. Fills' /\ ReadySlots'
    BY <1>a, <2>1 DEF Fills, ReadySlots, Filling, Slot
  <2>6. Reading'
    <3>1. data[Slot(tail)] = reserved[tail + 1]
      BY <1>a, <2>1, <2>3 DEF ReadySlots, Types
    <3>2. \A p \in Producers : Filling(p) => producer[p].head # tail
      BY <1>a, <2>1 DEF Fills
    <3> QED BY <2>1, <2>3, <3>1, <3>2 DEF Reading, Filling, Slot
  <2> QED BY <2>4, <2>5, <2>6 DEF RingInv
<1>6. CASE ClearReady
  <2>1. /\ UNCHANGED <<head, tail, data, producer, reserved, taken>>
        /\ consumer.at = "clear" /\ ready' = [ready EXCEPT ![Slot(tail)] = FALSE]
        /\ consumer' = [consumer EXCEPT !.at = "advance"]
    BY <1>6 DEF ClearReady
  <2>2. Slot(tail) \in 0 .. Capacity - 1
    BY <1>a, SlotType, Zenon DEF Types
  <2>3. /\ ready' \in [0 .. Capacity - 1 -> BOOLEAN] /\ ~ready'[Slot(tail)]
        /\ \A s \in 0 .. Capacity - 1 : ready'[s] => ready[s]
    BY <1>a, <2>1, <2>2 DEF Types
  <2>4. Types' /\ Window'
    BY <1>a, <2>1, <2>3, Zenon DEF Types, Window
  <2>5. Fills'
    BY <1>a, <1>b, <2>1, <2>3, Zenon DEF Fills, Filling, Slot
  <2>6. ReadySlots'
    BY <1>a, <2>1, <2>3, SlotType DEF ReadySlots, Slot
  <2>7. Reading'
    BY <1>a, <2>1, <2>3 DEF Reading, Filling, Types, Slot
  <2> QED BY <2>4, <2>5, <2>6, <2>7 DEF RingInv
<1>7. CASE Advance
  <2>1. /\ UNCHANGED <<head, ready, data, producer, reserved>> /\ consumer.at = "advance"
        /\ tail' = tail + 1 /\ taken' = Append(taken, consumer.item)
        /\ consumer' = [at |-> "idle", item |-> None]
        /\ tail < head /\ consumer.item = reserved[tail + 1] /\ ~ready[Slot(tail)]
    BY <1>a, <1>7 DEF Advance, Reading
  <2>2. /\ reserved[tail + 1] \in Items /\ taken' \in Seq(Items) /\ Len(taken') = tail + 1
        /\ taken'[tail + 1] = reserved[tail + 1] /\ \A i \in 1 .. tail : taken'[i] = taken[i]
    BY <1>a, <2>1 DEF Types, Window
  <2>3. Types'
    BY <1>a, <2>1, <2>2 DEF Types
  <2>4. Window'
    BY <1>a, <2>1, <2>2 DEF Types, Window
  <2>5. Fills'
    <3>1. ASSUME NEW p \in Producers, Filling(p) PROVE tail + 1 <= producer[p].head
      BY <1>a, <1>b, <2>1, <3>1 DEF Fills, Reading, Types
    <3> QED BY <1>a, <2>1, <3>1, Zenon DEF Fills, Filling, Slot
  <2>6. ReadySlots'
    <3>1. ASSUME NEW s \in 0 .. Capacity - 1, ready[s]
          PROVE  \E i \in tail + 1 .. head - 1 : s = Slot(i)
      <4>1. PICK i \in tail .. head - 1 : s = Slot(i)
        BY <1>a, <3>1 DEF ReadySlots
      <4>2. i # tail
        BY <2>1, <3>1, <4>1
      <4> QED BY <1>a, <4>1, <4>2 DEF Types
    <3>2. ASSUME NEW i \in Nat, tail + 1 <= i, i < head, ready[Slot(i)]
          PROVE  data[Slot(i)] = reserved[i + 1]
      BY <1>a, <3>2 DEF ReadySlots, Types
    <3> QED BY <2>1, <3>1, <3>2 DEF ReadySlots, Slot
  <2>7. Reading'
    BY <2>1 DEF Reading
  <2> QED BY <2>3, <2>4, <2>5, <2>6, <2>7 DEF RingInv
<1>8. CASE UNCHANGED vars
  BY <1>a, <1>8, Zenon DEF vars, RingInv, Types, Window, Fills, ReadySlots, Reading, Filling, Slot
<1> QED BY <1>1, <1>2, <1>3, <1>4, <1>5, <1>6, <1>7, <1>8 DEF Next, Enqueue, Dequeue

\* Cursors, slots and producers of the ring hold together in every state (MpscQueue::enqueue,
\* dequeue): what the two theorems below rest on.
THEOREM RingInvariant ==
  ASSUME MpscAssumption
  PROVE  Spec => []RingInv
<1>1. Init => RingInv
  BY RingInvInit
<1>2. RingInv /\ [Next]_vars => RingInv'
  BY RingInvStep
<1> QED BY <1>1, <1>2, PTL DEF Spec

\* No two producers fill one slot of the queue, none fills a slot that is being read, and
\* no slot holds two items, for every capacity and any number of producers.
THEOREM SlotsExclusive ==
  ASSUME MpscAssumption
  PROVE  Spec => []MpscSlotExclusive
<1>1. RingInv => MpscSlotExclusive
  <2> SUFFICES ASSUME RingInv PROVE MpscSlotExclusive
    OBVIOUS
  <2>1. tail \in Nat /\ head \in Nat /\ Capacity \in Nat /\ tail <= head /\ head - tail <= Capacity
    BY DEF RingInv, Types, Window, MpscAssumption
  <2>2. ASSUME NEW p \in Producers, Filling(p)
        PROVE  /\ tail <= producer[p].head /\ producer[p].head < head
               /\ ~ready[Slot(producer[p].head)]
    BY <2>2 DEF RingInv, Fills
  <2>3. ASSUME NEW p \in Producers, Filling(p), consumer.at # "idle"
        PROVE  Slot(producer[p].head) # Slot(tail)
    <3>1. producer[p].head # tail /\ producer[p].head \in Nat /\ tail < head
      BY <2>3 DEF RingInv, Reading, Types
    <3> QED BY <2>1, <2>2, <2>3, <3>1, SameSlot
  <2> QED BY <2>1, <2>2, <2>3, FillsDiffer DEF MpscSlotExclusive
<1> QED BY <1>1, RingInvariant, PTL

\* The queue implements a bounded FIFO in the order of the reservations: the successful
\* compare-and-swap on head_ is the Put, the store to tail_ is the Take.
THEOREM MpscImplementsFifo ==
  ASSUME MpscAssumption
  PROVE  Spec => FifoSpec
<1>1. Init => Fifo!Init
  BY DEF Init, Fifo!Init
<1>2. RingInv /\ [Next]_vars => [Fifo!Next]_(Fifo!vars)
  <2> SUFFICES ASSUME RingInv, [Next]_vars PROVE [Fifo!Next]_(Fifo!vars)
    OBVIOUS
  <2>1. ASSUME NEW p \in Producers, Reserve(p) PROVE Fifo!Next
    <3>1. <<p, head>> \in Items /\ Len(reserved) - Len(taken) < Capacity
      BY <2>1 DEF RingInv, Types, Window, Reserve, Full, Items, MpscAssumption
    <3>2. Fifo!Put(<<p, head>>)
      BY <2>1, <3>1 DEF Fifo!Put, Reserve
    <3> QED BY <3>1, <3>2 DEF Fifo!Next, Items
  <2>2. CASE Advance
    <3>1. RingInv'
      BY RingInvStep
    <3>2. /\ UNCHANGED reserved /\ 1 \in 1 .. Capacity /\ taken' \in Seq(Items)
          /\ Len(taken') = Len(taken) + 1 /\ Len(taken) + 1 <= Len(reserved)
          /\ \A i \in 1 .. Len(taken) + 1 : taken'[i] = reserved[i]
      BY <2>2, <3>1 DEF RingInv, Types, Window, Reading, Advance, MpscAssumption
    <3>3. /\ SubSeq(reserved, 1, Len(taken) + 1) \in Seq(Items)
          /\ Len(SubSeq(reserved, 1, Len(taken) + 1)) = Len(taken) + 1
          /\ \A i \in 1 .. Len(taken) + 1 : SubSeq(reserved, 1, Len(taken) + 1)[i] = reserved[i]
      BY <3>2 DEF RingInv, Types
    <3>4. taken' = SubSeq(reserved, 1, Len(taken) + 1)
      BY <3>2, <3>3, SeqEqual
    <3>5. Fifo!Take(1)
      BY <3>2, <3>4 DEF Fifo!Take
    <3> QED BY <3>2, <3>5 DEF Fifo!Next
  <2>3. CASE UNCHANGED <<reserved, taken>>
    BY <2>3 DEF Fifo!vars
  <2>4. (\E p \in Producers : Reserve(p)) \/ Advance \/ UNCHANGED <<reserved, taken>>
    BY DEF Next, Enqueue, Dequeue, LoadHead, LoadTail, Refuse, Retry, WriteData, Publish, ReadSlot,
       ClearReady, vars
  <2> QED BY <2>1, <2>2, <2>3, <2>4
<1> QED BY <1>1, <1>2, RingInvariant, PTL DEF Spec, FifoSpec, Fifo!Spec
=============================================================================

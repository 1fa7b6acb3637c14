---------------------------- MODULE TimingWheel ----------------------------
(***************************************************************************)
(* The timing wheel (timing_wheel.cpp).  tick() takes the entries due now  *)
(* out of their slot and then calls back for each of them; the callbacks   *)
(* may schedule, cancel and reschedule.  A slot's linked list and the free *)
(* list are sets here: in which order they are walked is left open.        *)
(***************************************************************************)
EXTENDS Naturals, FiniteSets

CONSTANTS NumSlots,        \* num_slots_, a power of two
          MaxIds,          \* bound: entry ids in use at once
          MaxTick,         \* bound: calls of tick()
          ZeroInCallback   \* may callbacks schedule 0 ticks ahead?

\* What the constants may be.
WheelAssumption ==
  /\ NumSlots \in Nat \ {0} /\ MaxIds \in Nat /\ MaxTick \in Nat
  /\ ZeroInCallback \in BOOLEAN

VARIABLES
  current_tick,  \* current_tick_
  deadline,      \* deadline_tick of the entries in entries_, by id
  slots,         \* the ids in each slot
  free_ids,      \* free_ids_
  next_id,       \* next_id_
  expired,       \* expired_buf_: taken out, not yet called back
  calling        \* the id whose callback runs, 0 if none

wheelVars == <<current_tick, deadline, slots, free_ids, next_id, expired, calling>>

Ids == 1..MaxIds
SlotOf(t) == t % NumSlots
Entries == DOMAIN deadline

WheelInit ==
  /\ current_tick = 0
  /\ deadline = [i \in {} |-> 0]
  /\ slots = [k \in 0..(NumSlots - 1) |-> {}]
  /\ free_ids = {} /\ next_id = 1
  /\ expired = {} /\ calling = 0

\* schedule, cancel and reschedule are called from callbacks or between ticks.
Callable == calling # 0 \/ expired = {}

\* A delay in range; out of it schedule and reschedule throw.  The header asks
\* callbacks for at least one tick.
Delays == {k \in 0..(NumSlots - 1) : k > 0 \/ calling = 0 \/ ZeroInCallback}

ComputeDeadline(k) == current_tick + k

\* schedule: a recycled id if there is one.
Schedule(i, k) ==
  /\ Callable
  /\ i \in free_ids \/ (free_ids = {} /\ i = next_id /\ next_id <= MaxIds)
  /\ free_ids' = free_ids \ {i}
  /\ next_id' = IF free_ids = {} THEN next_id + 1 ELSE next_id
  /\ deadline' = [j \in Entries \cup {i} |-> IF j = i THEN ComputeDeadline(k) ELSE deadline[j]]
  /\ slots' = [slots EXCEPT ![SlotOf(ComputeDeadline(k))] = @ \cup {i}]
  /\ UNCHANGED <<current_tick, expired, calling>>

\* cancel of an entry of entries_; any other id is ignored.
Cancel(i) ==
  /\ Callable
  /\ i \in Entries
  /\ slots' = [slots EXCEPT ![SlotOf(deadline[i])] = @ \ {i}]
  /\ deadline' = [j \in Entries \ {i} |-> deadline[j]]
  /\ free_ids' = free_ids \cup {i}
  /\ UNCHANGED <<current_tick, next_id, expired, calling>>

Reschedule(i, k) ==
  /\ Callable
  /\ i \in Entries
  /\ deadline' = [deadline EXCEPT ![i] = ComputeDeadline(k)]
  /\ slots' = [s \in DOMAIN slots |->
                 IF s = SlotOf(ComputeDeadline(k)) THEN slots[s] \cup {i} ELSE slots[s] \ {i}]
  /\ UNCHANGED <<current_tick, free_ids, next_id, expired, calling>>

Due == {i \in slots[SlotOf(current_tick)] : deadline[i] = current_tick}

\* tick(), phases 1 to 3a: the due entries leave the slot and entries_.  A tick
\* with none due is over at once.
BeginTick ==
  /\ calling = 0 /\ expired = {} /\ current_tick < MaxTick
  /\ expired' = Due
  /\ slots' = [slots EXCEPT ![SlotOf(current_tick)] = @ \ Due]
  /\ deadline' = [i \in Entries \ Due |-> deadline[i]]
  /\ current_tick' = IF Due = {} THEN current_tick + 1 ELSE current_tick
  /\ UNCHANGED <<free_ids, next_id, calling>>

\* Mutant of BeginCallback: the id may be reused by the callback itself.
BeginCallbackFreesId(i) ==
  /\ calling = 0 /\ i \in expired
  /\ calling' = i
  /\ free_ids' = free_ids \cup {i}
  /\ UNCHANGED <<current_tick, deadline, slots, next_id, expired>>

\* tick(), phase 3b: on_expire_ is called ...
BeginCallback(i) ==
  /\ calling = 0 /\ i \in expired
  /\ calling' = i
  /\ UNCHANGED <<current_tick, deadline, slots, free_ids, next_id, expired>>

\* ... and returns or throws; the id becomes free, and the last one ends the tick.
EndCallback ==
  /\ calling # 0
  /\ calling' = 0
  /\ expired' = expired \ {calling}
  /\ free_ids' = free_ids \cup {calling}
  /\ current_tick' = IF expired' = {} THEN current_tick + 1 ELSE current_tick
  /\ UNCHANGED <<deadline, slots, next_id>>

WheelNext ==
  \/ \E i \in Ids, k \in Delays : Schedule(i, k) \/ Reschedule(i, k)
  \/ \E i \in Ids : Cancel(i) \/ BeginCallback(i)
  \/ BeginTick \/ EndCallback

WheelSpec == WheelInit /\ [][WheelNext]_wheelVars

-----------------------------------------------------------------------------
(* Properties. *)

\* Type invariant.
WheelTypeOK ==
  /\ current_tick \in Nat
  /\ Entries \subseteq Ids /\ deadline \in [Entries -> Nat]
  /\ slots \in [0..(NumSlots - 1) -> SUBSET Ids]
  /\ free_ids \subseteq Ids /\ next_id \in 1..(MaxIds + 1)
  /\ expired \subseteq Ids /\ calling \in Ids \cup {0}

\* Every entry is in the slot of its deadline and in no other, and a slot holds
\* nothing else: insert_entry, remove_entry and the id table agree.
SlotsMatchEntries ==
  \A s \in DOMAIN slots : slots[s] = {i \in Entries : SlotOf(deadline[i]) = s}

\* An id has one use at a time: it is free, or it names an entry, or it is being
\* expired, and it is not reused before its callback has returned.
IdsNotShared ==
  /\ free_ids \cap (Entries \cup expired) = {}
  /\ Entries \cap expired = {}
  /\ calling # 0 => calling \in expired
  /\ free_ids \cup Entries \cup expired = 1..(next_id - 1)

\* No deadline passes unseen: between ticks every entry is due at one of the next
\* num_slots_ ticks, and during one at a later tick.
NoMissedDeadline ==
  \A i \in Entries :
    /\ deadline[i] >= current_tick /\ deadline[i] < current_tick + NumSlots
    /\ expired # {} => deadline[i] > current_tick

\* timing_wheel.hpp, of schedule(0) in a callback: "the entry will expire after a
\* full wheel revolution (num_slots ticks)".
ExpiresWithinRevolution == \A i \in Entries : current_tick <= deadline[i] + NumSlots
=============================================================================

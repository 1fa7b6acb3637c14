--------------------------------- MODULE Slab ---------------------------------
(***************************************************************************)
(* SlabAllocator and TypedSlabAllocator (slab_allocator.cpp, .hpp): the    *)
(* free list, the growth in chunks, and the marker in a freed slot by      *)
(* which a second deallocate is recognised.  A user that holds a slot may  *)
(* overwrite the marker.                                                   *)
(***************************************************************************)
EXTENDS Naturals, SequencesExt, FiniteSets

CONSTANTS InitialCount,    \* initial_count
          AutoGrow, GrowChunk, MaxTotal,   \* SlabAllocatorConfig; 0 means unset
          Slots,           \* bound: addresses of slots, 1 .. N
          MaxDoubleFrees   \* bound: second deallocates of a slot

SlabAssumption ==
  /\ InitialCount \in Nat \ {0} /\ GrowChunk \in Nat /\ MaxTotal \in Nat
  /\ AutoGrow \in BOOLEAN /\ MaxDoubleFrees \in Nat
  /\ Slots = 1 .. Cardinality(Slots) /\ InitialCount \in Slots

VARIABLES
  free_list,               \* free_list_, from its head
  magic,                   \* FreeNode::magic of each slot
  total_count, free_count, grow_count, peak_allocated, double_free_count,
  held                     \* slots the users own

counters == <<grow_count, peak_allocated, double_free_count>>
vars == <<free_list, magic, total_count, free_count, counters, held>>

NewSlots(count) == [i \in 1 .. count |-> total_count + i]

\* The constructor grows the pool once.
Init ==
  /\ free_list = [i \in 1 .. InitialCount |-> i] /\ total_count = InitialCount
  /\ magic = [s \in Slots |-> IF s <= InitialCount THEN "freed" ELSE "none"]
  /\ free_count = InitialCount
  /\ grow_count = 0 /\ peak_allocated = 0 /\ double_free_count = 0 /\ held = {}

Min2(a, b) == IF a < b THEN a ELSE b

\* By how much allocate grows an empty pool; 0 when it may not.
ChunkSize ==
  LET chunk == IF GrowChunk > 0 THEN GrowChunk ELSE InitialCount
  IN IF ~AutoGrow \/ (MaxTotal > 0 /\ total_count >= MaxTotal) THEN 0
     ELSE IF MaxTotal > 0 THEN Min2(chunk, MaxTotal - total_count) ELSE chunk

\* allocate and construct: take the head of the list, after growing it if it is empty.
Allocate ==
  /\ LET grown == IF free_list = <<>> THEN NewSlots(ChunkSize) ELSE <<>>
         list == free_list \o grown
     IN /\ list # <<>> /\ total_count + Len(grown) <= Cardinality(Slots)
        /\ free_list' = Tail(list)
        /\ magic' = [s \in Slots |-> IF s = Head(list) THEN "allocated"
                                     ELSE IF s \in ToSet(grown) THEN "freed" ELSE magic[s]]
        /\ total_count' = total_count + Len(grown)
        /\ free_count' = free_count + Len(grown) - 1
        /\ grow_count' = grow_count + (IF grown # <<>> THEN 1 ELSE 0)
        /\ peak_allocated' = IF total_count' - free_count' > peak_allocated
                             THEN total_count' - free_count' ELSE peak_allocated
        /\ held' = held \cup {Head(list)}
  /\ UNCHANGED double_free_count

\* The user's object covers the marker.
Overwrite(s) ==
  /\ s \in held /\ magic' = [magic EXCEPT ![s] = "data"]
  /\ UNCHANGED <<free_list, total_count, free_count, counters, held>>

\* Mutant of DoubleFree: the marker is not looked at.
DoubleFreeUnseen(s) == FALSE

DoubleFree(s) == magic[s] = "freed"

\* deallocate and destroy, by the owner or, once more, by somebody whose pointer is stale
\* while the slot is still free.
Deallocate(s) ==
  /\ s \in held \/ (s \in ToSet(free_list) /\ double_free_count < MaxDoubleFrees)
  /\ IF DoubleFree(s)
     THEN /\ double_free_count' = double_free_count + 1
          /\ UNCHANGED <<free_list, magic, free_count, held>>
     ELSE /\ magic' = [magic EXCEPT ![s] = "freed"] /\ free_list' = <<s>> \o free_list
          /\ free_count' = free_count + 1 /\ held' = held \ {s}
          /\ UNCHANGED double_free_count
  /\ UNCHANGED <<total_count, grow_count, peak_allocated>>

Next == Allocate \/ \E s \in Slots : Overwrite(s) \/ Deallocate(s)
Spec == Init /\ [][Next]_vars

-----------------------------------------------------------------------------
\* Every slot of the pool is free or has one owner, never both and never twice, and the
\* counters say how many: growth, reuse and a repeated deallocate hand no slot to two
\* users and lose none, and the pool stays within max_total_count.
SlabSound ==
  /\ IsInjective(free_list) /\ ToSet(free_list) \cap held = {}
  /\ ToSet(free_list) \cup held = 1 .. total_count
  /\ free_count = Len(free_list)
  /\ MaxTotal > 0 /\ InitialCount <= MaxTotal => total_count <= MaxTotal
  /\ Cardinality(held) <= peak_allocated /\ peak_allocated <= total_count
=============================================================================

----------------------------- MODULE BoundedFifo -----------------------------
(***************************************************************************)
(* What a cross-core queue promises: a log of the items it accepted, of    *)
(* which the consumer has been handed a prefix, never more than Capacity   *)
(* items behind ("Strict FIFO - single producer, single consumer",         *)
(* spsc_queue.hpp).  SpscQueue and MpscQueue implement this specification. *)
(***************************************************************************)
EXTENDS Naturals, Sequences

CONSTANTS Items,     \* what may be enqueued
          Capacity   \* the bound on accepted items not yet handed over

VARIABLES accepted,  \* every item accepted, in order
          delivered  \* what the consumer has taken, in order

vars == <<accepted, delivered>>

Init == accepted = << >> /\ delivered = << >>

Put(x) ==
  /\ Len(accepted) - Len(delivered) < Capacity
  /\ accepted' = Append(accepted, x)
  /\ UNCHANGED delivered

\* One item, or a batch of them, taken from the front.
Take(k) ==
  /\ Len(delivered) + k <= Len(accepted)
  /\ delivered' = SubSeq(accepted, 1, Len(delivered) + k)
  /\ UNCHANGED accepted

Next == (\E x \in Items : Put(x)) \/ (\E k \in 1..Capacity : Take(k))

Spec == Init /\ [][Next]_vars
=============================================================================

----------------------------- MODULE PayloadPool -----------------------------
(***************************************************************************)
(* ConsumerPayloadPool (consumer_payload_pool.cpp): the buffers that carry *)
(* Kafka payloads from the consumer callback to the coroutine that handles *)
(* them.  Both operations run under the pool's mutex, so each is one step. *)
(***************************************************************************)
EXTENDS Naturals

CONSTANTS InitialCount,    \* initial_count: buffers made by the constructor
          MaxCount         \* max_count_; 0 means no limit

PayloadAssumption ==
  InitialCount \in Nat /\ MaxCount \in Nat /\ (MaxCount > 0 => InitialCount <= MaxCount)

VARIABLES free_list,       \* how many buffers wait in free_list_
          in_use, total_created

payloadVars == <<free_list, in_use, total_created>>

Init == free_list = InitialCount /\ in_use = 0 /\ total_created = InitialCount

\* acquire: from the free list, or a new pooled buffer, or one the pool does not count.
Acquire ==
  /\ in_use' = in_use + 1
  /\ \/ free_list > 0 /\ free_list' = free_list - 1 /\ UNCHANGED total_created
     \/ /\ free_list = 0 /\ UNCHANGED free_list
        /\ IF MaxCount = 0 \/ total_created < MaxCount
           THEN total_created' = total_created + 1
           ELSE UNCHANGED total_created

\* The test of release, after --in_use_.
Fits == MaxCount = 0 \/ free_list + (in_use - 1) < MaxCount

\* release: back to the free list while the pool is within its limit, else deleted.
Release ==
  /\ in_use > 0 /\ in_use' = in_use - 1
  /\ IF Fits THEN free_list' = free_list + 1 /\ UNCHANGED total_created
     ELSE /\ UNCHANGED free_list
          /\ total_created' = IF total_created > 0 THEN total_created - 1 ELSE 0

Next == Acquire \/ Release
Spec == Init /\ [][Next]_payloadVars

-----------------------------------------------------------------------------
\* A burst beyond the limit leaves nothing behind: the pool keeps free buffers only while
\* they and the ones in use are within max_count, and the count that decides whether to
\* pool a new buffer never exceeds the buffers that exist.
PayloadBounded ==
  /\ free_list \in Nat /\ in_use \in Nat /\ total_created \in Nat
  /\ MaxCount > 0 /\ free_list > 0 => free_list + in_use <= MaxCount
  /\ MaxCount > 0 => total_created <= MaxCount
  /\ total_created <= free_list + in_use
=============================================================================

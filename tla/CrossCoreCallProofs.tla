------------------------ MODULE CrossCoreCallProofs ------------------------
(***************************************************************************)
(* Proofs about cross_core_call, for any set of concurrent calls and any   *)
(* queue capacity.                                                         *)
(***************************************************************************)
EXTENDS CrossCoreCall, TLAPS

\* The coroutine the caller's thread is in, and what the target's thread can see
\* of the status at each of its steps.
TargetInv ==
  /\ active # None => pc[active] = "queued"
  /\ pcT # "idle" => cur \in Calls
  /\ pcT \in {"invoke", "emplace", "cas"} => status[cur] \in {0, 2}
  /\ pcT = "cas" => cur \in threw \/ result[cur] = "value"

\* What a status set by the target vouches for.
StatusInv ==
  \A c \in Calls :
    /\ status[c] = 1 => result[c] = "value"
    /\ status[c] = 3 => c \in threw
    /\ pc[c] = "timeout" <=> status[c] = 2
    /\ pc[c] \in {"reading", "value"} => status[c] = 1
    /\ pc[c] = "failed" => status[c] = 3

CallInv == TypeOK /\ TargetInv /\ StatusInv

-----------------------------------------------------------------------------
LEMMA CallInvInit == Init => CallInv
  BY CallAssumption DEF Init, CallInv, TypeOK, TargetInv, StatusInv, Returned

\* What posting a task leaves of the types.
LEMMA EnqueueTypes ==
  ASSUME TypeOK, NEW c \in Calls, Enqueue(c), Len(queue) < Capacity
  PROVE  /\ queue' \in Seq(Calls) /\ Len(queue') <= Capacity
         /\ (pc \in [Calls -> {"idle", "suspended", "destroyed", "resuming", "queued", "waiting",
                               "woken", "reading"} \cup Returned])'
         /\ (task \in [Calls -> {"none", "held", "queued", "running", "lost", "deleted"}])'
         /\ active' \in Calls \cup {None}
<1>1. queue' = Append(queue, c) /\ queue \in Seq(Calls)
  BY DEF Enqueue, TypeOK
<1>2. queue' \in Seq(Calls) /\ Len(queue') = Len(queue) + 1
  BY <1>1
<1>3. Len(queue) \in Nat
  BY <1>1
<1>4. QED
  BY <1>2, <1>3, CallAssumption DEF Enqueue, TypeOK, Returned

LEMMA CallInvStep == CallInv /\ [Next]_vars => CallInv'
<1> SUFFICES ASSUME CallInv, [Next]_vars PROVE CallInv'
  OBVIOUS
<1> USE CallAssumption DEF CallInv
<1>1. ASSUME NEW c \in Calls, Call(c) PROVE CallInv'
  <2>1. TypeOK'
    <3>1. CASE Len(queue) < Capacity
      <4>1. Enqueue(c)
        BY <1>1, <3>1 DEF Call
      <4>2. QED
        BY <1>1, <3>1, <4>1, EnqueueTypes DEF Call, TypeOK, targetVars
    <3>2. CASE Len(queue) = Capacity
      <4>1. UNCHANGED queue
        BY <1>1, <3>2, CallAssumption DEF Call, TypeOK
      <4>2. QED
        BY <1>1, <3>2, <4>1 DEF Call, TypeOK, Returned, targetVars
    <3>3. QED
      BY <1>1, <3>1, <3>2 DEF Call
  <2>2. TargetInv'
    BY <1>1 DEF Call, Enqueue, TypeOK, TargetInv, targetVars, callerVars
  <2>3. StatusInv'
    BY <1>1 DEF Call, Enqueue, TypeOK, TargetInv, StatusInv, targetVars, callerVars
  <2>4. QED
    BY <2>1, <2>2, <2>3
<1>2. ASSUME NEW c \in Calls, Resume(c) PROVE CallInv'
  <2>1. TypeOK'
    <3>1. CASE Len(queue) < Capacity
      <4>1. Enqueue(c)
        BY <1>2, <3>1 DEF Resume
      <4>2. QED
        BY <1>2, <3>1, <4>1, EnqueueTypes DEF Resume, TypeOK, targetVars
    <3>2. CASE Len(queue) = Capacity
      <4>1. UNCHANGED queue
        BY <1>2, <3>2, CallAssumption DEF Resume, TypeOK
      <4>2. QED
        BY <1>2, <3>2, <4>1 DEF Resume, TypeOK, Returned, targetVars
    <3>3. QED
      BY <1>2, <3>1, <3>2 DEF Resume
  <2>2. TargetInv'
    BY <1>2 DEF Resume, Enqueue, TypeOK, TargetInv, targetVars, callerVars
  <2>3. StatusInv'
    BY <1>2 DEF Resume, Enqueue, TypeOK, TargetInv, StatusInv, targetVars, callerVars
  <2>4. QED
    BY <2>1, <2>2, <2>3
<1>3. ASSUME NEW c \in Calls, Abort(c) PROVE CallInv'
  <2>1. TypeOK'
    BY <1>3 DEF Abort, TypeOK, Returned, targetVars, callerVars
  <2>2. TargetInv'
    BY <1>3 DEF Abort, TypeOK, TargetInv, targetVars, callerVars
  <2>3. StatusInv'
    BY <1>3 DEF Abort, TypeOK, TargetInv, StatusInv, targetVars, callerVars
  <2>4. QED
    BY <2>1, <2>2, <2>3
<1>4. ASSUME NEW c \in Calls, Expire(c) PROVE CallInv'
  <2>1. TypeOK'
    BY <1>4 DEF Expire, TypeOK, Returned, targetVars, callerVars
  <2>2. TargetInv'
    BY <1>4 DEF Expire, TypeOK, TargetInv, targetVars, callerVars
  <2>3. StatusInv'
    BY <1>4 DEF Expire, TypeOK, TargetInv, StatusInv, targetVars, callerVars
  <2>4. QED
    BY <2>1, <2>2, <2>3
<1>5. ASSUME NEW c \in Calls, AsyncWait(c) PROVE CallInv'
  <2>1. TypeOK'
    BY <1>5 DEF AsyncWait, TypeOK, Returned, targetVars, callerVars
  <2>2. TargetInv'
    BY <1>5 DEF AsyncWait, TypeOK, TargetInv, targetVars, callerVars
  <2>3. StatusInv'
    BY <1>5 DEF AsyncWait, TypeOK, TargetInv, StatusInv, targetVars, callerVars
  <2>4. QED
    BY <2>1, <2>2, <2>3
<1>6. ASSUME NEW c \in Calls, RunCancel(c) PROVE CallInv'
  <2>1. TypeOK'
    BY <1>6 DEF RunCancel, TypeOK, Returned, targetVars, callerVars
  <2>2. TargetInv'
    BY <1>6 DEF RunCancel, TypeOK, TargetInv, targetVars, callerVars
  <2>3. StatusInv'
    BY <1>6 DEF RunCancel, TypeOK, TargetInv, StatusInv, targetVars, callerVars
  <2>4. QED
    BY <2>1, <2>2, <2>3
<1>7. ASSUME NEW c \in Calls, TimerFires(c) PROVE CallInv'
  <2>1. TypeOK'
    BY <1>7 DEF TimerFires, TypeOK, Returned, targetVars, callerVars
  <2>2. TargetInv'
    BY <1>7 DEF TimerFires, TypeOK, TargetInv, targetVars, callerVars
  <2>3. StatusInv'
    BY <1>7 DEF TimerFires, TypeOK, TargetInv, StatusInv, targetVars, callerVars
  <2>4. QED
    BY <2>1, <2>2, <2>3
<1>8. ASSUME NEW c \in Calls, Settle(c) PROVE CallInv'
  <2>1. TypeOK'
    BY <1>8 DEF Settle, TypeOK, Returned, targetVars, callerVars
  <2>2. TargetInv'
    BY <1>8 DEF Settle, TypeOK, TargetInv, targetVars, callerVars
  <2>3. StatusInv'
    BY <1>8 DEF Settle, TypeOK, TargetInv, StatusInv, targetVars, callerVars
  <2>4. QED
    BY <2>1, <2>2, <2>3
<1>9. ASSUME NEW c \in Calls, ReadResult(c) PROVE CallInv'
  <2>1. TypeOK'
    BY <1>9 DEF ReadResult, TypeOK, Returned, targetVars, callerVars
  <2>2. TargetInv'
    BY <1>9 DEF ReadResult, TypeOK, TargetInv, targetVars, callerVars
  <2>3. StatusInv'
    BY <1>9 DEF ReadResult, TypeOK, TargetInv, StatusInv, targetVars, callerVars
  <2>4. QED
    BY <2>1, <2>2, <2>3
<1>10. CASE TakeTask
  <2>1. TypeOK'
    BY <1>10 DEF TakeTask, TypeOK, TargetInv, Returned, targetVars, callerVars
  <2>2. TargetInv'
    BY <1>10 DEF TakeTask, TypeOK, TargetInv, targetVars, callerVars
  <2>3. StatusInv'
    BY <1>10 DEF TakeTask, TypeOK, TargetInv, StatusInv, targetVars, callerVars
  <2>4. QED
    BY <2>1, <2>2, <2>3
<1>11. CASE LoadStatus
  <2>1. TypeOK'
    BY <1>11 DEF LoadStatus, TypeOK, TargetInv, Returned, targetVars, callerVars
  <2>2. TargetInv'
    BY <1>11 DEF LoadStatus, TypeOK, TargetInv, targetVars, callerVars
  <2>3. StatusInv'
    BY <1>11 DEF LoadStatus, TypeOK, TargetInv, StatusInv, targetVars, callerVars
  <2>4. QED
    BY <2>1, <2>2, <2>3
<1>12. CASE InvokeReturns
  <2>1. TypeOK'
    BY <1>12 DEF InvokeReturns, TypeOK, TargetInv, Returned, targetVars, callerVars
  <2>2. TargetInv'
    BY <1>12 DEF InvokeReturns, TypeOK, TargetInv, targetVars, callerVars
  <2>3. StatusInv'
    BY <1>12 DEF InvokeReturns, TypeOK, TargetInv, StatusInv, targetVars, callerVars
  <2>4. QED
    BY <2>1, <2>2, <2>3
<1>13. CASE InvokeThrows
  <2>1. TypeOK'
    BY <1>13 DEF InvokeThrows, TypeOK, TargetInv, Returned, targetVars, callerVars
  <2>2. TargetInv'
    BY <1>13 DEF InvokeThrows, TypeOK, TargetInv, targetVars, callerVars
  <2>3. StatusInv'
    BY <1>13 DEF InvokeThrows, TypeOK, TargetInv, StatusInv, targetVars, callerVars
  <2>4. QED
    BY <2>1, <2>2, <2>3
<1>14. CASE Emplace
  <2>1. TypeOK'
    BY <1>14 DEF Emplace, TypeOK, TargetInv, Returned, targetVars, callerVars
  <2>2. TargetInv'
    BY <1>14 DEF Emplace, TypeOK, TargetInv, targetVars, callerVars
  <2>3. StatusInv'
    BY <1>14 DEF Emplace, TypeOK, TargetInv, StatusInv, targetVars, callerVars
  <2>4. QED
    BY <2>1, <2>2, <2>3
<1>15. CASE CompareExchange
  <2>1. TypeOK'
    BY <1>15 DEF CompareExchange, TypeOK, TargetInv, Returned, targetVars, callerVars
  <2>2. TargetInv'
    BY <1>15 DEF CompareExchange, TypeOK, TargetInv, targetVars, callerVars
  <2>3. StatusInv'
    BY <1>15 DEF CompareExchange, TypeOK, TargetInv, StatusInv, targetVars, callerVars
  <2>4. QED
    BY <2>1, <2>2, <2>3
<1>16. CASE PostCancel
  <2>1. TypeOK'
    BY <1>16 DEF PostCancel, TypeOK, TargetInv, Returned, targetVars, callerVars
  <2>2. TargetInv'
    BY <1>16 DEF PostCancel, TypeOK, TargetInv, targetVars, callerVars
  <2>3. StatusInv'
    BY <1>16 DEF PostCancel, TypeOK, TargetInv, StatusInv, targetVars, callerVars
  <2>4. QED
    BY <2>1, <2>2, <2>3
<1>17. CASE DeleteTask
  <2>1. TypeOK'
    BY <1>17 DEF DeleteTask, TypeOK, TargetInv, Returned, targetVars, callerVars
  <2>2. TargetInv'
    BY <1>17 DEF DeleteTask, TypeOK, TargetInv, targetVars, callerVars
  <2>3. StatusInv'
    BY <1>17 DEF DeleteTask, TypeOK, TargetInv, StatusInv, targetVars, callerVars
  <2>4. QED
    BY <2>1, <2>2, <2>3
<1>18. CASE NotifyProducer
  <2>1. TypeOK'
    BY <1>18 DEF NotifyProducer, TypeOK, TargetInv, Returned, targetVars, callerVars
  <2>2. TargetInv'
    BY <1>18 DEF NotifyProducer, TypeOK, TargetInv, targetVars, callerVars
  <2>3. StatusInv'
    BY <1>18 DEF NotifyProducer, TypeOK, TargetInv, StatusInv, targetVars, callerVars
  <2>4. QED
    BY <2>1, <2>2, <2>3
<1>19. CASE UNCHANGED vars
  BY <1>19 DEF vars, TypeOK, TargetInv, StatusInv, Returned, targetVars, callerVars
<1>20. QED
  BY <1>1, <1>2, <1>3, <1>4, <1>5, <1>6, <1>7, <1>8, <1>9, <1>10, <1>11, <1>12, <1>13, <1>14, <1>15, <1>16, <1>17, <1>18,
     <1>19, SMTT(30)
  DEF Next, CallerStep, TargetStep

-----------------------------------------------------------------------------
\* The caller returns what the status says, a value only if there is one
\* (OutcomeAgreed).
THEOREM OutcomesAgree == Spec => []OutcomeAgreed
<1>1. CallInv => OutcomeAgreed
  BY DEF CallInv, StatusInv, OutcomeAgreed
<1>2. QED
  BY <1>1, CallInvInit, CallInvStep, PTL DEF Spec

\* The result is never read while it is written (ResultNotShared).
THEOREM ResultsNotShared == Spec => []ResultNotShared
<1>1. CallInv => ResultNotShared
  BY DEF CallInv, StatusInv, TargetInv, ResultNotShared
<1>2. QED
  BY <1>1, CallInvInit, CallInvStep, PTL DEF Spec

\* The model's variables keep their types (TypeOK).
THEOREM CallTypes == Spec => []TypeOK
<1>1. CallInv => TypeOK
  BY DEF CallInv
<1>2. QED
  BY <1>1, CallInvInit, CallInvStep, PTL DEF Spec

\* The status of a settled call never changes again (SettledOnce).
THEOREM SettledForGood == Spec => SettledOnce
<1> DEFINE Kept == \A c \in Calls : status[c] # 0 => status'[c] = status[c]
<1>1. CallInv /\ [Next]_vars => [Kept]_vars
  <2> SUFFICES ASSUME CallInv, [Next]_vars PROVE Kept \/ UNCHANGED vars
    OBVIOUS
  <2>1. ASSUME NEW c \in Calls, Settle(c) PROVE Kept
    BY <2>1 DEF Settle, CallInv, TypeOK
  <2>2. CASE CompareExchange
    BY <2>2 DEF CompareExchange, CallInv, TypeOK, TargetInv
  <2>3. CASE UNCHANGED status
    BY <2>3
  <2>4. QED
    BY <2>1, <2>2, <2>3 DEF Next, CallerStep, TargetStep, Call, Enqueue, Resume, Abort, AsyncWait,
       Expire, RunCancel, TimerFires, ReadResult, TakeTask, LoadStatus, InvokeReturns,
       InvokeThrows, Emplace, PostCancel, DeleteTask, NotifyProducer, vars
<1>2. QED
  BY <1>1, CallInvInit, CallInvStep, PTL DEF Spec, SettledOnce
=============================================================================

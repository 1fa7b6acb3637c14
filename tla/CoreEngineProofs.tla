------------------------- MODULE CoreEngineProofs -------------------------
(***************************************************************************)
(* Proofs about the event-driven drain, for any number of cores, any queue *)
(* capacity and batch limit, and any number of restarts.                   *)
(***************************************************************************)
EXTENDS CoreEngine, TLAPS

\* A drain is posted, running or about to be posted.
Token == posted > 0 \/ Draining \/ \E s \in Srcs : pc[s] = "post"

\* Until the engine is started again, a drain exists only while the flag is set,
\* and a store of false is in flight only when none does.
FlagInv ==
  restarts = 0 =>
    /\ buffered => drain_pending
    /\ Token => drain_pending /\ ~buffered

CoalesceInv == TypeOK /\ FlagInv /\ DrainCoalesced

\* Why no message is stranded: its source has yet to look at the flag, or a drain
\* exists, or the handler's re-check has not passed the source's queue.
Covered(s) ==
  \/ pc[s] = "exchange" \/ Token \/ pcD = "reschedule"
  \/ pcD = "recheck" /\ s >= offset

StrandInv ==
  /\ TypeOK
  /\ ~buffered
  /\ drain_pending => Token
  /\ \A s \in Srcs : queued[s] > 0 => Covered(s)

-----------------------------------------------------------------------------
\* The source drain_all_for is at is one of the cores.
LEMMA CurrentCore == TypeOK => Current \in Cores
  BY EngineAssumption DEF TypeOK, Current, Cores

\* The visited queue belongs to a source.
VisitInv == pcD \in {"dequeue", "notify"} => Current # Dst /\ offset < NumCores

LEMMA TypeStep == TypeOK /\ VisitInv /\ [Next]_vars => TypeOK' /\ VisitInv'
<1> SUFFICES ASSUME TypeOK, VisitInv, [Next]_vars PROVE TypeOK' /\ VisitInv'
  OBVIOUS
<1> USE EngineAssumption, CurrentCore
<1>1. ASSUME NEW s \in Srcs, PostTo(s) PROVE TypeOK' /\ VisitInv'
  BY <1>1 DEF PostTo, TryEnqueue, TypeOK, VisitInv, Current, dstVars, SrcPcs
<1>2. ASSUME NEW s \in Srcs, CoPostTo(s) PROVE TypeOK' /\ VisitInv'
  BY <1>2 DEF CoPostTo, TryEnqueue, TypeOK, VisitInv, Current, dstVars, SrcPcs
<1>3. ASSUME NEW s \in Srcs, Recheck(s) PROVE TypeOK' /\ VisitInv'
  BY <1>3 DEF Recheck, TypeOK, VisitInv, Current, dstVars, SrcPcs
<1>4. ASSUME NEW s \in Srcs, Suspend(s) PROVE TypeOK' /\ VisitInv'
  BY <1>4 DEF Suspend, TypeOK, VisitInv, Current, dstVars, SrcPcs
<1>5. ASSUME NEW s \in Srcs, Resume(s) PROVE TypeOK' /\ VisitInv'
  BY <1>5 DEF Resume, TryEnqueue, TypeOK, VisitInv, Current, dstVars, SrcPcs
<1>6. ASSUME NEW s \in Srcs, ExchangeFlag(s) PROVE TypeOK' /\ VisitInv'
  BY <1>6 DEF ExchangeFlag, TypeOK, VisitInv, Current, dstVars, SrcPcs
<1>7. ASSUME NEW s \in Srcs, PostDrain(s) PROVE TypeOK' /\ VisitInv'
  BY <1>7 DEF PostDrain, TypeOK, VisitInv, Current, dstVars, SrcPcs
<1>8. CASE BeginDrain
  BY <1>8 DEF BeginDrain, TypeOK, VisitInv, srcVars, DstPcs
<1>9. CASE Visit
  <2>1. (drain_rotate + 1) % NumCores \in Cores
    BY DEF TypeOK, Cores
  <2>2. offset # NumCores => offset + 1 \in 0..NumCores
    BY DEF TypeOK
  <2>3. QED
    BY <1>9, <2>1, <2>2 DEF Visit, TypeOK, VisitInv, Current, srcVars, DstPcs
<1>10. CASE Dequeue
  <2>1. Current \in Srcs
    BY <1>10 DEF Dequeue, VisitInv, Srcs
  <2>2. Current' = Current
    BY <1>10 DEF Dequeue, Current
  <2>3. QED
    BY <1>10, <2>1, <2>2 DEF Dequeue, TypeOK, VisitInv, srcVars, DstPcs
<1>11. CASE Notify
  <2>1. Current \in Srcs
    BY <1>11 DEF Notify, VisitInv, Srcs
  <2>2. offset + 1 \in 0..NumCores
    BY <1>11 DEF Notify, TypeOK, VisitInv
  <2>3. QED
    BY <1>11, <2>1, <2>2 DEF Notify, TypeOK, VisitInv, DstPcs
<1>12. CASE StoreFlag
  <2>1. CASE StoreBuffer
    BY <1>12, <2>1 DEF StoreFlag, TypeOK, VisitInv, srcVars, DstPcs
  <2>2. CASE ~StoreBuffer
    <3>1. drain_pending' = FALSE /\ buffered' = buffered
      BY <1>12, <2>2 DEF StoreFlag
    <3>2. drain_pending' \in BOOLEAN /\ buffered' \in BOOLEAN
      BY <3>1, Zenon DEF TypeOK
    <3>3. QED
      BY <1>12, <3>2 DEF StoreFlag, TypeOK, VisitInv, srcVars, DstPcs
  <2>3. QED
    BY <2>1, <2>2
<1>13. CASE RecheckQueue
  BY <1>13 DEF RecheckQueue, TypeOK, VisitInv, srcVars, DstPcs
<1>14. CASE Reschedule
  BY <1>14, Zenon DEF Reschedule, TypeOK, VisitInv, srcVars, DstPcs
<1>15. CASE Repost
  BY <1>15 DEF Repost, TypeOK, VisitInv, srcVars, DstPcs
<1>16. CASE FlushBuffer
  BY <1>16, Zenon DEF FlushBuffer, TypeOK, VisitInv, Current, srcVars, dstVars
<1>17. ASSUME NEW d \in BOOLEAN, Restart(d) PROVE TypeOK' /\ VisitInv'
  <2>1. queued' \in [Srcs -> 0..Capacity]
    BY <1>17 DEF Restart, TypeOK
  <2>2. waiter' \in [Srcs -> {"none", "stored", "posted", "aborted"}]
    <3>1. CASE d
      BY <1>17, <3>1 DEF Restart, TypeOK
    <3>2. CASE ~d
      BY <1>17, <3>2 DEF Restart, TypeOK
    <3>3. QED
      BY <3>1, <3>2
  <2>3. drain_pending' \in BOOLEAN /\ buffered' \in BOOLEAN
    <3>1. drain_pending' = FALSE /\ buffered' = FALSE
      BY <1>17 DEF Restart
    <3>2. QED
      BY <3>1, Zenon
  <2>4. restarts' \in 0..MaxRestarts
    BY <1>17 DEF Restart, TypeOK
  <2>5. QED
    BY <1>17, <2>1, <2>2, <2>3, <2>4 DEF Restart, TypeOK, VisitInv, Current, dstVars
<1>18. CASE UNCHANGED vars
  BY <1>18 DEF vars, TypeOK, VisitInv, Current, srcVars, dstVars
<1>19. QED
  BY <1>1, <1>2, <1>3, <1>4, <1>5, <1>6, <1>7, <1>8, <1>9, <1>10, <1>11, <1>12,
     <1>13, <1>14, <1>15, <1>16, <1>17, <1>18 DEF Next, SyncNext, SourceStep, DrainStep

LEMMA CoalesceStep ==
  CoalesceInv /\ [Next]_vars /\ TypeOK' => FlagInv' /\ DrainCoalesced'
<1> SUFFICES ASSUME CoalesceInv, [Next]_vars, TypeOK' PROVE FlagInv' /\ DrainCoalesced'
  OBVIOUS
<1> USE EngineAssumption DEF CoalesceInv
<1>1. ASSUME NEW s \in Srcs, PostTo(s) PROVE FlagInv' /\ DrainCoalesced'
  BY <1>1 DEF PostTo, TryEnqueue, TypeOK, FlagInv, DrainCoalesced, Token, Draining, dstVars, SrcPcs
<1>2. ASSUME NEW s \in Srcs, CoPostTo(s) PROVE FlagInv' /\ DrainCoalesced'
  BY <1>2 DEF CoPostTo, TryEnqueue, TypeOK, FlagInv, DrainCoalesced, Token, Draining, dstVars, SrcPcs
<1>3. ASSUME NEW s \in Srcs, Recheck(s) PROVE FlagInv' /\ DrainCoalesced'
  BY <1>3 DEF Recheck, TypeOK, FlagInv, DrainCoalesced, Token, Draining, dstVars, SrcPcs
<1>4. ASSUME NEW s \in Srcs, Suspend(s) PROVE FlagInv' /\ DrainCoalesced'
  BY <1>4 DEF Suspend, TypeOK, FlagInv, DrainCoalesced, Token, Draining, dstVars, SrcPcs
<1>5. ASSUME NEW s \in Srcs, Resume(s) PROVE FlagInv' /\ DrainCoalesced'
  BY <1>5 DEF Resume, TryEnqueue, TypeOK, FlagInv, DrainCoalesced, Token, Draining, dstVars, SrcPcs
<1>6. ASSUME NEW s \in Srcs, ExchangeFlag(s) PROVE FlagInv' /\ DrainCoalesced'
  BY <1>6 DEF ExchangeFlag, TypeOK, FlagInv, DrainCoalesced, Token, Draining, dstVars, SrcPcs
<1>7. ASSUME NEW s \in Srcs, PostDrain(s) PROVE FlagInv' /\ DrainCoalesced'
  BY <1>7 DEF PostDrain, TypeOK, FlagInv, DrainCoalesced, Token, Draining, dstVars, SrcPcs
<1>8. CASE BeginDrain
  BY <1>8 DEF BeginDrain, TypeOK, FlagInv, DrainCoalesced, Token, Draining, srcVars, dstVars
<1>9. CASE Visit
  BY <1>9 DEF Visit, TypeOK, FlagInv, DrainCoalesced, Token, Draining, srcVars, dstVars
<1>10. CASE Dequeue
  BY <1>10 DEF Dequeue, TypeOK, FlagInv, DrainCoalesced, Token, Draining, srcVars, dstVars
<1>11. CASE Notify
  BY <1>11 DEF Notify, TypeOK, FlagInv, DrainCoalesced, Token, Draining, srcVars, dstVars
<1>12. CASE StoreFlag
  <2>1. ~Token' \/ restarts # 0
    BY <1>12 DEF StoreFlag, TypeOK, DrainCoalesced, Token, Draining, srcVars
  <2>2. restarts = 0 => (buffered => drain_pending)'
    <3>1. restarts = 0 => drain_pending /\ ~buffered
      BY <1>12 DEF StoreFlag, FlagInv, Token, Draining
    <3>2. QED
      BY <1>12, <3>1, Zenon DEF StoreFlag
  <2>3. DrainCoalesced'
    BY <1>12 DEF StoreFlag, TypeOK, DrainCoalesced, Draining, srcVars
  <2>4. QED
    BY <1>12, <2>1, <2>2, <2>3 DEF StoreFlag, FlagInv
<1>13. CASE RecheckQueue
  BY <1>13 DEF RecheckQueue, TypeOK, FlagInv, DrainCoalesced, Token, Draining, srcVars, dstVars
<1>14. CASE Reschedule
  BY <1>14 DEF Reschedule, TypeOK, FlagInv, DrainCoalesced, Token, Draining, srcVars, dstVars
<1>15. CASE Repost
  BY <1>15 DEF Repost, TypeOK, FlagInv, DrainCoalesced, Token, Draining, srcVars, dstVars
<1>16. CASE FlushBuffer
  BY <1>16 DEF FlushBuffer, TypeOK, FlagInv, DrainCoalesced, Token, Draining, srcVars, dstVars
<1>17. ASSUME NEW d \in BOOLEAN, Restart(d) PROVE FlagInv' /\ DrainCoalesced'
  BY <1>17 DEF Restart, TypeOK, FlagInv, DrainCoalesced, Token, Draining, dstVars
<1>18. CASE UNCHANGED vars
  BY <1>18 DEF vars, TypeOK, FlagInv, DrainCoalesced, Token, Draining, srcVars, dstVars
<1>19. QED
  BY <1>1, <1>2, <1>3, <1>4, <1>5, <1>6, <1>7, <1>8, <1>9, <1>10, <1>11, <1>12, <1>13, <1>14, <1>15, <1>16, <1>17, <1>18
  DEF Next, SyncNext, SourceStep, DrainStep

LEMMA StrandStep ==
  ~StoreBuffer /\ StrandInv /\ VisitInv /\ [Next]_vars /\ TypeOK' => StrandInv'
<1> SUFFICES ASSUME ~StoreBuffer, StrandInv, VisitInv, [Next]_vars, TypeOK' PROVE StrandInv'
  OBVIOUS
<1> USE EngineAssumption, CurrentCore
<1>1. ASSUME NEW s \in Srcs, PostTo(s) PROVE StrandInv'
  BY <1>1 DEF PostTo, TryEnqueue, TypeOK, StrandInv, Covered, Token, Draining, dstVars, SrcPcs
<1>2. ASSUME NEW s \in Srcs, CoPostTo(s) PROVE StrandInv'
  BY <1>2 DEF CoPostTo, TryEnqueue, TypeOK, StrandInv, Covered, Token, Draining, dstVars, SrcPcs
<1>3. ASSUME NEW s \in Srcs, Recheck(s) PROVE StrandInv'
  BY <1>3 DEF Recheck, TypeOK, StrandInv, Covered, Token, Draining, dstVars, SrcPcs
<1>4. ASSUME NEW s \in Srcs, Suspend(s) PROVE StrandInv'
  BY <1>4 DEF Suspend, TypeOK, StrandInv, Covered, Token, Draining, dstVars, SrcPcs
<1>5. ASSUME NEW s \in Srcs, Resume(s) PROVE StrandInv'
  BY <1>5 DEF Resume, TryEnqueue, TypeOK, StrandInv, Covered, Token, Draining, dstVars, SrcPcs
<1>6. ASSUME NEW s \in Srcs, ExchangeFlag(s) PROVE StrandInv'
  BY <1>6 DEF ExchangeFlag, TypeOK, StrandInv, Covered, Token, Draining, dstVars, SrcPcs
<1>7. ASSUME NEW s \in Srcs, PostDrain(s) PROVE StrandInv'
  BY <1>7 DEF PostDrain, TypeOK, StrandInv, Covered, Token, Draining, dstVars, SrcPcs
<1>8. CASE BeginDrain
  BY <1>8 DEF BeginDrain, TypeOK, StrandInv, Covered, Token, Draining, srcVars, dstVars
<1>9. CASE Visit
  BY <1>9 DEF Visit, TypeOK, StrandInv, Covered, Token, Draining, srcVars, dstVars
<1>10. CASE Dequeue
  BY <1>10 DEF Dequeue, TypeOK, StrandInv, Covered, Token, Draining, srcVars, dstVars
<1>11. CASE Notify
  BY <1>11 DEF Notify, TypeOK, StrandInv, Covered, Token, Draining, srcVars, dstVars
<1>12. CASE StoreFlag
  <2>1. drain_pending' = FALSE /\ buffered' = buffered /\ pcD' = "recheck" /\ offset' = 0
    BY <1>12 DEF StoreFlag
  <2>2. \A s \in Srcs : s >= 0
    BY DEF Srcs, Cores
  <2>3. QED
    BY <2>1, <2>2 DEF StrandInv, Covered
<1>13. CASE RecheckQueue
  <2>1. Token' <=> Token
    BY <1>13 DEF RecheckQueue, Token, Draining, srcVars
  <2>2. UNCHANGED <<queued, drain_pending, buffered, pc>>
    BY <1>13 DEF RecheckQueue, srcVars
  <2>3. CASE offset = NumCores
    <3>1. \A s \in Srcs : ~(s >= offset)
      BY <2>3 DEF Srcs, Cores
    <3>2. QED
      BY <1>13, <2>1, <2>2, <3>1 DEF RecheckQueue, StrandInv, Covered
  <2>4. CASE offset # NumCores /\ offset # Dst /\ queued[offset] > 0
    <3>1. pcD' = "reschedule"
      BY <1>13, <2>4 DEF RecheckQueue
    <3>2. QED
      BY <2>1, <2>2, <3>1 DEF StrandInv, Covered
  <2>5. CASE offset # NumCores /\ ~(offset # Dst /\ queued[offset] > 0)
    <3>1. pcD = "recheck" /\ pcD' = "recheck" /\ offset' = offset + 1
      BY <1>13, <2>5 DEF RecheckQueue
    <3>2. \A s \in Srcs : queued[s] > 0 /\ s >= offset => s >= offset + 1
      BY <2>5 DEF Srcs, Cores, StrandInv, TypeOK
    <3>3. QED
      BY <2>1, <2>2, <3>1, <3>2 DEF StrandInv, Covered
  <2>6. QED
    BY <2>3, <2>4, <2>5
<1>14. CASE Reschedule
  BY <1>14 DEF Reschedule, TypeOK, StrandInv, Covered, Token, Draining, srcVars, dstVars
<1>15. CASE Repost
  BY <1>15 DEF Repost, TypeOK, StrandInv, Covered, Token, Draining, srcVars, dstVars
<1>16. CASE FlushBuffer
  BY <1>16 DEF FlushBuffer, TypeOK, StrandInv, Covered, Token, Draining, srcVars, dstVars
<1>17. ASSUME NEW d \in BOOLEAN, Restart(d) PROVE StrandInv'
  BY <1>17 DEF Restart, TypeOK, StrandInv, Covered, Token, Draining, dstVars
<1>18. CASE UNCHANGED vars
  BY <1>18 DEF vars, TypeOK, StrandInv, Covered, Token, Draining, srcVars, dstVars
<1>19. QED
  BY <1>1, <1>2, <1>3, <1>4, <1>5, <1>6, <1>7, <1>8, <1>9, <1>10, <1>11, <1>12, <1>13, <1>14, <1>15, <1>16, <1>17, <1>18
  DEF Next, SyncNext, SourceStep, DrainStep

-----------------------------------------------------------------------------
LEMMA EngineInit == Init => TypeOK /\ VisitInv /\ FlagInv /\ DrainCoalesced /\ StrandInv
<1> SUFFICES ASSUME Init PROVE TypeOK /\ VisitInv /\ FlagInv /\ DrainCoalesced /\ StrandInv
  OBVIOUS
<1> USE EngineAssumption DEF Init
<1>1. TypeOK
  <2>1. drain_pending \in BOOLEAN /\ buffered \in BOOLEAN
    BY Zenon
  <2>2. QED
    BY <2>1 DEF TypeOK, SrcPcs, DstPcs, Cores
<1>2. ~Token
  BY DEF Token, Draining
<1>3. QED
  BY <1>1, <1>2 DEF VisitInv, FlagInv, DrainCoalesced, Draining, StrandInv

\* The model's variables keep their types, and drain_all_for only ever dequeues
\* from a queue into its own core.
THEOREM EngineTypes == Spec => [](TypeOK /\ VisitInv)
<1>1. Init => TypeOK /\ VisitInv
  BY EngineInit
<1>2. QED
  BY <1>1, TypeStep, PTL DEF Spec

\* schedule_drain coalesces: with or without store buffering there is at most one
\* drain handler posted, running or about to be posted (DrainCoalesced).
THEOREM DrainsCoalesce == Spec => []DrainCoalesced
<1>1. Init => CoalesceInv
  BY EngineInit DEF CoalesceInv
<1>2. TypeOK /\ VisitInv /\ TypeOK' /\ CoalesceInv /\ [Next]_vars => CoalesceInv'
  BY CoalesceStep DEF CoalesceInv
<1>3. CoalesceInv => DrainCoalesced
  BY DEF CoalesceInv
<1>4. QED
  BY <1>1, <1>2, <1>3, EngineTypes, PTL DEF Spec

\* A covered message is not stranded.
LEMMA CoveredSuffices == StrandInv => NoStrandedMessage
<1> SUFFICES ASSUME StrandInv, NEW s \in Srcs, queued[s] > 0,
                    posted = 0, pcD = "idle", \A t \in Srcs : pc[t] \notin {"exchange", "post"}
             PROVE  FALSE
  BY DEF NoStrandedMessage, StrandInv, TypeOK
<1>1. Covered(s)
  BY DEF StrandInv
<1>2. QED
  BY <1>1 DEF Covered, Token, Draining

\* No message is left in a queue without a drain on its way (NoStrandedMessage),
\* provided the store to drain_pending_ is ordered before the re-check's loads.
THEOREM NothingStranded ==
  ASSUME ~StoreBuffer
  PROVE  Spec => []NoStrandedMessage
<1>1. Init => StrandInv
  BY EngineInit
<1>2. TypeOK /\ VisitInv /\ TypeOK' /\ StrandInv /\ [Next]_vars => StrandInv'
  BY StrandStep
<1>3. QED
  BY <1>1, <1>2, CoveredSuffices, EngineTypes, PTL DEF Spec
=============================================================================

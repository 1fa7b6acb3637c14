----------------------------- MODULE GatewayProofs -----------------------------
(***************************************************************************)
(* AnsweredOnce, for any sessions, users, bounds and restarts: a request   *)
(* is answered at most once and with its own response, however responses,  *)
(* copies of them, timeouts, removals of sessions and restarts interleave. *)
(***************************************************************************)
EXTENDS Gateway, FiniteSetTheorems, SequenceTheorems, TLAPS

PendingEntries == [corr : 1 .. MaxRequests, session : Sessions, id : Ids, expired : BOOLEAN]

Types ==
  /\ corr_counter \in [Cores -> 0 .. MaxRequests] /\ epoch \in 0 .. MaxRestarts
  /\ pending \in [Cores -> SUBSET PendingEntries] /\ answers \in [Ids -> Seq(Ids \cup {Timeout})]

\* The pending map of a core holds unanswered requests of this life of the gateway under
\* correlation ids already given out, each id once.
PendingUnanswered ==
  \A c \in Cores : \A e \in pending[c] :
    /\ e.id = <<epoch, c, e.corr>> /\ e.corr <= corr_counter[c] /\ answers[e.id] = <<>>
    /\ \A f \in pending[c] : e.corr = f.corr => e = f

\* No request is answered before its correlation id is given out.
FutureUnanswered ==
  \A i \in Ids : i[1] = epoch /\ i[3] > corr_counter[i[2]] => answers[i] = <<>>

OwnAnswer ==
  \A i \in Ids :
    /\ Len(answers[i]) <= 1
    /\ \A k \in 1 .. Len(answers[i]) :
         answers[i][k] # Timeout /\ answers[i][k][1] = i[1] => answers[i][k] = i

PendingBounded == \A c \in Cores : IsFiniteSet(pending[c]) /\ Cardinality(pending[c]) <= MaxPending

AnswerInv == Types /\ PendingUnanswered /\ FutureUnanswered /\ OwnAnswer /\ PendingBounded

-----------------------------------------------------------------------------

\* A request is given by its three parts.
LEMMA IdParts ==
  ASSUME NEW i \in Ids
  PROVE  /\ i = <<i[1], i[2], i[3]>> /\ i[1] \in 0 .. MaxRestarts /\ i[2] \in Cores
         /\ i[3] \in 1 .. MaxRequests
BY DEF Ids

LEMMA IdMade ==
  ASSUME NEW l \in 0 .. MaxRestarts, NEW c \in Cores, NEW k \in 1 .. MaxRequests
  PROVE  /\ <<l, c, k>> \in Ids /\ <<l, c, k>>[1] = l /\ <<l, c, k>>[2] = c /\ <<l, c, k>>[3] = k
BY DEF Ids

\* An answer appended to none is the only one.
LEMMA FirstAnswer ==
  ASSUME NEW S, NEW a \in S
  PROVE  /\ Append(<<>>, a) \in Seq(S) /\ Len(Append(<<>>, a)) = 1 /\ Append(<<>>, a)[1] = a
OBVIOUS

LEMMA AnswerInvInit ==
  ASSUME GatewayAssumption, Init
  PROVE  AnswerInv
<1> USE DEF Init, GatewayAssumption
<1>1. Types
  BY DEF Types
<1>2. PendingBounded
  BY FS_EmptySet DEF PendingBounded
<1>3. PendingUnanswered /\ FutureUnanswered /\ OwnAnswer
  BY DEF PendingUnanswered, FutureUnanswered, OwnAnswer
<1> QED BY <1>1, <1>2, <1>3 DEF AnswerInv

\* Forward gives out the next correlation id, and may enter the request in the map.
LEMMA ForwardKeeps ==
  ASSUME GatewayAssumption, AnswerInv, NEW s \in Sessions, Forward(s)
  PROVE  AnswerInv'
<1> DEFINE c == s[1]
           corr == corr_counter[c] + 1
           id == <<epoch, c, corr>>
           new == [corr |-> corr, session |-> s, id |-> id, expired |-> FALSE]
<1>a. Types /\ PendingUnanswered /\ FutureUnanswered /\ OwnAnswer /\ PendingBounded
  BY DEF AnswerInv
<1>b. MaxRequests \in Nat /\ MaxPending \in Nat /\ c \in Cores
  BY DEF GatewayAssumption, Cores
<1>1. /\ corr_counter' = [corr_counter EXCEPT ![c] = corr] /\ corr_counter[c] < MaxRequests
      /\ UNCHANGED <<epoch, answers>>
      /\ \/ UNCHANGED pending
         \/ Cardinality(pending[c]) < MaxPending /\ pending' = [pending EXCEPT ![c] = @ \cup {new}]
  BY <1>a, <1>b DEF Forward, NextCorrId, Insert, Types
<1>2. corr \in 1 .. MaxRequests /\ corr_counter[c] \in 0 .. MaxRequests
  BY <1>a, <1>b, <1>1 DEF Types
<1>3. id \in Ids /\ id[1] = epoch /\ id[2] = c /\ id[3] = corr
  BY <1>a, <1>b, <1>2, IdMade DEF Types
<1>4. new \in PendingEntries
  BY <1>2, <1>3 DEF PendingEntries
<1>5. answers[id] = <<>>
  BY <1>a, <1>2, <1>3 DEF FutureUnanswered
<1>6. Types'
  <2> HIDE DEF new, corr
  <2>1. pending' \in [Cores -> SUBSET PendingEntries]
    BY <1>a, <1>b, <1>1, <1>4 DEF Types
  <2>2. corr_counter' \in [Cores -> 0 .. MaxRequests]
    BY <1>a, <1>b, <1>1, <1>2 DEF Types
  <2> QED BY <1>a, <1>1, <2>1, <2>2 DEF Types
<1>7. \A d \in Cores : /\ pending'[d] \subseteq pending[d] \cup (IF d = c THEN {new} ELSE {})
                       /\ corr_counter[d] \in Nat /\ corr_counter'[d] \in Nat
                       /\ corr_counter[d] <= corr_counter'[d] /\ corr_counter'[c] = corr
  BY <1>a, <1>b, <1>1, <1>2 DEF Types
<1>8. PendingUnanswered'
  <2> SUFFICES ASSUME NEW d \in Cores, NEW e \in pending'[d]
               PROVE  /\ e.id = <<epoch, d, e.corr>> /\ e.corr <= corr_counter'[d]
                      /\ answers[e.id] = <<>>
                      /\ \A f \in pending'[d] : e.corr = f.corr => e = f
    BY <1>1 DEF PendingUnanswered
  <2>1. \A f \in pending[d] : f.corr \in Nat /\ f.corr <= corr_counter[d]
    BY <1>a, <1>b DEF PendingUnanswered, Types, PendingEntries
  <2>2. new.corr = corr /\ new.id = id
    OBVIOUS
  <2>3. CASE e \in pending[d]
    <3>1. \A f \in pending'[d] : e.corr = f.corr => e = f
      <4> SUFFICES ASSUME NEW f \in pending'[d], e.corr = f.corr
                   PROVE  e = f
        OBVIOUS
      <4>1. CASE f \in pending[d]
        BY <1>a, <2>3, <4>1 DEF PendingUnanswered
      <4>2. CASE d = c /\ f = new
        BY <1>2, <2>1, <2>2, <2>3, <4>2
      <4> QED BY <1>7, <4>1, <4>2
    <3> QED BY <1>a, <1>7, <2>1, <2>3, <3>1 DEF PendingUnanswered
  <2>4. CASE d = c /\ e = new
    <3>1. \A f \in pending'[d] : e.corr = f.corr => e = f
      BY <1>2, <1>7, <2>1, <2>2, <2>4
    <3> QED BY <1>2, <1>5, <1>7, <2>2, <2>4, <3>1
  <2> QED BY <1>7, <2>3, <2>4
<1>9. FutureUnanswered'
  <2> SUFFICES ASSUME NEW i \in Ids, i[1] = epoch, i[3] > corr_counter'[i[2]]
               PROVE  answers[i] = <<>>
    BY <1>1 DEF FutureUnanswered
  <2>1. i[2] \in Cores /\ i[3] \in Nat
    BY <1>b, IdParts
  <2> QED BY <1>a, <1>7, <2>1 DEF FutureUnanswered
<1>10. OwnAnswer'
  BY <1>a, <1>1 DEF OwnAnswer
<1>11. PendingBounded'
  <2> HIDE DEF new
  <2>1. CASE UNCHANGED pending
    BY <1>a, <2>1 DEF PendingBounded
  <2>2. CASE Cardinality(pending[c]) < MaxPending /\ pending' = [pending EXCEPT ![c] = @ \cup {new}]
    <3>1. IsFiniteSet(pending[c]) /\ Cardinality(pending[c]) \in Nat
      BY <1>a, <1>b, FS_CardinalityType DEF PendingBounded
    <3>2. /\ IsFiniteSet(pending[c] \cup {new})
          /\ \/ Cardinality(pending[c] \cup {new}) = Cardinality(pending[c])
             \/ Cardinality(pending[c] \cup {new}) = Cardinality(pending[c]) + 1
      BY <3>1, FS_AddElement
    <3> QED BY <1>a, <1>b, <2>2, <3>1, <3>2 DEF PendingBounded, Types
  <2> QED BY <1>1, <2>1, <2>2
<1> QED BY <1>6, <1>8, <1>9, <1>10, <1>11 DEF AnswerInv

\* Entries leave the map of core c, and of those some are answered, once and by their own
\* response or the timeout: what Extract and the sweep do.
LEMMA RemovalKeeps ==
  ASSUME GatewayAssumption, AnswerInv, NEW c \in Cores, NEW gone \in SUBSET pending[c],
         pending' = [pending EXCEPT ![c] = @ \ gone], UNCHANGED <<corr_counter, epoch>>,
         answers' \in [Ids -> Seq(Ids \cup {Timeout})],
         \A i \in Ids :
           \/ answers'[i] = answers[i]
           \/ \E e \in gone, a \in Ids \cup {Timeout} :
                /\ e.id = i /\ answers'[i] = Append(<<>>, a)
                /\ a # Timeout /\ a[1] = i[1] => a = i
  PROVE  AnswerInv'
<1>a. Types /\ PendingUnanswered /\ FutureUnanswered /\ OwnAnswer /\ PendingBounded
  BY DEF AnswerInv
<1>b. MaxRequests \in Nat /\ MaxPending \in Nat
  BY DEF GatewayAssumption
<1>1. Types'
  BY <1>a DEF Types
<1>2. \A d \in Cores : pending'[d] \subseteq pending[d] /\ (d = c => pending'[d] \cap gone = {})
  BY <1>a DEF Types
<1>3. \A d \in Cores : \A e \in pending'[d] : e.id \in Ids /\ answers'[e.id] = answers[e.id]
  <2> SUFFICES ASSUME NEW d \in Cores, NEW e \in pending'[d], NEW g \in gone, g.id = e.id
               PROVE  FALSE
    BY <1>a, <1>2 DEF Types, PendingEntries
  <2>1. g.id = <<epoch, c, g.corr>> /\ e.id = <<epoch, d, e.corr>> /\ g \in pending[c] /\ e \in pending[d]
    BY <1>a, <1>2 DEF PendingUnanswered
  <2>2. d = c /\ g.corr = e.corr
    <3>1. <<epoch, c, g.corr>> = <<epoch, d, e.corr>>
      BY <2>1, Zenon
    <3> QED BY <3>1
  <2>3. g = e
    BY <1>a, <2>1, <2>2 DEF PendingUnanswered
  <2> QED BY <1>2, <2>2, <2>3
<1>4. PendingUnanswered'
  <2> SUFFICES ASSUME NEW d \in Cores, NEW e \in pending'[d]
               PROVE  /\ e.id = <<epoch, d, e.corr>> /\ e.corr <= corr_counter[d]
                      /\ answers'[e.id] = <<>>
                      /\ \A f \in pending'[d] : e.corr = f.corr => e = f
    BY DEF PendingUnanswered
  <2> QED BY <1>a, <1>2, <1>3 DEF PendingUnanswered
<1>5. FutureUnanswered'
  <2> SUFFICES ASSUME NEW i \in Ids, i[1] = epoch, i[3] > corr_counter[i[2]]
               PROVE  answers'[i] = <<>>
    BY DEF FutureUnanswered
  <2>1. answers[i] = <<>>
    BY <1>a DEF FutureUnanswered
  <2>2. ASSUME NEW e \in gone, e.id = i
        PROVE  FALSE
    <3>1. e.id = <<epoch, c, e.corr>> /\ e.corr <= corr_counter[c]
      BY <1>a DEF PendingUnanswered
    <3>2. e.corr \in Nat /\ corr_counter[c] \in Nat
      BY <1>a, <1>b DEF Types, PendingEntries
    <3>3. i[2] = c /\ i[3] = e.corr
      BY <2>2, <3>1
    <3> QED BY <3>1, <3>2, <3>3
  <2> QED BY <2>1, <2>2
<1>6. OwnAnswer'
  <2> SUFFICES ASSUME NEW i \in Ids
               PROVE  /\ Len(answers'[i]) <= 1
                      /\ \A k \in 1 .. Len(answers'[i]) :
                           answers'[i][k] # Timeout /\ answers'[i][k][1] = i[1] => answers'[i][k] = i
    BY DEF OwnAnswer
  <2>1. CASE answers'[i] = answers[i]
    BY <1>a, <2>1 DEF OwnAnswer
  <2>2. ASSUME NEW a \in Ids \cup {Timeout}, answers'[i] = Append(<<>>, a),
               a # Timeout /\ a[1] = i[1] => a = i
        PROVE  /\ Len(answers'[i]) <= 1
               /\ \A k \in 1 .. Len(answers'[i]) :
                    answers'[i][k] # Timeout /\ answers'[i][k][1] = i[1] => answers'[i][k] = i
    BY <2>2, FirstAnswer
  <2> QED BY <2>1, <2>2
<1>7. PendingBounded'
  <2> SUFFICES ASSUME NEW d \in Cores
               PROVE  IsFiniteSet(pending'[d]) /\ Cardinality(pending'[d]) <= MaxPending
    BY Zenon DEF PendingBounded
  <2>1. IsFiniteSet(pending'[d]) /\ Cardinality(pending'[d]) <= Cardinality(pending[d])
    BY <1>a, <1>2, FS_Subset DEF PendingBounded
  <2>2. Cardinality(pending'[d]) \in Nat /\ Cardinality(pending[d]) \in Nat
    BY <1>a, <2>1, FS_CardinalityType DEF PendingBounded
  <2> QED BY <1>a, <1>b, <2>1, <2>2 DEF PendingBounded
<1> QED BY <1>1, <1>4, <1>5, <1>6, <1>7 DEF AnswerInv

\* An entry of core c is replaced by itself, expired.
LEMMA ExpireKeeps ==
  ASSUME GatewayAssumption, AnswerInv, NEW c \in Cores, Expire(c)
  PROVE  AnswerInv'
<1>a. Types /\ PendingUnanswered /\ FutureUnanswered /\ OwnAnswer /\ PendingBounded
  BY DEF AnswerInv
<1>b. MaxRequests \in Nat /\ MaxPending \in Nat
  BY DEF GatewayAssumption
<1>1. PICK e \in pending[c] : pending' = [pending EXCEPT ![c] = (@ \ {e}) \cup {[e EXCEPT !.expired = TRUE]}]
  BY Zenon DEF Expire
<1> DEFINE new == [e EXCEPT !.expired = TRUE]
<1>2. e \in PendingEntries
  BY <1>a DEF Types
<1>3. new \in PendingEntries /\ new.corr = e.corr /\ new.id = e.id
  BY <1>2, Zenon DEF PendingEntries
<1> HIDE DEF new
<1>4. pending'[c] = (pending[c] \ {e}) \cup {new} /\ \A d \in Cores \ {c} : pending'[d] = pending[d]
  BY <1>a, <1>1 DEF Types, new
<1>5. UNCHANGED <<corr_counter, epoch, answers>>
  BY DEF Expire
<1>6. Types'
  <2>1. pending' \in [Cores -> SUBSET PendingEntries]
    BY <1>a, <1>1, <1>3, Zenon DEF Types, new
  <2> QED BY <1>a, <1>5, <2>1 DEF Types
<1>7. PendingUnanswered'
  <2> SUFFICES ASSUME NEW d \in Cores, NEW x \in pending'[d]
               PROVE  /\ x.id = <<epoch, d, x.corr>> /\ x.corr <= corr_counter[d]
                      /\ answers[x.id] = <<>>
                      /\ \A f \in pending'[d] : x.corr = f.corr => x = f
    BY <1>5 DEF PendingUnanswered
  <2>1. CASE d # c
    BY <1>a, <1>4, <2>1 DEF PendingUnanswered
  <2>2. CASE d = c /\ x = new
    <3>1. \A f \in pending'[c] : new.corr = f.corr => new = f
      <4>1. \A f \in pending[c] : e.corr = f.corr => e = f
        BY <1>a DEF PendingUnanswered
      <4> QED BY <1>3, <1>4, <4>1
    <3> QED BY <1>a, <1>3, <2>2, <3>1 DEF PendingUnanswered
  <2>3. CASE d = c /\ x \in pending[c] \ {e}
    <3>1. \A f \in pending'[c] : x.corr = f.corr => x = f
      BY <1>a, <1>3, <1>4, <2>3 DEF PendingUnanswered
    <3> QED BY <1>a, <2>3, <3>1 DEF PendingUnanswered
  <2> QED BY <1>4, <2>1, <2>2, <2>3
<1>8. FutureUnanswered' /\ OwnAnswer'
  BY <1>a, <1>5 DEF FutureUnanswered, OwnAnswer
<1>9. PendingBounded'
  <2> DEFINE rest == pending[c] \ {e}
  <2>1. IsFiniteSet(pending[c]) /\ Cardinality(pending[c]) \in Nat /\ Cardinality(pending[c]) <= MaxPending
    BY <1>a, FS_CardinalityType DEF PendingBounded
  <2>2. IsFiniteSet(rest) /\ Cardinality(rest) = Cardinality(pending[c]) - 1
    BY <2>1, FS_RemoveElement, SMTT(30)
  <2> HIDE DEF rest
  <2>3. /\ IsFiniteSet(rest \cup {new})
        /\ \/ Cardinality(rest \cup {new}) = Cardinality(rest)
           \/ Cardinality(rest \cup {new}) = Cardinality(rest) + 1
    BY <2>2, FS_AddElement
  <2>4. IsFiniteSet(rest \cup {new}) /\ Cardinality(rest \cup {new}) <= MaxPending
    BY <1>b, <2>1, <2>2, <2>3
  <2> QED BY <1>a, <1>4, <2>4 DEF PendingBounded, rest
<1> QED BY <1>6, <1>7, <1>8, <1>9 DEF AnswerInv

LEMMA AnswerInvStep ==
  ASSUME GatewayAssumption, AnswerInv, [Next]_vars
  PROVE  AnswerInv'
<1>a. Types /\ PendingUnanswered /\ FutureUnanswered /\ OwnAnswer /\ PendingBounded
  BY DEF AnswerInv
<1>1. ASSUME UNCHANGED <<corr_counter, epoch, pending, answers>>
      PROVE  AnswerInv'
  BY <1>a, <1>1 DEF AnswerInv, Types, PendingUnanswered, FutureUnanswered, OwnAnswer, PendingBounded
<1>2. ASSUME NEW s \in Sessions, SessionStep(s), ~Forward(s)
      PROVE  AnswerInv'
  BY <1>1, <1>2
     DEF SessionStep, Connect, RemoveSession, ReadLoopEnds, HandleAuthenticateSession, BeginRequest,
         BlacklistChecked, UserChecked, EndpointDenied
<1>3. ASSUME NEW i \in Ids, DeliverResponse(i)
      PROVE  AnswerInv'
  <2>1. CASE UNCHANGED <<pending, answers>>
    BY <1>1, <1>3, <2>1 DEF DeliverResponse
  <2>2. ASSUME NEW c \in Cores, c = i[2], NEW e \in pending[c], e.corr = i[3],
               Extract(c, e), answers' = Answer(e, i)
        PROVE  AnswerInv'
    <3>1. i = <<i[1], c, i[3]>>
      BY <2>2, IdParts
    <3>2. e.id = <<epoch, c, i[3]>> /\ answers[e.id] = <<>> /\ e.id \in Ids
      BY <1>a, <2>2 DEF PendingUnanswered, Types, PendingEntries
    <3>3. i[1] = e.id[1] => i = e.id
      BY <3>1, <3>2
    <3>4. UNCHANGED <<corr_counter, epoch>>
      BY <1>3 DEF DeliverResponse
    <3>5. answers' \in [Ids -> Seq(Ids \cup {Timeout})]
      BY <1>a, <2>2, <3>2 DEF Answer, Types
    <3>6. \A k \in Ids : \/ answers'[k] = answers[k]
                         \/ k = e.id /\ answers'[k] = Append(<<>>, i)
      BY <1>a, <2>2, <3>2 DEF Answer, Types
    <3> DEFINE gone == {e}
    <3>7. \A k \in Ids :
            \/ answers'[k] = answers[k]
            \/ \E g \in gone, a \in Ids \cup {Timeout} :
                 /\ g.id = k /\ answers'[k] = Append(<<>>, a)
                 /\ a # Timeout /\ a[1] = k[1] => a = k
      BY <3>3, <3>6
    <3>8. gone \in SUBSET pending[c] /\ pending' = [pending EXCEPT ![c] = @ \ gone]
      BY <2>2 DEF Extract
    <3> HIDE DEF gone
    <3> QED BY <3>4, <3>5, <3>7, <3>8, RemovalKeeps, ZenonT(40)
  <2>3. i[2] \in Cores
    BY IdParts
  <2> QED BY <1>3, <2>1, <2>2, <2>3 DEF DeliverResponse
<1>4. ASSUME NEW c \in Cores, Sweep(c)
      PROVE  AnswerInv'
  <2> DEFINE gone == {e \in pending[c] : e.expired}
  <2>1. \A e \in gone : answers[e.id] = <<>>
    BY <1>a DEF PendingUnanswered
  <2>2. /\ answers' = [i \in Ids |->
             IF \E e \in gone : e.id = i /\ conn[e.session] = "open" THEN Append(answers[i], Timeout)
             ELSE answers[i]]
        /\ pending' = [pending EXCEPT ![c] = @ \ gone] /\ UNCHANGED <<corr_counter, epoch>>
    BY <1>4 DEF Sweep
  <2> HIDE DEF gone
  <2>3. \A i \in Ids : \/ answers'[i] = answers[i]
                       \/ \E e \in gone : e.id = i /\ answers'[i] = Append(<<>>, Timeout)
    BY <2>1, <2>2, Zenon
  <2>4. gone \in SUBSET pending[c]
    BY DEF gone
  <2>5. answers' \in [Ids -> Seq(Ids \cup {Timeout})]
    BY <1>a, <2>2 DEF Types
  <2>6. \A i \in Ids :
          \/ answers'[i] = answers[i]
          \/ \E e \in gone, a \in Ids \cup {Timeout} :
               /\ e.id = i /\ answers'[i] = Append(<<>>, a)
               /\ a # Timeout /\ a[1] = i[1] => a = i
    BY <2>3
  <2> QED BY <2>2, <2>4, <2>5, <2>6, RemovalKeeps, ZenonT(40)
<1>5. ASSUME Restart
      PROVE  AnswerInv'
  <2>1. Types'
    BY <1>a, <1>5 DEF Restart, Types, GatewayAssumption
  <2>2. PendingBounded'
    BY <1>5, FS_EmptySet DEF Restart, PendingBounded, GatewayAssumption
  <2>3. PendingUnanswered' /\ FutureUnanswered' /\ OwnAnswer'
    BY <1>5 DEF Restart, PendingUnanswered, FutureUnanswered, OwnAnswer
  <2> QED BY <2>1, <2>2, <2>3 DEF AnswerInv
<1>6. ASSUME NEW i \in Ids, OnResponse(i)
      PROVE  AnswerInv'
  BY <1>1, <1>6 DEF OnResponse
<1>7. CASE UNCHANGED vars
  BY <1>1, <1>7 DEF vars
<1> QED
  BY <1>2, <1>3, <1>4, <1>5, <1>6, <1>7, ForwardKeeps, ExpireKeeps DEF Next

\* A forwarded request is answered at most once, with its own response unless that comes from
\* before a restart, and the pending map keeps its bound (ResponseDispatcher, PendingRequestsMap).
THEOREM EachAnsweredOnce ==
  ASSUME GatewayAssumption
  PROVE  Spec => []AnsweredOnce
<1>1. Init => AnswerInv
  BY AnswerInvInit
<1>2. AnswerInv /\ [Next]_vars => AnswerInv'
  BY AnswerInvStep
<1>3. AnswerInv => AnsweredOnce
  BY DEF AnswerInv, OwnAnswer, PendingBounded, AnsweredOnce
<1> QED BY <1>1, <1>2, <1>3, PTL DEF Spec
=============================================================================

-------------------------- MODULE AgentBuildProofs --------------------------
(***************************************************************************)
(* What the channel lock guarantees its builds, if no branch has two       *)
(* clients: they exclude each other, and get the lock in order of arrival. *)
(***************************************************************************)
EXTENDS AgentQueueProofs

\* The pid under which a build must have the lock.
Holder(c) == IF pc[c] = "built" THEN Child(c) ELSE Cli(c)
Holds(c) == pc[c] \in {"granted", "started", "unrecorded", "built"} /\ Holder(c) \in alive

\* A build runs between Start and Release only.
ChildInv ==
  ~Merging => \A c \in Clients : Child(c) \in alive => pc[c] \in {"started", "unrecorded", "built"}

HasLock(c) == \E r \in Active : r.branch = branch[c] /\ r.pid = Holder(c)

\* Unless a Release has strayed, a client that is between being granted the lock and the
\* end of its build has the lock, under a live pid.
HoldInv == ~Merging /\ ~Shared /\ ~strayed => \A c \in Clients : Holds(c) => HasLock(c)

\* c waits, or has been refused and may ask again.
InLine(c) == Waits(c) \/ (~Merging /\ pc[c] = "refused")

\* If no branch has two clients, a waiting entry tells when its client came, and a live
\* client that is in line has one.
OrderInv ==
  ~Shared =>
    /\ \A r \in Waiting, c \in Clients : r.branch = branch[c] => r.id = arrival[c]
    /\ \A c \in Clients : InLine(c) /\ Pid(c) \in alive =>
         \E r \in Waiting : r.branch = branch[c] /\ r.pid = Pid(c)

-----------------------------------------------------------------------------
(* Builds exclude each other. *)

LEMMA ChildStep == TypeOK /\ ChildInv /\ [Next]_vars => ChildInv'
<1> SUFFICES ASSUME TypeOK, ChildInv, [Next]_vars, ~Merging', NEW d \in Clients, Child(d) \in alive'
             PROVE  pc'[d] \in {"started", "unrecorded", "built"}
  BY DEF ChildInv
<1> DEFINE Goal == pc'[d] \in {"started", "unrecorded", "built"}
<1>1. ~Merging
  BY ChannelStep DEF Merging
<1>2. Child(d) \in alive => pc[d] \in {"started", "unrecorded", "built"}
  BY <1>1, SMTT(30) DEF ChildInv
<1>3. ASSUME NEW c \in Clients,
             \/ BeginPolling(c) \/ TryPromote(c) \/ UpdatePID(c) \/ Release(c) \/ Cancel(c)
      PROVE  Goal
  BY <1>1, <1>2, <1>3 DEF BeginPolling, TryPromote, Granted, UpdatePID, Release, Finished, Cancel, Waits,
                          Goto, TypeOK
<1>4. ASSUME NEW c \in Clients, ChildExits(c) \/ Exit(c) \/ Kill(c) PROVE Goal
  BY <1>2, <1>4 DEF ChildExits, Exit, Kill
<1>5. ASSUME NEW c \in Clients, StartChild(c) PROVE Goal
  BY <1>2, <1>5, PidsDiffer DEF StartChild, Goto, TypeOK
<1>6. ASSUME NEW c \in Clients, NEW b \in Branches, Register(c, b) \/ TryAcquire(c, b) PROVE Goal
  BY <1>2, <1>6 DEF Register, TryAcquire, Asks, Goto, TypeOK
<1>7. CASE CleanupStale \/ UNCHANGED vars
  BY <1>2, <1>7, SMTT(30) DEF CleanupStale, vars
<1>8. CASE KillDaemon
  <2>1. Child(d) \in alive
    BY <1>8, PidsDiffer DEF KillDaemon
  <2>2. QED
    BY <1>1, <1>2, <1>8, <2>1 DEF KillDaemon, Waits, Finished
<1>9. QED
  BY <1>3, <1>4, <1>5, <1>6, <1>7, <1>8, SMTT(30) DEF Next, ClientStep

\* A holder's entry survives a step that keeps live entries, unless it is the entry of the
\* client that moves.
LEMMA HoldKept ==
  ASSUME NEW d \in Clients, HasLock(d), Holds(d),
         \A r \in Active : r.pid \in alive => r \in rows',
         branch'[d] = branch[d], Holder(d)' = Holder(d)
  PROVE  HasLock(d)'
<1>1. PICK r \in Active : r.branch = branch[d] /\ r.pid = Holder(d)
  BY DEF HasLock
<1>2. r \in rows'
  BY <1>1 DEF Holds
<1>3. r \in Active'
  BY <1>2 DEF Active
<1>4. QED
  BY <1>1, <1>3 DEF HasLock

\* Nobody has the lock, and then one client does.
LEMMA HoldGiven ==
  ASSUME TypeOK, HoldInv, ~Merging, ~Shared, ~strayed, Active = {}, NEW c \in Clients,
         alive' = alive, \A d \in Clients : d # c => pc'[d] = pc[d],
         NEW d \in Clients, Holds(d)'
  PROVE  d = c
<1> SUFFICES ASSUME d # c PROVE FALSE
  OBVIOUS
<1>1. Holds(d)
  BY DEF Holds, Holder
<1>2. QED
  BY <1>1 DEF HoldInv, HasLock

LEMMA HoldStep ==
  TypeOK /\ TableInv /\ OwnerInv /\ ChildInv /\ HoldInv /\ [Next]_vars => HoldInv'
<1> SUFFICES ASSUME TypeOK, TableInv, OwnerInv, ChildInv, HoldInv, [Next]_vars,
                    ~Merging', ~Shared, ~strayed', NEW d \in Clients, Holds(d)'
             PROVE  HasLock(d)'
  BY DEF HoldInv
<1>1. ~Merging
  BY ChannelStep DEF Merging
<1>2. ~strayed
  BY Zenon DEF Next, ClientStep, vars, BeginPolling, TryPromote, StartChild, UpdatePID, ChildExits,
         Release, Exit, Cancel, Kill, Register, TryAcquire, CleanupStale, KillDaemon
<1>3. Holds(d) => HasLock(d)
  BY <1>1, <1>2 DEF HoldInv
<1>4. pc'[d] \in {"granted", "started", "unrecorded", "built"} /\ Holder(d)' \in alive'
  BY DEF Holds
<1>5. ASSUME NEW c \in Clients, BeginPolling(c) PROVE HasLock(d)'
  <2>1. pc'[d] = pc[d] /\ alive' = alive /\ branch' = branch /\ rows' = rows \ Stale
    BY <1>4, <1>5, SMTT(30) DEF BeginPolling, Goto, TypeOK
  <2>2. Holder(d)' = Holder(d) /\ Holds(d)
    BY <1>4, <2>1 DEF Holder, Holds
  <2>3. \A r \in Active : r.pid \in alive => r \in rows'
    BY <2>1 DEF Active, Stale
  <2>4. QED
    BY <1>3, <2>1, <2>2, <2>3, HoldKept
<1>6. ASSUME NEW c \in Clients, TryPromote(c) PROVE HasLock(d)'
  <2>1. PICK r \in rows : IsFirst(r) /\ r.branch = branch[c] /\ Promote(r)
    BY <1>6 DEF TryPromote
  <2>2. /\ Active = {} /\ next_id' = next_id /\ alive' = alive /\ branch' = branch
        /\ \A g \in Clients : g # c => pc'[g] = pc[g]
        /\ pc'[c] \in {"granted", "gone"}
    BY <1>6 DEF TryPromote, Granted, Goto, TypeOK
  <2>3. d = c
    BY <1>1, <1>2, <2>2, HoldGiven
  <2>4. r \in Row /\ r \in Waiting
    BY <2>1 DEF TypeOK, Row, IsFirst
  <2>5. r.pid = Cli(c)
    BY <1>1, <2>1, <2>4, SMTT(30) DEF OwnerInv
  <2>6. Activated(r) \in Active'
    BY <2>1, <2>2, TablePromotes, SMTT(30)
  <2>7. Activated(r).branch = branch'[c] /\ Activated(r).pid = Cli(c)
    BY <2>1, <2>2, <2>4, <2>5, ActivatedFields, SMTT(30)
  <2>8. Holder(d)' = Cli(c)
    BY <1>4, <2>2, <2>3 DEF Holder
  <2>9. QED
    BY <2>3, <2>6, <2>7, <2>8 DEF HasLock
<1>7. ASSUME NEW c \in Clients, StartChild(c) PROVE HasLock(d)'
  <2>1. rows' = rows /\ branch' = branch /\ alive' \subseteq alive \cup {Child(c)} /\ pc[c] = "granted"
    BY <1>7 DEF StartChild
  <2>2. CASE d # c
    <3>1. pc'[d] = pc[d]
      BY <1>7, <2>2 DEF StartChild, Goto, TypeOK
    <3>2. Holder(d)' = Holder(d) /\ Holder(d) # Child(c)
      BY <2>2, <3>1, PidsDiffer DEF Holder
    <3>3. Holds(d)
      BY <1>4, <2>1, <3>1, <3>2 DEF Holds
    <3>4. QED
      BY <1>3, <2>1, <3>2, <3>3, HoldKept DEF Active
  <2>3. CASE d = c
    <3>1. Child(c) \notin alive
      BY <1>1, <2>1 DEF ChildInv
    <3>2. CASE pc' = [pc EXCEPT ![c] = "built"] /\ alive' = alive
      BY <1>4, <2>3, <3>1, <3>2, SMTT(30) DEF Holder, TypeOK
    <3>3. CASE pc' = [pc EXCEPT ![c] = "started"]
      <4>1. Holder(d) = Cli(c) /\ Holder(d)' = Cli(c)
        BY <2>1, <2>3, <3>3 DEF Holder, TypeOK
      <4>2. Holds(d)
        BY <1>7, <2>1, <2>3, <4>1 DEF Holds, StartChild
      <4>3. QED
        BY <1>3, <2>1, <4>1, <4>2, HoldKept DEF Active
    <3>4. QED
      BY <1>7, <3>2, <3>3 DEF StartChild, Goto
  <2>4. QED
    BY <2>2, <2>3
<1>8. ASSUME NEW c \in Clients, UpdatePID(c) PROVE HasLock(d)'
  <2>1. /\ alive' = alive /\ branch' = branch /\ pc[c] = "started" /\ Cli(c) \in alive
        /\ pc' = [pc EXCEPT ![c] = "built"]
    BY <1>8 DEF UpdatePID, Goto
  <2>2. CASE d = c
    <3>1. Holds(d)
      BY <2>1, <2>2 DEF Holds, Holder
    <3>2. PICK r \in Active : r.branch = branch[c]
      BY <1>3, <2>2, <3>1 DEF HasLock
    <3>3. \E q \in Active' : q.branch = branch[c] /\ q.pid = Child(c)
      BY <1>8, <3>2, TablePasses
    <3>4. Holder(d)' = Child(c)
      BY <2>1, <2>2, SMTT(30) DEF Holder, TypeOK
    <3>5. QED
      BY <2>1, <2>2, <3>3, <3>4 DEF HasLock
  <2>3. CASE d # c
    <3>1. pc'[d] = pc[d]
      BY <2>1, <2>3 DEF TypeOK
    <3>2. Holder(d)' = Holder(d) /\ Holds(d)
      BY <1>4, <2>1, <3>1 DEF Holder, Holds
    <3>3. PICK r \in Active : r.branch = branch[d] /\ r.pid = Holder(d)
      BY <1>3, <3>2 DEF HasLock
    <3>4. branch[d] # branch[c]
      BY <2>1, <2>3, SMTT(30) DEF OwnerInv
    <3>5. r \in rows'
      BY <1>8, <3>3, <3>4, TablePasses DEF Active
    <3>6. r \in Active'
      BY <3>3, <3>5 DEF Active
    <3>7. QED
      BY <2>1, <3>2, <3>3, <3>6 DEF HasLock
  <2>4. QED
    BY <2>2, <2>3
<1>9. ASSUME NEW c \in Clients, ChildExits(c) \/ Exit(c) \/ Kill(c) PROVE HasLock(d)'
  <2>1. UNCHANGED <<rows, pc, branch>> /\ alive' \subseteq alive
    BY <1>9 DEF ChildExits, Exit, Kill
  <2>2. Holder(d)' = Holder(d) /\ Holds(d)
    BY <1>4, <2>1 DEF Holder, Holds
  <2>3. QED
    BY <1>3, <2>1, <2>2, HoldKept DEF Active
<1>10. ASSUME NEW c \in Clients, Release(c) PROVE HasLock(d)'
  <2>1. /\ alive' = alive /\ branch' = branch /\ pc' = [pc EXCEPT ![c] = "done"]
        /\ pc[c] \in {"built", "unrecorded"}
        /\ \A r \in Active : r.branch = branch[c]
    BY <1>1, <1>10, Zenon DEF Release, Finished, Goto
  <2>2. d # c /\ pc'[d] = pc[d]
    BY <1>4, <2>1 DEF TypeOK
  <2>3. Holds(d)
    BY <1>4, <2>1, <2>2 DEF Holds, Holder
  <2>4. PICK r \in Active : r.branch = branch[d]
    BY <1>3, <2>3 DEF HasLock
  <2>5. branch[d] = branch[c] /\ branch[c] # NoBranch
    BY <2>1, <2>4 DEF OwnerInv
  <2>6. QED
    BY <2>2, <2>5 DEF OwnerInv
<1>11. ASSUME NEW c \in Clients, Cancel(c) PROVE HasLock(d)'
  <2>1. branch' = branch /\ alive' = alive /\ Active \subseteq rows' /\ pc' = [pc EXCEPT ![c] = "failed"]
    BY <1>11 DEF Cancel, Goto, Active
  <2>2. pc'[d] = pc[d]
    BY <1>4, <2>1 DEF TypeOK
  <2>3. Holder(d)' = Holder(d) /\ Holds(d)
    BY <1>4, <2>1, <2>2 DEF Holder, Holds
  <2>4. QED
    BY <1>3, <2>1, <2>3, HoldKept
<1>12. CASE CleanupStale \/ UNCHANGED vars
  <2>1. UNCHANGED <<pc, branch, alive>> /\ \A r \in Active : r.pid \in alive => r \in rows'
    BY <1>12 DEF CleanupStale, vars, Active, Stale
  <2>2. Holder(d)' = Holder(d) /\ Holds(d)
    BY <1>4, <2>1 DEF Holder, Holds
  <2>3. QED
    BY <1>3, <2>1, <2>2, HoldKept
<1>13. CASE KillDaemon
  <2>1. branch' = branch /\ Active \subseteq rows'
    BY <1>13, SMTT(30) DEF KillDaemon, Active
  <2>2. pc'[d] = pc[d] \/ (pc[d] = "started" /\ pc'[d] = "unrecorded")
    BY <1>1, <1>4, <1>13, SMTT(30) DEF KillDaemon, Waits, Finished
  <2>3. Holder(d)' = Holder(d)
    BY <2>2, SMTT(30) DEF Holder
  <2>4. Holder(d) \in alive
    BY <1>4, <1>13, <2>3, PidsDiffer, SMTT(30) DEF KillDaemon, Holder
  <2>5. Holds(d)
    BY <1>4, <2>2, <2>4 DEF Holds
  <2>6. QED
    BY <1>3, <2>1, <2>3, <2>5, HoldKept, SMTT(30)
<1>14. ASSUME NEW c \in Clients, NEW b \in Branches, Register(c, b) \/ TryAcquire(c, b),
              pc'[c] \in {"registered", "refused"}
       PROVE  HasLock(d)'
  <2>1. alive' = alive /\ \A g \in Clients : g # c => pc'[g] = pc[g] /\ branch'[g] = branch[g]
    BY <1>14, SMTT(30) DEF Register, TryAcquire, Asks, Goto, TypeOK
  <2>2. rows \subseteq rows'
    BY <1>14 DEF Register, TryAcquire, InsertWaiting, Insert, Goto, TypeOK
  <2>3. d # c
    BY <1>4, <1>14, SMTT(30)
  <2>4. Holder(d)' = Holder(d) /\ Holds(d)
    BY <1>4, <2>1, <2>3 DEF Holder, Holds
  <2>5. QED
    BY <1>3, <2>1, <2>2, <2>3, <2>4, HoldKept, SMTT(30) DEF Active
<1>15. ASSUME NEW c \in Clients, NEW b \in Branches, TryAcquire(c, b), pc'[c] = "granted"
       PROVE  HasLock(d)'
  <2>1. alive' = alive /\ \A g \in Clients : g # c => pc'[g] = pc[g]
    BY <1>15 DEF TryAcquire, Goto, TypeOK
  <2>2. branch'[c] = b /\ Holder(c)' = Cli(c)
    BY <1>15 DEF TryAcquire, Asks, Holder, TypeOK
  <2>3. ASSUME rows = {}, Insert(c, b, "ACTIVE") PROVE HasLock(d)'
    <3>1. d = c
      BY <1>1, <1>2, <2>1, <2>3, HoldGiven DEF Active
    <3>2. [id |-> next_id, branch |-> b, pid |-> Cli(c), status |-> "ACTIVE"] \in Active'
      BY <1>1, <2>3 DEF Insert, Pid, Active
    <3>3. QED
      BY <2>2, <3>1, <3>2, SMTT(30) DEF HasLock
  <2>4. ASSUME Active = {}, NEW r \in rows, IsFirst(r), r.branch = b, Promote(r), next_id' = next_id
        PROVE  HasLock(d)'
    <3>1. d = c
      BY <1>1, <1>2, <2>1, <2>4, HoldGiven
    <3>2. r \in Row /\ r \in Waiting
      BY <2>4, SMTT(30) DEF TypeOK, Row, IsFirst
    <3>3. branch[c] = b
      BY <1>15, <2>4, NewClient, Zenon DEF TryAcquire
    <3>4. r.pid = Cli(c)
      BY <1>1, <2>4, <3>2, <3>3, Zenon DEF OwnerInv
    <3>5. Activated(r) \in Active'
      BY <2>4, TablePromotes
    <3>6. Activated(r).branch = b /\ Activated(r).pid = Cli(c)
      BY <2>4, <3>2, <3>4, ActivatedFields
    <3>7. QED
      BY <2>2, <3>1, <3>5, <3>6 DEF HasLock
  <2>5. QED
    BY <1>15, <2>3, <2>4 DEF TryAcquire, Goto, TypeOK
<1>16. ASSUME NEW c \in Clients, NEW b \in Branches, Register(c, b) \/ TryAcquire(c, b)
       PROVE  HasLock(d)'
  <2>1. pc'[c] \in {"registered", "refused", "granted"}
    BY <1>16 DEF Register, TryAcquire, Goto, TypeOK
  <2>2. Register(c, b) => pc'[c] = "registered"
    BY DEF Register, Goto, TypeOK
  <2>3. QED
    BY <1>14, <1>15, <1>16, <2>1, <2>2
<1>17. QED
  BY <1>5, <1>6, <1>7, <1>8, <1>9, <1>10, <1>11, <1>12, <1>13, <1>16 DEF Next, ClientStep

\* As long as no CLI dies before the pid of its build is recorded, and no Release frees
\* the lock of another branch, builds of different branches exclude each other, for any
\* number of them and through any kills, cancellations and cleanups.
THEOREM OneBuildAtATime == Spec => []BuildsExclusiveUnlessStrayed
<1> DEFINE IInv == TypeOK /\ TableInv /\ OwnerInv /\ ChildInv /\ HoldInv
<1>1. Init => IInv
  <2> SUFFICES ASSUME Init PROVE OwnerInv /\ ChildInv /\ HoldInv
    BY InvInit, SMTT(30)
  <2>1. OwnerInv
    BY SMTT(30) DEF Init, OwnerInv
  <2>2. ChildInv /\ HoldInv
    BY PidsDiffer, Zenon DEF Init, ChildInv, HoldInv, Holds
  <2>3. QED
    BY <2>1, <2>2
<1>2. IInv /\ [Next]_vars => IInv'
  BY TypeStep, TableStep, OwnerStep, ChildStep, HoldStep, SMTT(30)
<1>3. IInv => BuildsExclusiveUnlessStrayed
  <2> SUFFICES ASSUME IInv, ~Merging, ~Shared, ~strayed, \A c \in Clients : ~Orphan(c),
                      NEW c \in Clients, NEW d \in Clients, Working(c), Working(d)
               PROVE  c = d
    BY DEF BuildsExclusiveUnlessStrayed, Alone
  <2>1. ASSUME NEW g \in Clients, Working(g) PROVE Holds(g)
    BY <2>1 DEF Working, ChildInv, Orphan, Holds, Holder
  <2>2. PICK r \in Active : r.branch = branch[c]
    BY <2>1 DEF HoldInv, HasLock
  <2>3. PICK q \in Active : q.branch = branch[d]
    BY <2>1 DEF HoldInv, HasLock
  <2>4. r = q /\ r.branch \in Branches
    BY SMTT(30) DEF TableInv, TypeOK, Active
  <2>5. QED
    BY <2>2, <2>3, <2>4, QueueAssumption, ZenonT(40) DEF OwnerInv
<1>4. QED
  BY <1>1, <1>2, <1>3, PTL DEF Spec

-----------------------------------------------------------------------------
(* The order of the queue, if no branch has two clients. *)

\* OrderInv is kept by a step that lets nobody in and keeps the entries of those in line.
LEMMA OrderShrinks ==
  ASSUME OrderInv, ~Shared, Waiting' \subseteq Waiting, branch' = branch, arrival' = arrival,
         \A d \in Clients : InLine(d)' /\ Pid(d)' \in alive' =>
           /\ InLine(d) /\ Pid(d)' = Pid(d) /\ Pid(d) \in alive
           /\ \A r \in Waiting : r.branch = branch[d] /\ r.pid = Pid(d) => r \in Waiting'
  PROVE  OrderInv'
  BY SMTT(30) DEF OrderInv

\* An entry is inserted for a client that comes with a branch of its own.
LEMMA OrderGrows ==
  ASSUME TypeOK, OwnerInv, OrderInv, ~Shared, NEW c \in Clients, NEW b \in Branches,
         Asks(c, b), Insert(c, b, "WAITING"), alive' = alive, daemon' = daemon, channel' = channel,
         \A d \in Clients : d # c => pc'[d] = pc[d]
  PROVE  OrderInv'
<1> DEFINE e == [id |-> next_id, branch |-> b, pid |-> Pid(c), status |-> "WAITING"]
<1>1. /\ e.id = next_id /\ e.branch = b /\ e.pid = Pid(c) /\ e.status = "WAITING"
      /\ rows' = rows \cup {e}
  BY DEF Insert
<1> HIDE DEF e
<1>2. Waiting' = Waiting \cup {e}
  BY <1>1 DEF Waiting
<1>3. /\ \A r \in Waiting : r.branch # b
      /\ \A d \in Clients : branch'[d] = IF d = c THEN b ELSE branch[d]
      /\ \A d \in Clients : branch[d] # b
  BY NewClient DEF Waiting
<1>4. \A d \in Clients : arrival'[d] = IF d = c THEN next_id ELSE arrival[d]
  BY SMTT(30) DEF Asks, TypeOK
<1>5. \A d \in Clients : Pid(d)' = Pid(d) /\ (d # c => InLine(d)' = InLine(d))
  BY SMTT(30) DEF Pid, Merging, InLine, Waits
<1>6. \A r \in Waiting', d \in Clients : r.branch = branch'[d] => r.id = arrival'[d]
  BY <1>1, <1>2, <1>3, <1>4, SMTT(30) DEF OrderInv
<1>7. ASSUME NEW d \in Clients, InLine(d)', Pid(d)' \in alive'
      PROVE  \E r \in Waiting' : r.branch = branch'[d] /\ r.pid = Pid(d)'
  <2>1. CASE d = c
    <3>1. branch'[d] = b
      BY <1>3, <2>1, Zenon
    <3>2. Pid(d)' = Pid(c)
      BY <1>5, <2>1, Zenon
    <3>3. e \in Waiting' /\ e.branch = b /\ e.pid = Pid(c)
      BY <1>1, <1>2, Zenon
    <3>4. QED
      BY <3>1, <3>2, <3>3, Zenon
  <2>2. CASE d # c
    <3>1. InLine(d) /\ Pid(d) \in alive /\ branch'[d] = branch[d] /\ Pid(d)' = Pid(d)
      BY <1>3, <1>5, <1>7, <2>2, SMTT(30)
    <3>2. PICK r \in Waiting : r.branch = branch[d] /\ r.pid = Pid(d)
      BY <3>1, SMTT(30) DEF OrderInv
    <3>3. r \in Waiting'
      BY <1>2, <3>2, Zenon
    <3>4. QED
      BY <3>1, <3>2, <3>3, Zenon
  <2>3. QED
    BY <2>1, <2>2, Zenon
<1>8. QED
  BY <1>6, <1>7, SMTT(30) DEF OrderInv

\* The first in line gets the lock and leaves the line.
LEMMA OrderPromotes ==
  ASSUME TypeOK, TableInv, OwnerInv, OrderInv, ~Shared, Active = {}, NEW r \in rows, Promote(r),
         NEW c \in Clients, r.branch = branch[c], ~InLine(c)', pc[c] # "idle", next_id' = next_id,
         UNCHANGED <<alive, daemon, channel, branch, arrival>>,
         \A d \in Clients : d # c => pc'[d] = pc[d]
  PROVE  OrderInv'
<1>1. Waiting' = Waiting \ {r}
  BY TablePromotes, SMTT(30)
<1>2. \A d \in Clients : d # c => branch[d] # branch[c]
  BY SMTT(30) DEF OwnerInv
<1>3. \A d \in Clients : Pid(d)' = Pid(d) /\ (d # c => InLine(d)' = InLine(d))
  BY DEF Pid, Merging, InLine, Waits
<1>4. QED
  BY <1>1, <1>2, <1>3, OrderShrinks

LEMMA OrderStep ==
  TypeOK /\ TableInv /\ OwnerInv /\ OrderInv /\ [Next]_vars => OrderInv'
<1> SUFFICES ASSUME TypeOK, TableInv, OwnerInv, OrderInv, [Next]_vars, ~Shared PROVE OrderInv'
  BY DEF OrderInv
<1>1. channel' = channel
  BY ChannelStep, SMTT(30)
<1>2. ASSUME NEW c \in Clients, BeginPolling(c) PROVE OrderInv'
  <2>1. UNCHANGED <<branch, arrival, alive, daemon>> /\ rows' = rows \ Stale
    BY <1>2 DEF BeginPolling
  <2>2. \A d \in Clients : (InLine(d)' => InLine(d)) /\ Pid(d)' = Pid(d)
    BY <1>1, <1>2, <2>1 DEF BeginPolling, Goto, InLine, Waits, Pid, Merging, TypeOK
  <2>3. Waiting' \subseteq Waiting /\ \A r \in Waiting : r.pid \in alive => r \in Waiting'
    BY <2>1, SMTT(30) DEF Waiting, Stale
  <2>4. QED
    BY <2>1, <2>2, <2>3, OrderShrinks
<1>3. CASE CleanupStale \/ UNCHANGED vars
  <2>1. UNCHANGED <<pc, branch, arrival, alive, daemon>> /\ (rows' = rows \ Stale \/ rows' = rows)
    BY <1>3 DEF CleanupStale, vars
  <2>2. \A d \in Clients : InLine(d)' = InLine(d) /\ Pid(d)' = Pid(d)
    BY <1>1, <2>1 DEF InLine, Waits, Pid, Merging
  <2>3. Waiting' \subseteq Waiting /\ \A r \in Waiting : r.pid \in alive => r \in Waiting'
    BY <2>1, SMTT(30) DEF Waiting, Stale
  <2>4. QED
    BY <2>1, <2>2, <2>3, OrderShrinks
<1>4. ASSUME NEW c \in Clients, TryPromote(c) PROVE OrderInv'
  <2>1. /\ Active = {} /\ pc[c] # "idle" /\ UNCHANGED <<next_id, alive, daemon, branch, arrival>>
        /\ \A d \in Clients : d # c => pc'[d] = pc[d]
    BY <1>4 DEF TryPromote, Granted, Goto, TypeOK
  <2>2. ~InLine(c)'
    BY <1>4, SMTT(30) DEF TryPromote, Granted, Goto, InLine, Waits, TypeOK
  <2>3. PICK r \in rows : r.branch = branch[c] /\ Promote(r)
    BY <1>4, SMTT(30) DEF TryPromote
  <2>4. QED
    BY <1>1, <2>1, <2>2, <2>3, OrderPromotes
<1>5. ASSUME NEW c \in Clients, StartChild(c) \/ ChildExits(c) \/ Exit(c) \/ Kill(c) PROVE OrderInv'
  <2>1. UNCHANGED <<rows, branch, arrival, daemon>>
    BY <1>5, SMTT(30) DEF StartChild, ChildExits, Exit, Kill
  <2>2. \A d \in Clients : (InLine(d)' => InLine(d)) /\ Pid(d)' = Pid(d)
    BY <1>1, <1>5, <2>1, SMTT(30) DEF StartChild, ChildExits, Exit, Kill, Goto, InLine, Waits, Pid, Merging, TypeOK
  <2>3. \A d \in Clients : Pid(d) \in alive' => Pid(d) \in alive
    BY <1>5, PidsDiffer, SMTT(30) DEF StartChild, ChildExits, Exit, Kill, Pid
  <2>4. QED
    BY <2>1, <2>2, <2>3, OrderShrinks DEF Waiting
<1>6. ASSUME NEW c \in Clients, UpdatePID(c) PROVE OrderInv'
  <2>1. UNCHANGED <<branch, arrival, alive, daemon>> /\ Waiting' = Waiting
    BY <1>6, TablePasses, SMTT(30) DEF UpdatePID
  <2>2. \A d \in Clients : (InLine(d)' => InLine(d)) /\ Pid(d)' = Pid(d)
    BY <1>1, <1>6, <2>1 DEF UpdatePID, Goto, InLine, Waits, Pid, Merging, TypeOK
  <2>3. QED
    BY <2>1, <2>2, OrderShrinks, SMTT(30)
<1>7. ASSUME NEW c \in Clients, Release(c) PROVE OrderInv'
  <2>1. UNCHANGED <<branch, arrival, alive, daemon>> /\ Waiting' = Waiting
    BY <1>7 DEF Release, Waiting, Active
  <2>2. \A d \in Clients : (InLine(d)' => InLine(d)) /\ Pid(d)' = Pid(d)
    BY <1>1, <1>7, <2>1, SMTT(30) DEF Release, Goto, InLine, Waits, Pid, Merging, TypeOK
  <2>3. QED
    BY <2>1, <2>2, OrderShrinks
<1>8. ASSUME NEW c \in Clients, Cancel(c) PROVE OrderInv'
  <2>1. UNCHANGED <<branch, arrival, alive, daemon>> /\ pc' = [pc EXCEPT ![c] = "failed"] /\ Waits(c)
    BY <1>8 DEF Cancel, Goto
  <2>2. Waiting' \subseteq Waiting /\ \A r \in Waiting : r.branch # branch[c] => r \in Waiting'
    BY <1>8 DEF Cancel, Waiting
  <2>3. \A d \in Clients : (InLine(d)' => InLine(d) /\ d # c) /\ Pid(d)' = Pid(d)
    BY <1>1, <2>1, SMTT(30) DEF InLine, Waits, Pid, Merging, TypeOK
  <2>4. \A d \in Clients : d # c => branch[d] # branch[c]
    BY <2>1, SMTT(30) DEF OwnerInv, Waits
  <2>5. QED
    BY <2>1, <2>2, <2>3, <2>4, OrderShrinks, SMTT(30)
<1>9. CASE KillDaemon
  <2>1. UNCHANGED <<branch, arrival>> /\ Waiting' \subseteq Waiting
    BY <1>9, SMTT(30) DEF KillDaemon, Waiting
  <2>2. PICK cancelled \in SUBSET {c \in Clients : Waits(c)} :
          rows' = {r \in rows : r \in Active \/ \A c \in cancelled : r.branch # branch[c]}
    BY <1>9 DEF KillDaemon
  <2>3. ASSUME NEW d \in Clients, InLine(d)', Pid(d)' \in alive'
        PROVE  /\ InLine(d) /\ Pid(d)' = Pid(d) /\ Pid(d) \in alive
               /\ \A r \in Waiting : r.branch = branch[d] /\ r.pid = Pid(d) => r \in Waiting'
    <3>1. ~Merging /\ pc[d] = "refused"
      BY <1>1, <1>9, <2>3, SMTT(30) DEF KillDaemon, InLine, Waits, Finished, Merging
    <3>2. InLine(d) /\ Pid(d)' = Pid(d) /\ Pid(d) \in alive
      BY <1>1, <1>9, <2>3, <3>1, PidsDiffer, SMTT(30) DEF KillDaemon, InLine, Pid, Merging
    <3>3. \A c \in cancelled : branch[c] # branch[d]
      BY <2>2, <3>1, SMTT(30) DEF OwnerInv, Waits
    <3>4. \A r \in Waiting : r.branch = branch[d] => r \in Waiting'
      BY <2>2, <3>3, SMTT(30) DEF Waiting
    <3>5. QED
      BY <3>2, <3>4, SMTT(30)
  <2>4. QED
    BY <2>1, <2>3, OrderShrinks, SMTT(30)
<1>10. ASSUME NEW c \in Clients, NEW b \in Branches, Register(c, b) PROVE OrderInv'
  <2>1. Asks(c, b) /\ Insert(c, b, "WAITING")
    BY <1>10, NewClient, Zenon DEF Register, InsertWaiting, Waiting
  <2>2. alive' = alive /\ daemon' = daemon /\ \A d \in Clients : d # c => pc'[d] = pc[d]
    BY <1>10 DEF Register, Goto, TypeOK
  <2>3. QED
    BY <1>1, <2>1, <2>2, OrderGrows, SMTT(30)
<1>11. ASSUME NEW c \in Clients, NEW b \in Branches, TryAcquire(c, b) PROVE OrderInv'
  <2>1. UNCHANGED <<alive, daemon>> /\ ~Merging /\ \A d \in Clients : d # c => pc'[d] = pc[d]
    BY <1>11, SMTT(30) DEF TryAcquire, Goto, TypeOK
  <2>2. \/ Asks(c, b)
        \/ pc[c] = "refused" /\ Cli(c) \in alive /\ b = branch[c] /\ UNCHANGED <<branch, arrival>>
    BY <1>11, ZenonT(40) DEF TryAcquire
  <2>3. \A d \in Clients : Pid(d)' = Pid(d)
    BY <1>1, <2>1 DEF Pid, Merging
  <2>4. ASSUME InsertWaiting(c, b), pc'[c] = "refused" PROVE OrderInv'
    <3>1. CASE Asks(c, b)
      <4>1. Insert(c, b, "WAITING")
        BY <2>4, <3>1, NewClient, SMTT(30) DEF InsertWaiting, Waiting
      <4>2. QED
        BY <1>1, <2>1, <3>1, <4>1, OrderGrows
    <3>2. CASE pc[c] = "refused" /\ Cli(c) \in alive /\ b = branch[c] /\ UNCHANGED <<branch, arrival>>
      <4>1. InLine(c) /\ Pid(c) \in alive
        BY <2>1, <3>2, SMTT(30) DEF InLine, Pid
      <4>2. rows' = rows
        BY <2>4, <3>2, <4>1 DEF OrderInv, InsertWaiting
      <4>3. \A d \in Clients : InLine(d)' => InLine(d)
        BY <1>1, <2>1, <4>1 DEF InLine, Waits, Merging
      <4>4. QED
        BY <2>1, <2>3, <3>2, <4>2, <4>3, OrderShrinks DEF Waiting
    <3>3. QED
      BY <2>2, <3>1, <3>2
  <2>5. ASSUME Active = {}, NEW r \in rows, r.branch = b, Promote(r), next_id' = next_id,
               pc'[c] = "granted"
        PROVE  OrderInv'
    <3>1. pc[c] # "idle" /\ b = branch[c] /\ UNCHANGED <<branch, arrival>>
      BY <2>2, <2>5, NewClient
    <3>2. ~InLine(c)'
      BY <2>5, SMTT(30) DEF InLine, Waits
    <3>3. QED
      BY <1>1, <2>1, <2>5, <3>1, <3>2, OrderPromotes, SMTT(30)
  <2>6. ASSUME rows = {}, Insert(c, b, "ACTIVE"), pc'[c] = "granted" PROVE OrderInv'
    <3>1. Waiting' = {}
      BY <2>6 DEF Insert, Waiting
    <3>2. ASSUME NEW d \in Clients, InLine(d)', Pid(d)' \in alive' PROVE FALSE
      <4>1. d # c
        BY <2>6, <3>2, SMTT(30) DEF InLine, Waits
      <4>2. InLine(d) /\ Pid(d) \in alive
        BY <1>1, <2>1, <2>3, <3>2, <4>1 DEF InLine, Waits, Merging
      <4>3. QED
        BY <2>6, <4>2 DEF OrderInv, Waiting
    <3>3. QED
      BY <3>1, <3>2 DEF OrderInv
  <2>7. QED
    BY <1>11, <2>4, <2>5, <2>6 DEF TryAcquire, Goto, TypeOK
<1>12. QED
  BY <1>2, <1>3, <1>4, <1>5, <1>6, <1>7, <1>8, <1>9, <1>10, <1>11, SMTT(30) DEF Next, ClientStep

\* The first entry of the table is not younger than that of anybody who waits.
LEMMA FirstIsOldest ==
  ASSUME TypeOK, TableInv, OwnerInv, OrderInv, ~Shared, NEW c \in Clients, NEW d \in Clients, c # d,
         Waits(d), Pid(d) \in alive, NEW r \in rows, IsFirst(r), r.branch = branch[c]
  PROVE  arrival[c] < arrival[d]
<1>1. PICK q \in Waiting : q.branch = branch[d]
  BY SMTT(30) DEF OrderInv, InLine
<1>2. r \in Waiting /\ r.id <= q.id
  BY <1>1, SMTT(30) DEF IsFirst
<1>3. r.id = arrival[c] /\ q.id = arrival[d]
  BY <1>1, <1>2, SMTT(30) DEF OrderInv
<1>4. branch[c] # branch[d]
  BY SMTT(30) DEF OwnerInv, Waits
<1>5. r.id # q.id
  BY <1>1, <1>2, <1>4 DEF TableInv, Waiting
<1>6. r.id \in Nat /\ q.id \in Nat
  BY <1>1, <1>2, SMTT(30) DEF TypeOK, Waiting
<1>7. QED
  BY <1>2, <1>3, <1>5, <1>6, SMTT(30)

LEMMA OvertakingStep ==
  ASSUME TypeOK, TableInv, OwnerInv, OrderInv, ~Shared, [Next]_vars
  PROVE  NotOvertaken
<1> SUFFICES ASSUME NEW c \in Clients, NEW d \in Clients, pc[c] # "granted", pc'[c] = "granted",
                    c # d, Waits(d), Pid(d) \in alive
             PROVE  arrival'[c] < arrival[d]
  BY SMTT(30) DEF NotOvertaken
<1>1. TryPromote(c) \/ \E b \in Branches : TryAcquire(c, b)
  <2>1. ASSUME NEW g \in Clients,
               \/ BeginPolling(g) \/ StartChild(g) \/ UpdatePID(g) \/ ChildExits(g) \/ Release(g)
               \/ Exit(g) \/ Cancel(g) \/ Kill(g)
        PROVE  FALSE
    BY <2>1, Zenon DEF BeginPolling, StartChild, UpdatePID, ChildExits, Release, Exit, Cancel, Kill, Goto, TypeOK
  <2>2. ASSUME NEW g \in Clients, NEW b \in Branches, Register(g, b) PROVE FALSE
    BY <2>2 DEF Register, Goto, TypeOK
  <2>3. ~CleanupStale /\ ~UNCHANGED vars
    BY SMTT(30) DEF CleanupStale, vars
  <2>4. ~KillDaemon
    BY DEF KillDaemon
  <2>5. ASSUME NEW g \in Clients, TryPromote(g) PROVE g = c
    BY <2>5, SMTT(30) DEF TryPromote, Granted, Goto, TypeOK
  <2>6. ASSUME NEW g \in Clients, NEW b \in Branches, TryAcquire(g, b) PROVE g = c
    BY <2>6, SMTT(30) DEF TryAcquire, Goto, TypeOK
  <2>7. QED
    BY <2>1, <2>2, <2>3, <2>4, <2>5, <2>6, Zenon DEF Next, ClientStep
<1>2. CASE TryPromote(c)
  BY <1>2, FirstIsOldest, Zenon DEF TryPromote
<1>3. ASSUME NEW b \in Branches, TryAcquire(c, b) PROVE arrival'[c] < arrival[d]
  <2>1. rows # {}
    BY SMTT(30) DEF OrderInv, InLine, Waiting
  <2>2. PICK r \in rows : IsFirst(r) /\ r.branch = b
    BY <1>3, <2>1, SMTT(30) DEF TryAcquire, Goto, TypeOK
  <2>3. b = branch[c] /\ arrival' = arrival
    BY <1>3, <2>2, NewClient, Zenon DEF TryAcquire
  <2>4. QED
    BY <2>2, <2>3, FirstIsOldest, ZenonT(40)
<1>4. QED
  BY <1>1, <1>2, <1>3, SMTT(30)

\* If no branch has two clients, the lock is given in the order in which they came.
THEOREM InOrderOfArrival ==
  ASSUME ~Shared
  PROVE  Spec => FirstComeFirstServed
<1> DEFINE IInv == TypeOK /\ TableInv /\ OwnerInv /\ OrderInv
<1>1. Init => IInv
  <2> SUFFICES ASSUME Init PROVE OwnerInv /\ OrderInv
    BY InvInit, SMTT(30)
  <2>1. OwnerInv
    BY DEF Init, OwnerInv
  <2>2. OrderInv
    BY DEF Init, OrderInv, Waiting, InLine, Waits
  <2>3. QED
    BY <2>1, <2>2
<1>2. IInv /\ [Next]_vars => IInv'
  BY TypeStep, TableStep, OwnerStep, OrderStep
<1>3. IInv /\ [Next]_vars => [NotOvertaken]_vars
  BY OvertakingStep
<1>4. QED
  BY <1>1, <1>2, <1>3, PTL DEF Spec, FirstComeFirstServed
=============================================================================

-------------------------- MODULE AgentQueueProofs --------------------------
(***************************************************************************)
(* What the channel lock guarantees for any number of clients, branches    *)
(* and kills: the types, the table, the merges, and the owners of entries. *)
(***************************************************************************)
EXTENDS AgentQueue, TLAPS

\* Ids are given once, and the lock has at most one entry.
TableInv ==
  /\ \A r \in rows : r.id < next_id
  /\ \A r, q \in rows : r.id = q.id => r = q
  /\ \A r, q \in Active : r = q

Daemons == {"daemon"} \X Nat

\* One daemon runs.
DaemonInv ==
  /\ Daemon(daemon) \in alive
  /\ \A p \in alive : p \in Daemons => p = Daemon(daemon)

\* A merge that has begun to poll, or has its turn, has cleaned up the entries of former
\* daemons; one that has its turn is alone and has the lock.
MergeInv ==
  Merging =>
    /\ \A r \in rows : r.pid \in Daemons
    /\ (\E c \in Clients : pc[c] \in {"polling", "granted"}) =>
         \A r \in rows : r.pid = Daemon(daemon)
    /\ \A c \in Clients : pc[c] = "granted" => Active # {}
    /\ \A c, d \in Clients : pc[c] = "granted" /\ pc[d] = "granted" => c = d
    /\ \A c \in Clients : pc[c] # "started"

\* If no branch has two clients, an entry is of the client of its branch.
OwnerInv ==
  ~Shared =>
    /\ \A c, d \in Clients : branch[c] = branch[d] /\ branch[c] # NoBranch => c = d
    /\ \A c \in Clients : branch[c] = NoBranch <=> pc[c] = "idle"
    /\ \A r \in rows : \E c \in Clients : r.branch = branch[c]
    /\ ~Merging => \A r \in rows, c \in Clients : r.branch = branch[c] =>
         /\ r.pid \in {Cli(c), Child(c)}
         /\ r \in Waiting => r.pid = Cli(c)

-----------------------------------------------------------------------------
(* Types. *)

Row == [id : Nat, branch : Branches, pid : Pids, status : {"WAITING", "ACTIVE"}]

LEMMA ActivatedFields ==
  ASSUME NEW r \in Row
  PROVE  /\ Activated(r) \in Row /\ Activated(r).status = "ACTIVE"
         /\ Activated(r).id = r.id /\ Activated(r).branch = r.branch /\ Activated(r).pid = r.pid
  BY DEF Activated, Row

LEMMA PassedToFields ==
  ASSUME NEW r \in Row, NEW p \in Pids
  PROVE  /\ PassedTo(r, p) \in Row /\ PassedTo(r, p).pid = p
         /\ PassedTo(r, p).id = r.id /\ PassedTo(r, p).branch = r.branch
         /\ PassedTo(r, p).status = r.status
  BY DEF PassedTo, Row

LEMMA PidTypes ==
  ASSUME TypeOK, NEW c \in Clients
  PROVE  /\ Cli(c) \in Pids /\ Child(c) \in Pids /\ Daemon(daemon) \in Pids
         /\ Pid(c) \in Pids
  BY DEF TypeOK, Pid, Pids, Cli, Child, Daemon

LEMMA TypeInit == Init => TypeOK
<1> SUFFICES ASSUME Init PROVE TypeOK
  OBVIOUS
<1>1. \A c \in Clients : Cli(c) \in Pids
  BY DEF Cli, Pids
<1>2. Daemon(0) \in Pids
  BY DEF Daemon, Pids
<1>3. alive \subseteq Pids
  BY <1>1, <1>2 DEF Init
<1>4. strayed \in BOOLEAN /\ channel \in Channels /\ rows \subseteq Row
  BY Zenon DEF Init
<1>5. crashes \in 0..MaxCrashes
  BY QueueAssumption DEF Init
<1>6. branch \in [Clients -> Branches \cup {NoBranch}] /\ arrival \in [Clients -> Nat]
  BY DEF Init
<1>7. QED
  BY <1>3, <1>4, <1>5, <1>6 DEF Init, TypeOK, Row

\* What inserting, promoting and removing entries does to their types.
LEMMA InsertTypes ==
  ASSUME TypeOK, NEW c \in Clients, NEW b \in Branches, NEW s \in {"WAITING", "ACTIVE"},
         Insert(c, b, s)
  PROVE  rows' \subseteq Row /\ next_id' \in Nat
  BY PidTypes DEF TypeOK, Insert, Row

LEMMA PromoteTypes ==
  ASSUME TypeOK, NEW r \in rows, Promote(r)
  PROVE  rows' \subseteq Row
<1>1. rows \subseteq Row
  BY DEF TypeOK, Row
<1>2. QED
  BY <1>1, ActivatedFields DEF Promote

LEMMA TypeStep == TypeOK /\ [Next]_vars => TypeOK'
<1> SUFFICES ASSUME TypeOK, [Next]_vars PROVE TypeOK'
  OBVIOUS
<1> USE QueueAssumption
<1>1. ASSUME NEW c \in Clients, BeginPolling(c) PROVE TypeOK'
  BY <1>1 DEF BeginPolling, Goto, TypeOK
<1>2. ASSUME NEW c \in Clients, TryPromote(c) PROVE TypeOK'
  <2>1. rows' \subseteq Row
    BY <1>2, PromoteTypes DEF TryPromote
  <2>2. QED
    BY <1>2, <2>1 DEF TryPromote, Granted, Goto, TypeOK, Row
<1>3. ASSUME NEW c \in Clients, StartChild(c) PROVE TypeOK'
  BY <1>3, PidTypes DEF StartChild, Goto, TypeOK
<1>4. ASSUME NEW c \in Clients, UpdatePID(c) PROVE TypeOK'
  <2>1. rows' \subseteq Row
    <3>1. rows \subseteq Row
      BY DEF TypeOK, Row
    <3>2. QED
      BY <1>4, <3>1, PassedToFields, PidTypes, SMTT(30) DEF UpdatePID
  <2>2. UNCHANGED <<next_id, branch, arrival, alive, daemon, crashes, strayed, channel>> /\ Goto(c, "built")
    BY <1>4 DEF UpdatePID
  <2>3. QED
    BY <2>1, <2>2 DEF Goto, TypeOK, Row
<1>5. ASSUME NEW c \in Clients, ChildExits(c) PROVE TypeOK'
  BY <1>5 DEF ChildExits, TypeOK
<1>6. ASSUME NEW c \in Clients, Release(c) PROVE TypeOK'
  <2>1. strayed' \in BOOLEAN
    BY <1>6, Zenon DEF Release
  <2>2. QED
    BY <1>6, <2>1 DEF Release, Goto, TypeOK
<1>7. ASSUME NEW c \in Clients, Exit(c) PROVE TypeOK'
  BY <1>7 DEF Exit, TypeOK
<1>8. ASSUME NEW c \in Clients, Cancel(c) PROVE TypeOK'
  BY <1>8 DEF Cancel, Goto, TypeOK
<1>9. ASSUME NEW c \in Clients, Kill(c) PROVE TypeOK'
  BY <1>9 DEF Kill, TypeOK
<1>10. ASSUME NEW c \in Clients, NEW b \in Branches, Register(c, b) PROVE TypeOK'
  <2>1. rows' \subseteq Row /\ next_id' \in Nat
    BY <1>10, InsertTypes DEF Register, InsertWaiting, TypeOK, Row
  <2>2. QED
    BY <1>10, <2>1 DEF Register, Asks, Goto, TypeOK, Row
<1>11. ASSUME NEW c \in Clients, NEW b \in Branches, TryAcquire(c, b) PROVE TypeOK'
  <2>1. rows' \subseteq Row /\ next_id' \in Nat
    BY <1>11, InsertTypes, PromoteTypes DEF TryAcquire, InsertWaiting, TypeOK, Row
  <2>2. pc' \in [Clients -> {"idle", "registered", "polling", "granted", "gone", "refused", "failed",
                           "started", "built", "unrecorded", "done"}]
    BY <1>11 DEF TryAcquire, Goto, TypeOK
  <2>3. QED
    BY <1>11, <2>1, <2>2 DEF TryAcquire, Asks, TypeOK, Row
<1>12. CASE CleanupStale
  BY <1>12 DEF CleanupStale, TypeOK
<1>13. CASE KillDaemon
  <2>1. Daemon(daemon + 1) \in Pids
    BY DEF TypeOK, Daemon, Pids
  <2>2. QED
    BY <1>13, <2>1 DEF KillDaemon, TypeOK
<1>14. CASE UNCHANGED vars
  BY <1>14 DEF vars, TypeOK
<1>15. QED
  BY <1>1, <1>2, <1>3, <1>4, <1>5, <1>6, <1>7, <1>8, <1>9, <1>10, <1>11, <1>12, <1>13, <1>14
     DEF Next, ClientStep

\* Type correctness of the lock table, the clients and the processes.
THEOREM QueueTypes == Spec => []TypeOK
  BY TypeInit, TypeStep, PTL DEF Spec

-----------------------------------------------------------------------------
(* The table. *)

LEMMA TableShrinks ==
  ASSUME TableInv, rows' \subseteq rows, next_id' = next_id
  PROVE  TableInv'
  BY DEF TableInv, Active

LEMMA TableGrows ==
  ASSUME TypeOK, TableInv, NEW c \in Clients, NEW b \in Branches, NEW s \in {"WAITING", "ACTIVE"},
         Insert(c, b, s), s = "WAITING" \/ rows = {}
  PROVE  TableInv'
<1> DEFINE e == [id |-> next_id, branch |-> b, pid |-> Pid(c), status |-> s]
<1>1. e.id = next_id /\ e.status = s
  OBVIOUS
<1>2. rows' = rows \cup {e} /\ next_id' = next_id + 1 /\ next_id \in Nat
  BY DEF Insert, TypeOK
<1>3. \A r \in rows : r.id \in Nat
  BY DEF TypeOK
<1> HIDE DEF e
<1>4. \A r \in rows' : r.id < next_id'
  BY <1>1, <1>2, <1>3 DEF TableInv
<1>5. \A r, q \in rows' : r.id = q.id => r = q
  BY <1>1, <1>2, <1>3 DEF TableInv
<1>6. \A r, q \in Active' : r = q
  BY <1>1, <1>2 DEF TableInv, Active
<1>7. QED
  BY <1>4, <1>5, <1>6 DEF TableInv

LEMMA TablePromotes ==
  ASSUME TypeOK, TableInv, NEW r \in rows, Promote(r), Active = {}, next_id' = next_id
  PROVE  TableInv' /\ Active' = {Activated(r)} /\ Waiting' = Waiting \ {r}
<1>1. r \in Row /\ rows \subseteq Row
  BY DEF TypeOK, Row
<1>2. Activated(r).id = r.id /\ Activated(r).status = "ACTIVE"
  BY <1>1, ActivatedFields
<1>3. rows' = (rows \ {r}) \cup {Activated(r)}
  BY DEF Promote
<1>4. Active' = {Activated(r)}
  BY <1>2, <1>3 DEF Active
<1>5. Waiting' = Waiting \ {r}
  BY <1>2, <1>3 DEF Waiting
<1>6. QED
  BY <1>2, <1>3, <1>4, <1>5 DEF TableInv

\* UpdatePID changes at most the pid of the lock's entry.
LEMMA TablePasses ==
  ASSUME TypeOK, TableInv, NEW c \in Clients, UpdatePID(c)
  PROVE  /\ TableInv'
         /\ Waiting' = Waiting
         /\ \A q \in rows' : \E r \in rows :
              /\ q.id = r.id /\ q.branch = r.branch /\ q.status = r.status
              /\ q = r \/ (r \in Active /\ r.branch = branch[c] /\ q.pid = Child(c))
         /\ \A r \in Active : r.branch = branch[c] =>
              \E q \in Active' : q.branch = branch[c] /\ q.pid = Child(c)
         /\ \A r \in rows : r.branch # branch[c] => r \in rows'
<1>1. rows' = {IF r \in Active /\ r.branch = branch[c] THEN PassedTo(r, Child(c)) ELSE r : r \in rows}
  BY DEF UpdatePID
<1>2. rows \subseteq Row /\ Child(c) \in Pids
  BY PidTypes DEF TypeOK, Row
<1>3. ASSUME NEW q \in rows'
      PROVE  \E r \in rows :
               /\ q.id = r.id /\ q.branch = r.branch /\ q.status = r.status
               /\ IF r \in Active /\ r.branch = branch[c]
                  THEN q = PassedTo(r, Child(c)) /\ q.pid = Child(c) ELSE q = r
  <2>1. PICK r \in rows : q = IF r \in Active /\ r.branch = branch[c] THEN PassedTo(r, Child(c)) ELSE r
    BY <1>1
  <2>2. r \in Row
    BY <1>2
  <2>3. CASE r \in Active /\ r.branch = branch[c]
    BY <1>2, <2>1, <2>2, <2>3, PassedToFields
  <2>4. CASE ~(r \in Active /\ r.branch = branch[c])
    BY <2>1, <2>4
  <2>5. QED
    BY <2>3, <2>4
<1>4. ASSUME NEW r \in rows, ~(r \in Active /\ r.branch = branch[c]) PROVE r \in rows'
  BY <1>1, <1>4
<1>5. TableInv'
  <2>1. ASSUME NEW q \in rows' PROVE q.id < next_id'
    BY <1>3 DEF TableInv, UpdatePID
  <2>2. ASSUME NEW q \in rows', NEW p \in rows', q.id = p.id PROVE q = p
    <3>1. PICK r \in rows :
            q.id = r.id /\ IF r \in Active /\ r.branch = branch[c] THEN q = PassedTo(r, Child(c)) ELSE q = r
      BY <1>3
    <3>2. PICK s \in rows :
            p.id = s.id /\ IF s \in Active /\ s.branch = branch[c] THEN p = PassedTo(s, Child(c)) ELSE p = s
      BY <1>3
    <3>3. r = s
      BY <2>2, <3>1, <3>2, Zenon DEF TableInv
    <3>4. QED
      BY <3>1, <3>2, <3>3
  <2>3. ASSUME NEW q \in Active', NEW p \in Active' PROVE q = p
    <3>1. q \in rows' /\ p \in rows' /\ q.status = "ACTIVE" /\ p.status = "ACTIVE"
      BY DEF Active
    <3>2. PICK r \in rows : q.id = r.id /\ q.status = r.status
      BY <1>3, <3>1
    <3>3. PICK s \in rows : p.id = s.id /\ p.status = s.status
      BY <1>3, <3>1
    <3>4. r = s
      BY <3>1, <3>2, <3>3 DEF TableInv, Active
    <3>5. QED
      BY <2>2, <3>1, <3>2, <3>3, <3>4
  <2>4. QED
    BY <2>1, <2>2, <2>3 DEF TableInv
<1>6. Waiting' = Waiting
  <2>1. \A r \in Waiting : r \in rows /\ r \notin Active
    BY DEF Waiting, Active
  <2>2. \A r \in Waiting : r \in Waiting'
    BY <1>4, <2>1 DEF Waiting
  <2>3. ASSUME NEW q \in Waiting' PROVE q \in Waiting
    <3>1. q \in rows' /\ q.status = "WAITING"
      BY DEF Waiting
    <3>2. PICK r \in rows : q.status = r.status /\ (r \notin Active => q = r)
      BY <1>3, <3>1
    <3>3. r \in Waiting
      BY <3>1, <3>2 DEF Waiting
    <3>4. QED
      BY <2>1, <3>2, <3>3
  <2>4. QED
    BY <2>2, <2>3
<1>7. ASSUME NEW r \in Active, r.branch = branch[c]
      PROVE  \E q \in Active' : q.branch = branch[c] /\ q.pid = Child(c)
  <2>1. r \in rows /\ r \in Row /\ r.status = "ACTIVE"
    BY <1>2 DEF Active
  <2>2. PassedTo(r, Child(c)) \in rows'
    BY <1>1, <1>7, <2>1
  <2>3. PassedTo(r, Child(c)) \in Active'
    BY <1>2, <2>1, <2>2, PassedToFields DEF Active
  <2>4. QED
    BY <1>2, <1>7, <2>1, <2>3, PassedToFields
<1>8. \A r \in rows : r.branch # branch[c] => r \in rows'
  BY <1>4
<1>9. QED
  BY <1>3, <1>5, <1>6, <1>7, <1>8

LEMMA TableStep == TypeOK /\ TableInv /\ [Next]_vars => TableInv'
<1> SUFFICES ASSUME TypeOK, TableInv, [Next]_vars PROVE TableInv'
  OBVIOUS
<1>1. CASE rows' \subseteq rows /\ next_id' = next_id
  BY <1>1, TableShrinks
<1>2. ASSUME NEW c \in Clients, TryPromote(c) PROVE TableInv'
  BY <1>2, TablePromotes DEF TryPromote
<1>3. ASSUME NEW c \in Clients, UpdatePID(c) PROVE TableInv'
  BY <1>3, TablePasses
<1>4. ASSUME NEW c \in Clients, NEW b \in Branches, Register(c, b) PROVE TableInv'
  BY <1>1, <1>4, TableGrows DEF Register, InsertWaiting
<1>5. ASSUME NEW c \in Clients, NEW b \in Branches, TryAcquire(c, b) PROVE TableInv'
  BY <1>1, <1>5, TableGrows, TablePromotes DEF TryAcquire, InsertWaiting
<1>6. ASSUME NEW c \in Clients,
             \/ BeginPolling(c) \/ StartChild(c) \/ ChildExits(c) \/ Release(c) \/ Exit(c)
             \/ Cancel(c) \/ Kill(c)
      PROVE  rows' \subseteq rows /\ next_id' = next_id
  BY <1>6 DEF BeginPolling, StartChild, ChildExits, Release, Exit, Cancel, Kill
<1>7. ASSUME CleanupStale \/ KillDaemon \/ UNCHANGED vars
      PROVE  rows' \subseteq rows /\ next_id' = next_id
  BY <1>7 DEF CleanupStale, KillDaemon, vars
<1>8. QED
  BY <1>1, <1>2, <1>3, <1>4, <1>5, <1>6, <1>7 DEF Next, ClientStep

-----------------------------------------------------------------------------
(* Merges. *)

LEMMA PidsDiffer ==
  /\ \A c, d : Cli(c) # Child(d) /\ (Cli(c) = Cli(d) => c = d) /\ (Child(c) = Child(d) => c = d)
  /\ \A c, n : Cli(c) # Daemon(n) /\ Child(c) # Daemon(n)
  /\ \A n, m : Daemon(n) = Daemon(m) => n = m
  /\ \A c : Cli(c) \notin Daemons /\ Child(c) \notin Daemons
  /\ \A n \in Nat : Daemon(n) \in Daemons
  BY DEF Cli, Child, Daemon, Daemons

LEMMA DaemonStep == TypeOK /\ DaemonInv /\ [Next]_vars => DaemonInv'
<1> SUFFICES ASSUME TypeOK, DaemonInv, [Next]_vars PROVE DaemonInv'
  OBVIOUS
<1>1. CASE UNCHANGED <<alive, daemon>>
  BY <1>1 DEF DaemonInv
<1>2. ASSUME NEW c \in Clients, StartChild(c) \/ ChildExits(c) \/ Exit(c) \/ Kill(c) PROVE DaemonInv'
  BY <1>2, PidsDiffer DEF StartChild, ChildExits, Exit, Kill, DaemonInv
<1>3. CASE KillDaemon
  BY <1>3, PidsDiffer DEF KillDaemon, DaemonInv, TypeOK
<1>4. ASSUME NEW c \in Clients,
             BeginPolling(c) \/ TryPromote(c) \/ UpdatePID(c) \/ Release(c) \/ Cancel(c)
      PROVE  UNCHANGED <<alive, daemon>>
  BY <1>4 DEF BeginPolling, TryPromote, UpdatePID, Release, Cancel
<1>5. ASSUME NEW c \in Clients, NEW b \in Branches, Register(c, b) \/ TryAcquire(c, b)
      PROVE  UNCHANGED <<alive, daemon>>
  BY <1>5 DEF Register, TryAcquire
<1>6. ASSUME CleanupStale \/ UNCHANGED vars PROVE UNCHANGED <<alive, daemon>>
  BY <1>6 DEF CleanupStale, vars
<1>7. QED
  BY <1>1, <1>2, <1>3, <1>4, <1>5, <1>6 DEF Next, ClientStep

\* Promoting an entry keeps the pids.
LEMMA PromotedPid ==
  ASSUME TypeOK, NEW r \in rows, Promote(r), NEW q \in rows'
  PROVE  \E p \in rows : q.pid = p.pid /\ q.branch = p.branch /\ q.id = p.id
<1>1. r \in Row
  BY DEF TypeOK, Row
<1>2. CASE q \in rows
  BY <1>2
<1>3. CASE q = Activated(r)
  BY <1>1, <1>3, ActivatedFields
<1>4. QED
  BY <1>2, <1>3 DEF Promote

LEMMA ChannelStep == [Next]_vars => channel' = channel
  BY DEF Next, ClientStep, vars, BeginPolling, TryPromote, StartChild, UpdatePID, ChildExits, Release,
         Exit, Cancel, Kill, Register, TryAcquire, CleanupStale, KillDaemon

LEMMA MergeStep == TypeOK /\ TableInv /\ DaemonInv /\ MergeInv /\ [Next]_vars => MergeInv'
<1> SUFFICES ASSUME TypeOK, TableInv, DaemonInv, MergeInv, [Next]_vars, Merging' PROVE MergeInv'
  BY DEF MergeInv
<1>1. channel' = channel
  BY ChannelStep
<1>2. Merging
  BY <1>1 DEF Merging
<1>3. ASSUME NEW c \in Clients, BeginPolling(c) PROVE MergeInv'
  <2>1. rows' = rows \ Stale /\ daemon' = daemon /\ pc' = [pc EXCEPT ![c] = "polling"]
    BY <1>3 DEF BeginPolling, Goto
  <2>2. \A r \in rows' : r \in rows /\ r.pid = Daemon(daemon)
    BY <1>2, <2>1 DEF MergeInv, Stale, DaemonInv
  <2>3. \A d \in Clients : pc'[d] \in {"granted", "started"} => pc[d] = pc'[d]
    BY <2>1 DEF TypeOK
  <2>4. ASSUME NEW d \in Clients, pc[d] = "granted" PROVE Active' # {}
    <3>1. PICK r \in Active : TRUE
      BY <1>2, <2>4 DEF MergeInv
    <3>2. r \in rows /\ r.pid = Daemon(daemon)
      BY <1>2, <2>4 DEF MergeInv, Active
    <3>3. r \in rows'
      BY <2>1, <3>2 DEF Stale, DaemonInv
    <3>4. QED
      BY <3>1, <3>3 DEF Active
  <2>5. QED
    BY <1>2, <2>1, <2>2, <2>3, <2>4 DEF MergeInv
<1>4. ASSUME NEW c \in Clients, TryPromote(c) PROVE MergeInv'
  <2>1. PICK r \in rows : Promote(r)
    BY <1>4 DEF TryPromote
  <2>2. Active = {} /\ daemon' = daemon /\ pc[c] = "polling" /\ pc' = [pc EXCEPT ![c] = "granted"]
    BY <1>2, <1>4 DEF TryPromote, Granted, Goto
  <2>3. Active' # {}
    BY <1>4, <2>1, <2>2, TablePromotes DEF TryPromote
  <2>4. \A q \in rows' : q.pid = Daemon(daemon) /\ q.pid \in Daemons
    BY <1>2, <2>1, <2>2, PromotedPid DEF MergeInv
  <2>5. \A d \in Clients : pc'[d] # "started" /\ (pc'[d] = "granted" => d = c)
    BY <1>2, <2>2 DEF MergeInv, TypeOK
  <2>6. QED
    BY <2>2, <2>3, <2>4, <2>5 DEF MergeInv
<1>5. ASSUME NEW c \in Clients, Release(c) PROVE MergeInv'
  <2>1. rows' \subseteq rows /\ daemon' = daemon /\ pc[c] = "granted" /\ pc' = [pc EXCEPT ![c] = "done"]
    BY <1>2, <1>5 DEF Release, Finished, Goto
  <2>2. \A d \in Clients : pc'[d] # "granted"
    BY <1>2, <2>1 DEF MergeInv, TypeOK
  <2>3. \A d \in Clients : pc'[d] \in {"polling", "started"} => pc[d] = pc'[d]
    BY <2>1 DEF TypeOK
  <2>4. QED
    BY <1>2, <2>1, <2>2, <2>3 DEF MergeInv
<1>6. ASSUME NEW c \in Clients, Exit(c) \/ ChildExits(c) PROVE MergeInv'
  BY <1>2, <1>6 DEF Exit, ChildExits, MergeInv, Active
<1>7. ASSUME NEW c \in Clients, UpdatePID(c) PROVE FALSE
  BY <1>2, <1>7 DEF UpdatePID, MergeInv
<1>8. ASSUME NEW c \in Clients, NEW b \in Branches, Register(c, b) PROVE MergeInv'
  <2>1. daemon' = daemon /\ pc' = [pc EXCEPT ![c] = "registered"] /\ rows \subseteq rows'
    BY <1>8 DEF Register, Goto, InsertWaiting, Insert
  <2>2. \A r \in rows' : r \in rows \/ r.pid = Daemon(daemon)
    BY <1>2, <1>8 DEF Register, InsertWaiting, Insert, Pid
  <2>3. \A d \in Clients : pc'[d] \in {"polling", "granted", "started"} => pc[d] = pc'[d]
    BY <2>1 DEF TypeOK
  <2>4. Active \subseteq Active'
    BY <2>1 DEF Active
  <2>5. Daemon(daemon) \in Daemons
    BY PidsDiffer DEF TypeOK
  <2>6. QED
    BY <1>2, <2>1, <2>2, <2>3, <2>4, <2>5 DEF MergeInv
<1>9. CASE CleanupStale
  <2>1. rows' = rows \ Stale /\ UNCHANGED <<daemon, pc>>
    BY <1>9 DEF CleanupStale
  <2>2. ASSUME NEW d \in Clients, pc[d] = "granted" PROVE Active' # {}
    <3>1. PICK r \in Active : TRUE
      BY <1>2, <2>2 DEF MergeInv
    <3>2. r \in rows /\ r.pid = Daemon(daemon)
      BY <1>2, <2>2 DEF MergeInv, Active
    <3>3. r \in rows'
      BY <2>1, <3>2 DEF Stale, DaemonInv
    <3>4. QED
      BY <3>1, <3>3 DEF Active
  <2>3. QED
    BY <1>2, <2>1, <2>2 DEF MergeInv
<1>10. CASE KillDaemon
  <2>1. \A d \in Clients : pc'[d] \notin {"polling", "granted", "started"}
    BY <1>2, <1>10 DEF KillDaemon, Waits, MergeInv
  <2>2. rows' \subseteq rows
    BY <1>10 DEF KillDaemon
  <2>3. QED
    BY <1>2, <2>1, <2>2 DEF MergeInv
<1>11. CASE UNCHANGED vars
  BY <1>2, <1>11 DEF vars, MergeInv, Active
<1>12. ASSUME NEW c \in Clients PROVE ~StartChild(c) /\ ~Cancel(c) /\ ~Kill(c)
  BY <1>2 DEF StartChild, Cancel, Kill
<1>13. ASSUME NEW c \in Clients, NEW b \in Branches PROVE ~TryAcquire(c, b)
  BY <1>2 DEF TryAcquire
<1>14. QED
  BY <1>3, <1>4, <1>5, <1>6, <1>7, <1>8, <1>9, <1>10, <1>11, <1>12, <1>13, SMTT(30) DEF Next, ClientStep

LEMMA InvInit == Init => TypeOK /\ TableInv /\ DaemonInv /\ MergeInv
<1> SUFFICES ASSUME Init PROVE TableInv /\ DaemonInv /\ MergeInv
  BY TypeInit
<1>1. TableInv
  BY DEF Init, TableInv, Active
<1>2. DaemonInv
  BY PidsDiffer DEF Init, DaemonInv
<1>3. MergeInv
  BY DEF Init, MergeInv
<1>4. QED
  BY <1>1, <1>2, <1>3

\* The daemon runs one merge pipeline at a time, however many requests are made for
\* whatever branches and however often the daemon is killed and restarted.
THEOREM OneMergeAtATime == Spec => []MergesExclusive
<1> DEFINE IInv == TypeOK /\ TableInv /\ DaemonInv /\ MergeInv
<1>1. Init => IInv
  BY InvInit
<1>2. IInv /\ [Next]_vars => IInv'
  BY TypeStep, TableStep, DaemonStep, MergeStep
<1>3. IInv => MergesExclusive
  BY DEF MergesExclusive, MergeInv, Alone, Working
<1>4. QED
  BY <1>1, <1>2, <1>3, PTL DEF Spec

-----------------------------------------------------------------------------
(* The owners of the entries, if no branch has two clients. *)

\* Removing entries, and moving clients that have come already, keeps OwnerInv.
LEMMA OwnerShrinks ==
  ASSUME OwnerInv, rows' \subseteq rows, branch' = branch, channel' = channel,
         \A c \in Clients : pc'[c] = "idle" <=> pc[c] = "idle"
  PROVE  OwnerInv'
  BY DEF OwnerInv, Waiting, Merging

\* A client that comes has a branch of its own, which has no entry.
LEMMA NewClient ==
  ASSUME TypeOK, OwnerInv, ~Shared, NEW c \in Clients, NEW b \in Branches, Asks(c, b)
  PROVE  /\ \A r \in rows : r.branch # b
         /\ \A d \in Clients : branch'[d] = IF d = c THEN b ELSE branch[d]
         /\ \A d \in Clients : branch[d] # b
         /\ b # NoBranch
<1>1. \A d \in Clients : branch[d] # b
  BY DEF Asks
<1>2. \A r \in rows : r.branch # b
  BY <1>1 DEF OwnerInv
<1>3. QED
  BY <1>1, <1>2, QueueAssumption DEF Asks, TypeOK

\* An entry inserted for a client that has come, or comes with a branch of its own.
LEMMA OwnerGrows ==
  ASSUME TypeOK, OwnerInv, ~Shared, NEW c \in Clients, NEW b \in Branches,
         NEW s \in {"WAITING", "ACTIVE"}, Insert(c, b, s), channel' = channel,
         Asks(c, b) \/ (pc[c] # "idle" /\ b = branch[c] /\ branch' = branch),
         \A d \in Clients : pc'[d] = "idle" <=> pc[d] = "idle" /\ d # c
  PROVE  OwnerInv'
<1> DEFINE e == [id |-> next_id, branch |-> b, pid |-> Pid(c), status |-> s]
<1>1. e.branch = b /\ e.pid = Pid(c) /\ rows' = rows \cup {e}
  BY DEF Insert
<1> HIDE DEF e
<1>2. /\ \A d \in Clients : branch'[d] = IF d = c THEN b ELSE branch[d]
      /\ \A d \in Clients : branch[d] = b => d = c
      /\ b # NoBranch
      /\ \A r \in rows : Asks(c, b) => r.branch # b
      /\ Asks(c, b) \/ branch[c] = b
  BY NewClient, QueueAssumption, SMTT(30) DEF OwnerInv, TypeOK
<1>3. \A d, g \in Clients : branch'[d] = branch'[g] /\ branch'[d] # NoBranch => d = g
  BY <1>2 DEF OwnerInv
<1>4. \A d \in Clients : branch'[d] = NoBranch <=> pc'[d] = "idle"
  BY <1>2 DEF OwnerInv
<1>5. ASSUME NEW r \in rows' PROVE \E d \in Clients : r.branch = branch'[d]
  <2>1. CASE r \in rows
    <3>1. PICK d \in Clients : r.branch = branch[d]
      BY <2>1 DEF OwnerInv
    <3>2. CASE d = c
      <4>1. ~Asks(c, b)
        BY <3>1, <3>2, <2>1, <1>2, QueueAssumption, SMTT(30) DEF TypeOK, OwnerInv, Asks
      <4>2. QED
        BY <1>2, <3>1, <3>2, <4>1
    <3>3. QED
      BY <1>2, <3>1, <3>2
  <2>2. CASE r = e
    BY <1>1, <1>2, <2>2
  <2>3. QED
    BY <1>1, <2>1, <2>2
<1>6. ASSUME ~Merging, NEW r \in rows', NEW d \in Clients, r.branch = branch'[d]
      PROVE  r.pid \in {Cli(d), Child(d)} /\ (r \in Waiting' => r.pid = Cli(d))
  <2>1. CASE r \in rows
    <3>1. r.branch = branch[d]
      BY <1>2, <1>6, <2>1
    <3>2. r \in Waiting' => r \in Waiting
      BY <2>1 DEF Waiting
    <3>3. QED
      BY <1>6, <2>1, <3>1, <3>2 DEF OwnerInv
  <2>2. CASE r = e
    BY <1>1, <1>2, <1>6, <2>2 DEF Pid
  <2>3. QED
    BY <1>1, <2>1, <2>2
<1>7. Merging' <=> Merging
  BY DEF Merging
<1>8. QED
  BY <1>3, <1>4, <1>5, <1>6, <1>7 DEF OwnerInv

LEMMA OwnerPromotes ==
  ASSUME TypeOK, TableInv, OwnerInv, NEW r \in rows, Promote(r), Active = {}, next_id' = next_id,
         branch' = branch, channel' = channel,
         \A c \in Clients : pc'[c] = "idle" <=> pc[c] = "idle"
  PROVE  OwnerInv'
<1> SUFFICES ASSUME ~Shared PROVE OwnerInv'
  BY DEF OwnerInv
<1>1. Waiting' \subseteq Waiting
  BY TablePromotes
<1>2. \A q \in rows' : \E p \in rows : q.pid = p.pid /\ q.branch = p.branch
  BY PromotedPid
<1>3. Merging' <=> Merging
  BY DEF Merging
<1>4. Waiting \subseteq rows
  BY DEF Waiting
<1>5. QED
  BY <1>1, <1>2, <1>3, <1>4 DEF OwnerInv

LEMMA OwnerStep == TypeOK /\ TableInv /\ OwnerInv /\ [Next]_vars => OwnerInv'
<1> SUFFICES ASSUME TypeOK, TableInv, OwnerInv, [Next]_vars, ~Shared PROVE OwnerInv'
  BY DEF OwnerInv
<1>1. channel' = channel
  BY ChannelStep
<1>2. ASSUME NEW c \in Clients,
             \/ BeginPolling(c) \/ StartChild(c) \/ ChildExits(c) \/ Release(c) \/ Exit(c)
             \/ Cancel(c) \/ Kill(c)
      PROVE  OwnerInv'
  <2>1. rows' \subseteq rows /\ branch' = branch
    BY <1>2 DEF BeginPolling, StartChild, ChildExits, Release, Exit, Cancel, Kill
  <2>2. \A d \in Clients : pc'[d] = "idle" <=> pc[d] = "idle"
    BY <1>2 DEF BeginPolling, StartChild, ChildExits, Release, Finished, Exit, Cancel, Kill, Goto,
                Waits, TypeOK
  <2>3. QED
    BY <1>1, <2>1, <2>2, OwnerShrinks, SMTT(30)
<1>3. ASSUME CleanupStale \/ KillDaemon \/ UNCHANGED vars PROVE OwnerInv'
  <2>1. rows' \subseteq rows /\ branch' = branch
    BY <1>3 DEF CleanupStale, KillDaemon, vars
  <2>2. \A d \in Clients : pc'[d] = "idle" <=> pc[d] = "idle"
    BY <1>3, SMTT(30) DEF CleanupStale, KillDaemon, vars, Waits, Finished
  <2>3. QED
    BY <1>1, <2>1, <2>2, OwnerShrinks
<1>4. ASSUME NEW c \in Clients, TryPromote(c) PROVE OwnerInv'
  <2>1. \A d \in Clients : pc'[d] = "idle" <=> pc[d] = "idle"
    BY <1>4, SMTT(30) DEF TryPromote, Granted, Goto, TypeOK
  <2>2. QED
    BY <1>1, <1>4, <2>1, OwnerPromotes DEF TryPromote
<1>5. ASSUME NEW c \in Clients, UpdatePID(c) PROVE OwnerInv'
  <2>1. \A d \in Clients : pc'[d] = "idle" <=> pc[d] = "idle"
    BY <1>5 DEF UpdatePID, Goto, TypeOK
  <2>2. branch' = branch /\ branch[c] # NoBranch
    BY <1>5 DEF UpdatePID, OwnerInv
  <2>3. ASSUME NEW q \in rows'
        PROVE  /\ \E d \in Clients : q.branch = branch[d]
               /\ ~Merging => \A d \in Clients : q.branch = branch[d] => q.pid \in {Cli(d), Child(d)}
    <3>1. PICK r \in rows :
            /\ q.branch = r.branch
            /\ q = r \/ (r.branch = branch[c] /\ q.pid = Child(c))
      BY <1>5, TablePasses
    <3>2. CASE q = r
      BY <3>2 DEF OwnerInv
    <3>3. CASE r.branch = branch[c] /\ q.pid = Child(c)
      <4>1. \A d \in Clients : q.branch = branch[d] => d = c
        BY <2>2, <3>1, <3>3 DEF OwnerInv
      <4>2. QED
        BY <3>1, <3>3, <4>1
    <3>4. QED
      BY <3>1, <3>2, <3>3
  <2>4. Waiting' = Waiting /\ Waiting \subseteq rows
    BY <1>5, TablePasses DEF Waiting
  <2>5. Merging' <=> Merging
    BY <1>1 DEF Merging
  <2>6. QED
    BY <2>1, <2>2, <2>3, <2>4, <2>5, SMTT(30) DEF OwnerInv
<1>6. ASSUME NEW c \in Clients, NEW b \in Branches, Register(c, b) PROVE OwnerInv'
  <2>1. Asks(c, b) /\ Insert(c, b, "WAITING")
    BY <1>6, NewClient DEF Register, InsertWaiting, Waiting
  <2>2. \A d \in Clients : pc'[d] = "idle" <=> pc[d] = "idle" /\ d # c
    BY <1>6 DEF Register, Goto, TypeOK
  <2>3. QED
    BY <1>1, <2>1, <2>2, OwnerGrows
<1>7. ASSUME NEW c \in Clients, NEW b \in Branches, TryAcquire(c, b) PROVE OwnerInv'
  <2>1. \A d \in Clients : pc'[d] = "idle" <=> pc[d] = "idle" /\ d # c
    BY <1>7 DEF TryAcquire, Goto, TypeOK
  <2>2. Asks(c, b) \/ (pc[c] # "idle" /\ b = branch[c] /\ branch' = branch)
    BY <1>7 DEF TryAcquire
  <2>3. ASSUME NEW s \in {"WAITING", "ACTIVE"}, Insert(c, b, s) PROVE OwnerInv'
    BY <1>1, <2>1, <2>2, <2>3, OwnerGrows
  <2>4. ASSUME NEW r \in rows, r.branch = b PROVE branch' = branch /\ pc[c] # "idle"
    BY <2>2, <2>4, NewClient
  <2>5. ASSUME \E r \in Waiting : r.branch = b, UNCHANGED <<rows, next_id>> PROVE OwnerInv'
    <3>1. branch' = branch /\ pc[c] # "idle"
      BY <2>4, <2>5, SMTT(30) DEF Waiting
    <3>2. QED
      BY <1>1, <2>1, <2>5, <3>1, OwnerShrinks
  <2>6. ASSUME Active = {}, NEW r \in rows, r.branch = b, Promote(r), next_id' = next_id PROVE OwnerInv'
    <3>1. branch' = branch /\ pc[c] # "idle"
      BY <2>4, <2>6
    <3>2. QED
      BY <1>1, <2>1, <2>6, <3>1, OwnerPromotes
  <2>7. QED
    BY <1>7, <2>3, <2>5, <2>6 DEF TryAcquire, InsertWaiting
<1>8. QED
  BY <1>2, <1>3, <1>4, <1>5, <1>6, <1>7 DEF Next, ClientStep
=============================================================================

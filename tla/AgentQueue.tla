----------------------------- MODULE AgentQueue -----------------------------
(***************************************************************************)
(* The FIFO channel lock of the apex-agent daemon (modules/queue) and its  *)
(* users: CLIs that build under the "build" lock (queue_cmd.go), or merge  *)
(* pipelines run by the daemon itself under "merge" (workflow/pipeline.go).*)
(* The table is in SQLite and outlives the daemon.  A transaction is one   *)
(* step.  Rows marked DONE are only reported, so they are left out.        *)
(*                                                                         *)
(* A waiting client's Acquire runs in the daemon and does not notice that  *)
(* the client has died.  Process ids are not reused.                       *)
(***************************************************************************)
EXTENDS Naturals

CONSTANTS Clients,     \* requests for the lock, each made once
          Branches,    \* workspace ids
          Shared,      \* may two clients be of the same branch?
          Channels,    \* the channels looked at, one in a behaviour
          Trying,      \* do clients of the build channel also use try-acquire?
          MaxCrashes   \* bound: processes that are killed

NoBranch == "none"

ASSUME QueueAssumption ==
  /\ NoBranch \notin Branches /\ Shared \in BOOLEAN /\ Trying \in BOOLEAN
  /\ Channels \subseteq {"build", "merge"} /\ MaxCrashes \in Nat

VARIABLES
  rows,      \* the WAITING and ACTIVE rows: [id, branch, pid, status]
  next_id,   \* AUTOINCREMENT
  pc,        \* where each client is
  branch,    \* its branch, once it has asked for the lock
  arrival,   \* history: what next_id was then
  alive,     \* live processes
  daemon,    \* which incarnation of the daemon runs
  crashes,   \* processes killed so far
  channel,   \* "build" or "merge"; the channels share no rows
  strayed    \* history: a Release has freed the lock of another branch

vars == <<rows, next_id, pc, branch, arrival, alive, daemon, crashes, channel, strayed>>

Merging == channel = "merge"

\* A CLI, its build, an incarnation of the daemon.
Cli(c) == <<"cli", c>>
Child(c) == <<"child", c>>
Daemon(n) == <<"daemon", n>>
Pids == ({"cli", "child"} \X Clients) \cup ({"daemon"} \X Nat)

\* The pid a client registers: a merge pipeline runs in the daemon.
Pid(c) == IF Merging THEN Daemon(daemon) ELSE Cli(c)

Waiting == {r \in rows : r.status = "WAITING"}
Active == {r \in rows : r.status = "ACTIVE"}
IsFirst(r) == r \in Waiting /\ \A q \in Waiting : r.id <= q.id

Waits(c) == pc[c] \in {"registered", "polling"}

Goto(c, l) == pc' = [pc EXCEPT ![c] = l]

Init ==
  /\ rows = {} /\ next_id = 1
  /\ pc = [c \in Clients |-> "idle"] /\ branch = [c \in Clients |-> NoBranch]
  /\ arrival = [c \in Clients |-> 0]
  /\ alive = {Cli(c) : c \in Clients} \cup {Daemon(0)} /\ daemon = 0
  /\ crashes = 0 /\ strayed = FALSE /\ channel \in Channels

-----------------------------------------------------------------------------
(* Acquire. *)

Insert(c, b, s) ==
  /\ rows' = rows \cup {[id |-> next_id, branch |-> b, pid |-> Pid(c), status |-> s]}
  /\ next_id' = next_id + 1

\* insertEntryTx, skipped if the branch is queued already.
InsertWaiting(c, b) ==
  IF \E r \in Waiting : r.branch = b THEN UNCHANGED <<rows, next_id>>
  ELSE Insert(c, b, "WAITING")

Activated(r) == [r EXCEPT !.status = "ACTIVE"]
Promote(r) == rows' = (rows \ {r}) \cup {Activated(r)}

\* The client c comes with branch b.
Asks(c, b) ==
  /\ pc[c] = "idle" /\ Cli(c) \in alive
  /\ Shared \/ \A d \in Clients : branch[d] # b
  /\ branch' = [branch EXCEPT ![c] = b] /\ arrival' = [arrival EXCEPT ![c] = next_id]

\* Acquire up to its loop.
Register(c, b) ==
  /\ Asks(c, b)
  /\ InsertWaiting(c, b)
  /\ Goto(c, "registered")
  /\ UNCHANGED <<alive, daemon, crashes, strayed, channel>>

Stale == {r \in rows : r.pid \notin alive}

\* Mutant of CleanupStale: only waiting entries are looked at.
CleanupStaleWaiting ==
  /\ Stale \cap Waiting # {}
  /\ rows' = rows \ (Stale \cap Waiting)
  /\ UNCHANGED <<next_id, pc, branch, arrival, alive, daemon, crashes, strayed, channel>>

\* CleanupStale, in the loop of any Acquire or on request.
CleanupStale ==
  /\ Stale # {}
  /\ rows' = rows \ Stale
  /\ UNCHANGED <<next_id, pc, branch, arrival, alive, daemon, crashes, strayed, channel>>

\* The loop of Acquire begins with a cleanup.
BeginPolling(c) ==
  /\ pc[c] = "registered"
  /\ rows' = rows \ Stale
  /\ Goto(c, "polling")
  /\ UNCHANGED <<next_id, branch, arrival, alive, daemon, crashes, strayed, channel>>

\* The answer reaches the client, if it still lives.
Granted(c) == Goto(c, IF Merging \/ Cli(c) \in alive THEN "granted" ELSE "gone")

\* Mutant of TryPromote: the check for an active entry is missing.
TryPromoteUnchecked(c) ==
  /\ pc[c] = "polling"
  /\ \E r \in rows : IsFirst(r) /\ r.branch = branch[c] /\ Promote(r)
  /\ Granted(c)
  /\ UNCHANGED <<next_id, branch, arrival, alive, daemon, crashes, strayed, channel>>

\* Mutant of TryPromote: any waiting entry of the branch will do.
TryPromoteAny(c) ==
  /\ pc[c] = "polling" /\ Active = {}
  /\ \E r \in Waiting : r.branch = branch[c] /\ Promote(r)
  /\ Granted(c)
  /\ UNCHANGED <<next_id, branch, arrival, alive, daemon, crashes, strayed, channel>>

\* tryPromote, in Acquire's loop.
TryPromote(c) ==
  /\ pc[c] = "polling" /\ Active = {}
  /\ \E r \in rows : IsFirst(r) /\ r.branch = branch[c] /\ Promote(r)
  /\ Granted(c)
  /\ UNCHANGED <<next_id, branch, arrival, alive, daemon, crashes, strayed, channel>>

\* handleAcquire's 30 minutes are over: the branch's waiting entries go, unless it is
\* CleanupStale that notices first.  (A merge pipeline waits as long as the daemon runs.)
Cancel(c) ==
  /\ ~Merging /\ Waits(c)
  /\ rows' = {r \in rows : r \in Active \/ r.branch # branch[c]} \/ UNCHANGED rows
  /\ Goto(c, "failed")
  /\ UNCHANGED <<next_id, branch, arrival, alive, daemon, crashes, strayed, channel>>

\* TryAcquire, which does not wait: the client may ask again, or leave.  Only an IPC
\* route leads here; a client that takes it is supposed to build as the CLI does.
TryAcquire(c, b) ==
  /\ Trying /\ ~Merging
  /\ Asks(c, b) \/ (pc[c] = "refused" /\ Cli(c) \in alive /\ b = branch[c] /\ UNCHANGED <<branch, arrival>>)
  /\ \/ /\ Active # {} \/ \E r \in rows : IsFirst(r) /\ r.branch # b
        /\ InsertWaiting(c, b)
        /\ Goto(c, "refused")
     \/ /\ Active = {}
        /\ \E r \in rows : IsFirst(r) /\ r.branch = b /\ Promote(r)
        /\ Goto(c, "granted") /\ UNCHANGED next_id
     \/ /\ rows = {}
        /\ Insert(c, b, "ACTIVE")
        /\ Goto(c, "granted")
  /\ UNCHANGED <<alive, daemon, crashes, strayed, channel>>

-----------------------------------------------------------------------------
(* The holder of the lock. *)

\* Start of the build; if it fails, or the log file cannot be created, the deferred
\* release is next.
StartChild(c) ==
  /\ ~Merging /\ pc[c] = "granted" /\ Cli(c) \in alive
  /\ \/ alive' = alive \cup {Child(c)} /\ Goto(c, "started")
     \/ Goto(c, "built") /\ UNCHANGED alive
  /\ UNCHANGED <<rows, next_id, branch, arrival, daemon, crashes, strayed, channel>>

PassedTo(r, p) == [r EXCEPT !.pid = p]

\* UpdatePID: the lock passes to the build process.
UpdatePID(c) ==
  /\ pc[c] = "started" /\ Cli(c) \in alive
  /\ rows' = {IF r \in Active /\ r.branch = branch[c] THEN PassedTo(r, Child(c)) ELSE r : r \in rows}
  /\ Goto(c, "built")
  /\ UNCHANGED <<next_id, branch, arrival, alive, daemon, crashes, strayed, channel>>

\* The build process ends, by itself or by the watchdog.
ChildExits(c) ==
  /\ Child(c) \in alive
  /\ alive' = alive \ {Child(c)}
  /\ UNCHANGED <<rows, next_id, pc, branch, arrival, daemon, crashes, strayed, channel>>

\* c has nothing left to do but to release the lock: Wait has returned and the watchdog
\* has ended, or MergeFullPipeline ends.
Finished(c) ==
  IF Merging THEN pc[c] = "granted"
  ELSE pc[c] \in {"built", "unrecorded"} /\ Cli(c) \in alive /\ Child(c) \notin alive

\* Mutant of Release: the CLI does not wait for its build.
ReleaseEarly(c) ==
  /\ IF Merging THEN pc[c] = "granted" ELSE pc[c] = "built" /\ Cli(c) \in alive
  /\ rows' = rows \ Active
  /\ strayed' = (strayed \/ \E r \in Active : r.branch # branch[c])
  /\ Goto(c, "done")
  /\ UNCHANGED <<next_id, branch, arrival, alive, daemon, crashes, channel>>

\* Release, of whatever entry of the channel is active.
Release(c) ==
  /\ Finished(c)
  /\ rows' = rows \ Active
  /\ strayed' = (strayed \/ \E r \in Active : r.branch # branch[c])
  /\ Goto(c, "done")
  /\ UNCHANGED <<next_id, branch, arrival, alive, daemon, crashes, channel>>

-----------------------------------------------------------------------------
(* Ends of processes. *)

\* A CLI that is through, or was refused, exits.
Exit(c) ==
  /\ pc[c] \in {"done", "failed", "refused"} /\ Cli(c) \in alive
  /\ alive' = alive \ {Cli(c)}
  /\ UNCHANGED <<rows, next_id, pc, branch, arrival, daemon, crashes, strayed, channel>>

\* A CLI is killed, with its build or without.
Kill(c) ==
  /\ crashes < MaxCrashes /\ crashes' = crashes + 1
  /\ ~Merging /\ Cli(c) \in alive
  /\ alive' \in {alive \ {Cli(c)}, alive \ {Cli(c), Child(c)}}
  /\ UNCHANGED <<rows, next_id, pc, branch, arrival, daemon, strayed, channel>>

\* The daemon is killed or shut down, and started again: requests in progress fail (the
\* cancelled ones take their entries along), merge pipelines end where they are, and an
\* update-pid or a release sent meanwhile is lost.
KillDaemon ==
  /\ crashes < MaxCrashes /\ crashes' = crashes + 1
  /\ daemon' = daemon + 1
  /\ alive' = (alive \ {Daemon(daemon)}) \cup {Daemon(daemon + 1)}
  /\ \E lost \in SUBSET {c \in Clients : Finished(c) \/ (pc[c] = "started" /\ Cli(c) \in alive)} :
       pc' = [c \in Clients |->
                IF Waits(c) \/ (Merging /\ pc[c] = "granted") THEN "failed"
                ELSE IF c \notin lost THEN pc[c]
                ELSE IF pc[c] = "started" THEN "unrecorded" ELSE "done"]
  /\ \E cancelled \in SUBSET {c \in Clients : Waits(c)} :
       rows' = {r \in rows : r \in Active \/ \A c \in cancelled : r.branch # branch[c]}
  /\ UNCHANGED <<next_id, branch, arrival, strayed, channel>>

\* What a client, and the Acquire that runs for it, does without being asked.
ClientStep(c) ==
  \/ BeginPolling(c) \/ TryPromote(c) \/ StartChild(c) \/ UpdatePID(c) \/ ChildExits(c) \/ Release(c)
  \/ Exit(c)

Next ==
  \/ \E c \in Clients : ClientStep(c) \/ Cancel(c) \/ Kill(c)
  \/ \E c \in Clients, b \in Branches : Register(c, b) \/ TryAcquire(c, b)
  \/ CleanupStale \/ KillDaemon

Spec == Init /\ [][Next]_vars

\* Every Acquire keeps polling and cleaning up, builds and merges end, a client that was
\* refused leaves in the end.
FairSpec == Spec /\ WF_vars(CleanupStale) /\ \A c \in Clients : WF_vars(ClientStep(c))

-----------------------------------------------------------------------------
(* Properties. *)

\* Type invariant.
TypeOK ==
  /\ rows \subseteq [id : Nat, branch : Branches, pid : Pids, status : {"WAITING", "ACTIVE"}]
  /\ next_id \in Nat
  /\ pc \in [Clients -> {"idle", "registered", "polling", "granted", "gone", "refused", "failed", "started",
                         "built", "unrecorded", "done"}]
  /\ branch \in [Clients -> Branches \cup {NoBranch}] /\ arrival \in [Clients -> Nat]
  /\ alive \subseteq Pids /\ daemon \in Nat /\ crashes \in 0..MaxCrashes
  /\ channel \in Channels /\ strayed \in BOOLEAN

\* Who does what the lock is for.
Working(c) == IF Merging THEN pc[c] = "granted" ELSE Child(c) \in alive

Alone == \A c, d \in Clients : Working(c) /\ Working(d) => c = d

\* The daemon runs one merge pipeline at a time, through cancelled requests, restarts of
\* the daemon and cleanups of what they left.
MergesExclusive == Merging => Alone

\* The build of a dead CLI, whose pid did not get into the table.
Orphan(c) == Child(c) \in alive /\ Cli(c) \notin alive /\ pc[c] \in {"started", "unrecorded"}

\* Builds of different branches are exclusive, through kills of CLIs and of the daemon
\* and cleanups of what they left, as long as no CLI dies before its build's pid is
\* recorded and no Release frees a lock that has passed to another branch.
BuildsExclusiveUnlessStrayed ==
  ~Merging /\ ~Shared /\ ~strayed /\ (\A c \in Clients : ~Orphan(c)) => Alone

\* In this step nobody is given the lock while a live client that came earlier waits.
NotOvertaken ==
  \A c, d \in Clients :
    /\ pc[c] # "granted" /\ pc'[c] = "granted"
    /\ c # d /\ Waits(d) /\ Pid(d) \in alive
    => arrival'[c] < arrival[d]

\* First come, first served, as the order of the ids has it, whatever is cancelled,
\* killed or cleaned up in between.
FirstComeFirstServed == [][NotOvertaken]_vars

\* If no two clients are of one branch, a live client that waits for the lock gets it.
WaiterServed ==
  \A c \in Clients : Waits(c) ~> (~Waits(c) \/ Cli(c) \notin alive)

\* queue_cmd.go: the lock of the build channel guarantees mutual exclusion of builds and
\* benchmarks.
BuildsExclusive == Alone

\* manager.go: "Acquire acquires the lock for channel, blocking until it succeeds."
AcquireSucceeds == WaiterServed
=============================================================================

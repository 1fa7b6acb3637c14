------------------------------ MODULE Listener ------------------------------
(***************************************************************************)
(* Admission of connections: TcpAcceptor's accept loop, Listener's         *)
(* max_connections and per-IP checks (listener.hpp), the per-IP counters   *)
(* that ConnectionLimiter keeps on an owner core, and the life of an       *)
(* accepted connection in ConnectionHandler, which gives its slot back.    *)
(*                                                                         *)
(* An address is represented by its FNV-1a hash, NoIp is the empty string  *)
(* extract_ip returns on error.  The cross_core_call that reaches the      *)
(* owner is CrossCoreCall's: the task runs try_increment unless the caller *)
(* has timed out, then settles the status.  Decrements are posted to the   *)
(* owner's io_context.  A core is one thread: while a task is between      *)
(* try_increment and the status, its core does nothing else.               *)
(***************************************************************************)
EXTENDS Naturals, FiniteSets, FiniteSetsExt

CONSTANTS Conns,           \* client connections, each may connect again
          Ips,             \* a set of hash values
          NoIp, None,
          NumCores,
          MaxPerIp,        \* max_connections_per_ip
          MaxConnections,  \* max_connections, 0 for no limit
          Reuseport,       \* an acceptor on every core, or one on core 0
          MaxTimeouts      \* bound: calls to the owner core that time out

\* What the constants may be.
ListenerAssumption ==
  /\ Ips \subseteq Nat /\ NoIp \notin Ips /\ None \notin Conns
  /\ NumCores \in Nat \ {0} /\ MaxPerIp \in Nat \ {0} /\ MaxConnections \in Nat
  /\ Reuseport \in BOOLEAN /\ MaxTimeouts \in Nat

Cores == 0..(NumCores - 1)
owner_core(i) == i % NumCores

VARIABLES
  running,    \* the acceptors accept
  next_core,  \* next_core_ modulo the number of cores
  pc,         \* where each connection is
  ip,         \* remote_ip of each connection
  acc, tgt,   \* accepting and target core
  queued,     \* connections whose try_increment task is in the owner's queue
  ran,        \* what try_increment returned: "no" until it has run
  status,     \* the call's status: 0 pending, 1 answered, 2 timed out
  busy,       \* the task each core's thread is in the middle of
  counts,     \* counts_ of the owner core, 0 for an absent entry
  decs,       \* decrements posted to the owner core
  active,     \* active_sessions_ of each core's ConnectionHandler
  timeouts    \* calls that have timed out

callVars == <<queued, ran, status, busy>>
vars == <<running, next_core, pc, ip, acc, tgt, callVars, counts, decs, active, timeouts>>

Init ==
  /\ running = TRUE /\ next_core = 0
  /\ pc = [c \in Conns |-> "idle"]
  /\ ip = [c \in Conns |-> NoIp]
  /\ acc = [c \in Conns |-> 0] /\ tgt = [c \in Conns |-> 0]
  /\ queued = {} /\ ran = [c \in Conns |-> "no"] /\ status = [c \in Conns |-> 0]
  /\ busy = [k \in Cores |-> None]
  /\ counts = [i \in Ips |-> 0] /\ decs = [i \in Ips |-> 0]
  /\ active = [k \in Cores |-> 0]
  /\ timeouts = 0

-----------------------------------------------------------------------------
(* ConnectionLimiter, on the owner core. *)

\* Mutant of HasRoom: one connection more than the limit.
HasRoomOffByOne(i) == counts[i] <= MaxPerIp

\* What try_increment returns.
HasRoom(i) == counts[i] < MaxPerIp

TryIncrement(i) == counts' = [counts EXCEPT ![i] = IF HasRoom(i) THEN @ + 1 ELSE @]

\* decrement: an absent entry stays absent.
Decrement(i) == counts' = [counts EXCEPT ![i] = IF @ = 0 THEN 0 ELSE @ - 1]

-----------------------------------------------------------------------------
(* TcpAcceptor and Listener. *)

active_sessions == MapThenSumSet(LAMBDA k : active[k], Cores)

\* The accept callback, on_accept or its per-core version: the max_connections
\* check, then the choice of the target core.
OnAccept(c, i, k) ==
  /\ running
  /\ pc[c] = "idle" /\ c \notin queued /\ \A j \in Cores : busy[j] # c
  /\ Reuseport \/ k = 0
  /\ busy[k] = None
  /\ \/ /\ MaxConnections > 0 /\ active_sessions >= MaxConnections
        /\ UNCHANGED <<next_core, pc, ip, acc, tgt, ran, status>>
     \/ /\ MaxConnections = 0 \/ active_sessions < MaxConnections
        /\ tgt' = [tgt EXCEPT ![c] = IF Reuseport THEN k ELSE next_core]
        /\ next_core' = IF Reuseport THEN next_core ELSE (next_core + 1) % NumCores
        /\ ip' = [ip EXCEPT ![c] = i] /\ acc' = [acc EXCEPT ![c] = k]
        /\ pc' = [pc EXCEPT ![c] = IF i = NoIp THEN "forward" ELSE "check"]
        /\ ran' = [ran EXCEPT ![c] = "no"] /\ status' = [status EXCEPT ![c] = 0]
  /\ UNCHANGED <<timeouts, running, queued, busy, counts, decs, active>>

\* checked_accept on the owner core.
CheckLocal(c) ==
  /\ pc[c] = "check" /\ acc[c] = owner_core(ip[c]) /\ busy[acc[c]] = None
  /\ TryIncrement(ip[c])
  /\ pc' = [pc EXCEPT ![c] = IF HasRoom(ip[c]) THEN "forward" ELSE "idle"]
  /\ UNCHANGED <<timeouts, running, next_core, ip, acc, tgt, callVars, decs, active>>

\* checked_accept elsewhere: the task is sent to the owner core.
CheckRemote(c) ==
  /\ pc[c] = "check" /\ acc[c] # owner_core(ip[c]) /\ busy[acc[c]] = None
  /\ queued' = queued \cup {c}
  /\ pc' = [pc EXCEPT ![c] = "calling"]
  /\ UNCHANGED <<timeouts, running, next_core, ip, acc, tgt, ran, status, busy, counts, decs, active>>

\* The owner core runs the task, unless the call is settled already.
RunTask(c) ==
  LET k == owner_core(ip[c]) IN
  /\ c \in queued /\ busy[k] = None
  /\ queued' = queued \ {c}
  /\ IF status[c] # 0
     THEN UNCHANGED <<counts, ran, busy>>
     ELSE /\ TryIncrement(ip[c])
          /\ ran' = [ran EXCEPT ![c] = IF HasRoom(ip[c]) THEN "true" ELSE "false"]
          /\ busy' = [busy EXCEPT ![k] = c]
  /\ UNCHANGED <<timeouts, running, next_core, pc, ip, acc, tgt, status, decs, active>>

\* The task's compare-exchange of the status.
SettleTask(k) ==
  /\ busy[k] # None
  /\ status' = [status EXCEPT ![busy[k]] = IF @ = 0 THEN 1 ELSE @]
  /\ busy' = [busy EXCEPT ![k] = None]
  /\ UNCHANGED <<timeouts, running, next_core, pc, ip, acc, tgt, queued, ran, counts, decs, active>>

\* The caller has the answer.
Answer(c) ==
  /\ pc[c] = "calling" /\ status[c] = 1 /\ busy[acc[c]] = None
  /\ pc' = [pc EXCEPT ![c] = IF ran[c] = "true" THEN "forward" ELSE "idle"]
  /\ UNCHANGED <<timeouts, running, next_core, ip, acc, tgt, callVars, counts, decs, active>>

\* The caller times out: it posts a compensating decrement and rejects.
TimeOut(c) ==
  /\ timeouts < MaxTimeouts /\ timeouts' = timeouts + 1
  /\ pc[c] = "calling" /\ status[c] = 0 /\ busy[acc[c]] = None
  /\ status' = [status EXCEPT ![c] = 2]
  /\ decs' = [decs EXCEPT ![ip[c]] = @ + 1]
  /\ pc' = [pc EXCEPT ![c] = "idle"]
  /\ UNCHANGED <<running, next_core, ip, acc, tgt, queued, ran, busy, counts, active>>

RunDecrement(i) ==
  /\ decs[i] > 0 /\ busy[owner_core(i)] = None
  /\ decs' = [decs EXCEPT ![i] = @ - 1]
  /\ Decrement(i)
  /\ UNCHANGED <<timeouts, running, next_core, pc, ip, acc, tgt, callVars, active>>

\* forward_to_handler and accept_connection, directly or through the target's
\* io_context: a session, and a read_loop that has not started yet.
AcceptConnection(c) ==
  /\ pc[c] = "forward" /\ busy[tgt[c]] = None
  /\ pc' = [pc EXCEPT ![c] = "spawned"]
  /\ UNCHANGED <<timeouts, running, next_core, ip, acc, tgt, callVars, counts, decs, active>>

\* drain() or stop(): the acceptors close.
StopAccepting ==
  /\ running
  /\ running' = FALSE
  /\ UNCHANGED <<timeouts, next_core, pc, ip, acc, tgt, callVars, counts, decs, active>>

-----------------------------------------------------------------------------
(* ConnectionHandler. *)

\* read_loop starts and is counted.
StartReadLoop(c) ==
  /\ pc[c] = "spawned" /\ busy[tgt[c]] = None
  /\ pc' = [pc EXCEPT ![c] = "active"]
  /\ active' = [active EXCEPT ![tgt[c]] = @ + 1]
  /\ UNCHANGED <<timeouts, running, next_core, ip, acc, tgt, callVars, counts, decs>>

\* read_loop ends: after a failed handshake, a read error, a bad frame or an
\* exception; connection_closed_cb_ gives the slot back.
EndReadLoop(c) ==
  /\ pc[c] = "active" /\ busy[tgt[c]] = None
  /\ pc' = [pc EXCEPT ![c] = "idle"]
  /\ active' = [active EXCEPT ![tgt[c]] = @ - 1]
  /\ \/ ip[c] = NoIp /\ UNCHANGED <<counts, decs>>
     \/ ip[c] # NoIp /\ owner_core(ip[c]) = tgt[c] /\ Decrement(ip[c]) /\ UNCHANGED decs
     \/ /\ ip[c] # NoIp /\ owner_core(ip[c]) # tgt[c]
        /\ decs' = [decs EXCEPT ![ip[c]] = @ + 1]
        /\ UNCHANGED counts
  /\ UNCHANGED <<timeouts, running, next_core, ip, acc, tgt, callVars>>

Next ==
  \/ \E c \in Conns :
       \/ \E i \in Ips \cup {NoIp}, k \in Cores : OnAccept(c, i, k)
       \/ CheckLocal(c) \/ CheckRemote(c) \/ RunTask(c) \/ Answer(c) \/ TimeOut(c)
       \/ AcceptConnection(c) \/ StartReadLoop(c) \/ EndReadLoop(c)
  \/ \E k \in Cores : SettleTask(k)
  \/ \E i \in Ips : RunDecrement(i)
  \/ StopAccepting

Spec == Init /\ [][Next]_vars

-----------------------------------------------------------------------------
(* Properties. *)

Live == {"forward", "spawned", "active"}

\* Connections whose increment has been made and not yet given back.
Holding(i) ==
  {c \in Conns : ip[c] = i /\ (pc[c] \in Live \/ (pc[c] = "calling" /\ ran[c] = "true"))}

\* Type invariant.
TypeOK ==
  /\ running \in BOOLEAN /\ next_core \in Cores
  /\ pc \in [Conns -> {"idle", "check", "calling"} \cup Live]
  /\ ip \in [Conns -> Ips \cup {NoIp}]
  /\ acc \in [Conns -> Cores] /\ tgt \in [Conns -> Cores]
  /\ queued \subseteq Conns
  /\ ran \in [Conns -> {"no", "true", "false"}] /\ status \in [Conns -> 0..2]
  /\ busy \in [Cores -> Conns \cup {None}]
  /\ counts \in [Ips -> 0..MaxPerIp] /\ decs \in [Ips -> Nat]
  /\ active \in [Cores -> 0..Cardinality(Conns)]
  /\ timeouts \in 0..MaxTimeouts

\* An address never has more connections than max_connections_per_ip, on whatever
\* cores they were accepted and run.  The compensating decrement of checked_accept is
\* called safe; it keeps the limit only while no cross_core_call times out.
PerIpLimit == \A i \in Ips : Cardinality({c \in Conns : ip[c] = i /\ pc[c] \in Live}) <= MaxPerIp

\* No slot leaks, timeouts or not: what is counted beyond the connections that
\* hold a slot is about to be given back.  When they are gone, so is the count.
NoLeakedSlot == \A i \in Ips : counts[i] <= Cardinality(Holding(i)) + decs[i]

\* docs/apex_common/review/20260323_021327_auto-review.md: the max_connections check
\* is approximate, at most num_cores - 1 connections over.
OvershootBounded ==
  MaxConnections > 0 =>
    active_sessions <= MaxConnections + NumCores - 1
=============================================================================

------------------------------- MODULE PgPool -------------------------------
(***************************************************************************)
(* The PostgreSQL connections of one core: PgPool (pg_pool.cpp), the       *)
(* connections in it (pg_connection.cpp), the transaction guard            *)
(* (pg_transaction.hpp) and the coroutines that use them.                  *)
(*                                                                         *)
(* Coroutines of one core interleave at their awaits.  Four programs use   *)
(* the pool: PgAdapter::query/execute (Queries); the token rotation of     *)
(* AuthService::on_refresh_token (Rotations); the usage pg_transaction.hpp *)
(* documents, a guard that leaves its scope before the connection is       *)
(* released (Scoped); and acquire_with_retry (Retries).                    *)
(***************************************************************************)
EXTENDS Naturals, Sequences, FiniteSets

CONSTANTS Queries, Rotations, Scoped, Retries, \* coroutines, by program
          Conns,           \* addresses PgConnection objects can have
          NoConn,          \* the null unique_ptr
          MaxSize,         \* pool_config_.max_size
          MaxIdleTime,     \* pool_config_.max_idle_time, in ticks
          MaxRetries       \* config_.max_acquire_retries

Workers == Queries \cup Rotations \cup Scoped \cup Retries

\* What the constants may be.
PoolAssumption ==
  /\ IsFiniteSet(Workers) /\ NoConn \notin Conns
  /\ MaxSize \in Nat \ {0} /\ MaxIdleTime \in Nat \ {0} /\ MaxRetries \in Nat

VARIABLES
  obj,           \* the PgConnection at each address
  idle,          \* idle_: connections and the time since they were returned
  total_count, active_count,
  pc,            \* where each coroutine is suspended
  conn,          \* the connection each coroutine owns
  guard,         \* its PgTransaction: "none", "idle", "begun" or "finished"
  attempt        \* iteration of acquire_with_retry

poolVars == <<idle, total_count, active_count>>
vars == <<obj, poolVars, pc, conn, guard, attempt>>

\* A destroyed object, and one that do_create_connection has just made.
Gone == [alive |-> FALSE, connected |-> FALSE, ok |-> FALSE, busy |-> FALSE,
         txn |-> "none", poisoned |-> FALSE]
Fresh == [Gone EXCEPT !.alive = TRUE]

Init ==
  /\ obj = [c \in Conns |-> Gone]
  /\ idle = <<>> /\ total_count = 0 /\ active_count = 0
  /\ pc = [w \in Workers |-> "start"] /\ conn = [w \in Workers |-> NoConn]
  /\ guard = [w \in Workers |-> "none"] /\ attempt = [w \in Workers |-> 0]

\* do_validate: connected_ and PQstatus is CONNECTION_OK.
Valid(c) == obj[c].connected /\ obj[c].ok

Destroyed(cs) == [c \in Conns |-> IF c \in cs THEN Gone ELSE obj[c]]
IdleConns(from, to) == {idle[i].conn : i \in from .. to}

-----------------------------------------------------------------------------
(* PgPool *)

\* acquire finds a valid idle connection behind k invalid ones, which it destroys.
AcquireIdle(w, k) ==
  /\ k < Len(idle) /\ Valid(idle[k + 1].conn)
  /\ \A i \in 1 .. k : ~Valid(idle[i].conn)
  /\ obj' = Destroyed(IdleConns(1, k))
  /\ idle' = SubSeq(idle, k + 2, Len(idle))
  /\ total_count' = total_count - k /\ active_count' = active_count + 1
  /\ conn' = [conn EXCEPT ![w] = idle[k + 1].conn]

NoneValid == \A i \in 1 .. Len(idle) : ~Valid(idle[i].conn)

HasRoom == total_count - Len(idle) < MaxSize

\* ... or destroys them all and creates one.
AcquireNew(w) ==
  /\ NoneValid /\ HasRoom
  /\ \E c \in Conns :
       /\ ~obj[c].alive
       /\ obj' = [Destroyed(IdleConns(1, Len(idle))) EXCEPT ![c] = Fresh]
       /\ conn' = [conn EXCEPT ![w] = c]
  /\ idle' = <<>>
  /\ total_count' = total_count - Len(idle) + 1 /\ active_count' = active_count + 1

\* ... or fails.
AcquireNone ==
  /\ NoneValid /\ ~HasRoom
  /\ obj' = Destroyed(IdleConns(1, Len(idle)))
  /\ idle' = <<>> /\ total_count' = total_count - Len(idle)
  /\ UNCHANGED <<active_count, conn>>

Less(count) == IF count > 0 THEN count - 1 ELSE 0

\* discard(std::move(conn)).
Discard(w) ==
  /\ obj' = Destroyed({conn[w]})
  /\ conn' = [conn EXCEPT ![w] = NoConn]
  /\ active_count' = Less(active_count) /\ total_count' = Less(total_count)
  /\ UNCHANGED idle

Keep(w) ==
  /\ conn' = [conn EXCEPT ![w] = NoConn]
  /\ active_count' = active_count - 1
  /\ idle' = Append(idle, [conn |-> conn[w], age |-> 0])
  /\ UNCHANGED <<obj, total_count>>

\* Mutant of Release: a poisoned connection is kept.
ReleaseAlways(w) == Keep(w)

\* release(std::move(conn)).
Release(w) == IF obj[conn[w]].poisoned THEN Discard(w) ELSE Keep(w)

\* shrink_idle destroys from the front while the front is old enough.
ShrinkIdle ==
  /\ \E k \in 1 .. Len(idle) :
       /\ \A i \in 1 .. k : idle[i].age >= MaxIdleTime
       /\ k < Len(idle) => idle[k + 1].age < MaxIdleTime
       /\ obj' = Destroyed(IdleConns(1, k))
       /\ idle' = SubSeq(idle, k + 1, Len(idle))
       /\ total_count' = total_count - k
  /\ UNCHANGED <<active_count, pc, conn, guard, attempt>>

\* health_check_tick puts every valid connection back with a new returned_at.
HealthCheckTick ==
  /\ idle # <<>>
  /\ LET sound == SelectSeq(idle, LAMBDA e : Valid(e.conn))
     IN /\ idle' = [i \in 1 .. Len(sound) |-> [conn |-> sound[i].conn, age |-> 0]]
        /\ total_count' = total_count - (Len(idle) - Len(sound))
        /\ obj' = Destroyed({c \in IdleConns(1, Len(idle)) : ~Valid(c)})
  /\ UNCHANGED <<active_count, pc, conn, guard, attempt>>

\* close_all, of do_close.
CloseAll ==
  /\ idle # <<>>
  /\ obj' = Destroyed(IdleConns(1, Len(idle)))
  /\ idle' = <<>> /\ total_count' = total_count - Len(idle)
  /\ UNCHANGED <<active_count, pc, conn, guard, attempt>>

Tick ==
  /\ \E i \in 1 .. Len(idle) : idle[i].age < MaxIdleTime
  /\ idle' = [i \in 1 .. Len(idle) |->
                [idle[i] EXCEPT !.age = IF @ < MaxIdleTime THEN @ + 1 ELSE @]]
  /\ UNCHANGED <<obj, total_count, active_count, pc, conn, guard, attempt>>

-----------------------------------------------------------------------------
(* Statements.  A query ends well, is refused by the server (which leaves an *)
(* open transaction failed), loses the connection, or stops waiting with the *)
(* answer still to come.                                                     *)

To(w, there) == pc' = [pc EXCEPT ![w] = there]

\* The connection after a query that succeeds and moves its transaction to `txn'.
QuerySucceeds(c, txn) ==
  /\ Valid(c) /\ ~obj[c].busy
  /\ obj' = [obj EXCEPT ![c].txn = txn]

QueryFails(c) ==
  \/ /\ Valid(c) /\ ~obj[c].busy
     /\ obj' = [obj EXCEPT ![c].txn = IF @ = "open" THEN "failed" ELSE @]
  \/ obj' = [obj EXCEPT ![c].ok = FALSE, ![c].txn = "none"]
  \/ Valid(c) /\ obj' = [obj EXCEPT ![c].busy = TRUE]

-----------------------------------------------------------------------------
(* acquire_connected and its callers *)

\* acquire_connected up to connect_async.
AcquireConnected(w) ==
  /\ pc[w] = "start" /\ w \notin Retries
  /\ \/ (\E k \in 0 .. Len(idle) : AcquireIdle(w, k)) /\ To(w, "ready")
     \/ AcquireNew(w) /\ To(w, "connecting")
     \/ AcquireNone /\ To(w, "start")
  /\ UNCHANGED <<guard, attempt>>

ConnectSucceeds(w) ==
  /\ pc[w] = "connecting"
  /\ obj' = [obj EXCEPT ![conn[w]].connected = TRUE, ![conn[w]].ok = TRUE]
  /\ To(w, "ready")
  /\ UNCHANGED <<poolVars, conn, guard, attempt>>

ConnectFails(w) ==
  /\ pc[w] = "connecting"
  /\ Discard(w) /\ To(w, "start")
  /\ UNCHANGED <<guard, attempt>>

\* PgAdapter::query and execute: await the statement ...
Query(w) ==
  /\ pc[w] = "ready" /\ w \in Queries
  /\ \/ QuerySucceeds(conn[w], "none") /\ To(w, "release")
     \/ QueryFails(conn[w]) /\ To(w, "discard")
  /\ UNCHANGED <<poolVars, conn, guard, attempt>>

\* ... and give the connection back; here every program ends but for its guard.
GiveBack(w) ==
  /\ \/ pc[w] = "release" /\ Release(w)
     \/ pc[w] = "discard" /\ Discard(w)
  /\ To(w, IF guard[w] = "none" THEN "start" ELSE "unwind")
  /\ UNCHANGED <<guard, attempt>>

\* PgTransaction txn(*conn); txn.begin().
Begin(w) ==
  /\ pc[w] = "ready" /\ w \in Rotations \cup Scoped
  /\ \/ /\ QuerySucceeds(conn[w], "open")
        /\ guard' = [guard EXCEPT ![w] = "begun"] /\ To(w, "revoke")
     \/ /\ QueryFails(conn[w])
        /\ guard' = [guard EXCEPT ![w] = "idle"] /\ To(w, "discard")
  /\ UNCHANGED <<poolVars, conn, attempt>>

\* execute_params, twice: the statement that revokes and the one that inserts.
Execute(w) ==
  /\ pc[w] \in {"revoke", "insert"}
  /\ \/ /\ QuerySucceeds(conn[w], "open")
        /\ To(w, IF pc[w] = "revoke" THEN "insert" ELSE "commit")
     \/ /\ QueryFails(conn[w])
        /\ To(w, IF w \in Rotations THEN "rollback" ELSE "unwind")
  /\ UNCHANGED <<poolVars, conn, guard, attempt>>

\* A failed COMMIT leaves the guard begun.
Commit(w) ==
  /\ pc[w] = "commit"
  /\ \/ /\ QuerySucceeds(conn[w], "none")
        /\ guard' = [guard EXCEPT ![w] = "finished"]
        /\ To(w, IF w \in Rotations THEN "release" ELSE "unwind")
     \/ /\ QueryFails(conn[w])
        /\ UNCHANGED guard
        /\ To(w, IF w \in Rotations THEN "discard" ELSE "unwind")
  /\ UNCHANGED <<poolVars, conn, attempt>>

\* rollback finishes the guard whether or not ROLLBACK succeeded; the rotation then
\* discards the connection.
Rollback(w) ==
  /\ pc[w] = "rollback"
  /\ QuerySucceeds(conn[w], "none") \/ QueryFails(conn[w])
  /\ guard' = [guard EXCEPT ![w] = "finished"] /\ To(w, "discard")
  /\ UNCHANGED <<poolVars, conn, attempt>>

\* ~PgTransactionT.  A scoped guard dies before its connection is released.  The guard
\* of the rotation dies after it: if it is still begun it writes to a destroyed object,
\* whose address may by now be that of another connection.
Unwind(w) ==
  /\ pc[w] = "unwind"
  /\ IF guard[w] # "begun" THEN UNCHANGED obj
     ELSE IF conn[w] # NoConn THEN obj' = [obj EXCEPT ![conn[w]].poisoned = TRUE]
     ELSE \/ UNCHANGED obj
          \/ \E c \in Conns : obj[c].alive /\ obj' = [obj EXCEPT ![c].poisoned = TRUE]
  /\ guard' = [guard EXCEPT ![w] = "none"]
  /\ To(w, IF conn[w] # NoConn THEN "release" ELSE "start")
  /\ UNCHANGED <<poolVars, conn, attempt>>

\* acquire_with_retry hands out a new connection without connecting it; the caller
\* returns it.  PoolExhausted ends the call.
AcquireWithRetry(w) ==
  /\ pc[w] = "start" /\ w \in Retries
  /\ \/ /\ (\E k \in 0 .. Len(idle) : AcquireIdle(w, k)) \/ AcquireNew(w)
        /\ To(w, "release") /\ attempt' = [attempt EXCEPT ![w] = 0]
     \/ /\ AcquireNone /\ UNCHANGED pc
        /\ attempt' = [attempt EXCEPT ![w] = IF @ < MaxRetries THEN @ + 1 ELSE 0]
  /\ UNCHANGED guard

Step(w) ==
  \/ AcquireConnected(w) \/ ConnectSucceeds(w) \/ ConnectFails(w) \/ Query(w)
  \/ GiveBack(w) \/ Begin(w) \/ Execute(w) \/ Commit(w) \/ Rollback(w) \/ Unwind(w)
  \/ AcquireWithRetry(w)

Maintain == ShrinkIdle \/ HealthCheckTick \/ CloseAll \/ Tick

Next == Maintain \/ \E w \in Workers : Step(w)

Spec == Init /\ [][Next]_vars

-----------------------------------------------------------------------------
(* Properties *)

Where ==
  {"start", "connecting", "ready", "release", "discard", "revoke", "insert", "commit",
   "rollback", "unwind"}

TypeOK ==
  /\ obj \in [Conns -> [alive : BOOLEAN, connected : BOOLEAN, ok : BOOLEAN, busy : BOOLEAN,
                        txn : {"none", "open", "failed"}, poisoned : BOOLEAN]]
  /\ idle \in Seq([conn : Conns, age : 0 .. MaxIdleTime])
  /\ total_count \in Nat /\ active_count \in Nat
  /\ pc \in [Workers -> Where] /\ conn \in [Workers -> Conns \cup {NoConn}]
  /\ guard \in [Workers -> {"none", "idle", "begun", "finished"}]
  /\ attempt \in [Workers -> 0 .. MaxRetries]

Holders == {w \in Workers : conn[w] # NoConn}

\* The counters of the pool agree with who owns what, through every way a connection is
\* taken, returned, dropped or destroyed: no connection leaks out of the count, none has
\* two owners, and no more than max_size exist.
PoolAccounting ==
  /\ active_count = Cardinality(Holders)
  /\ total_count = active_count + Len(idle) /\ total_count <= MaxSize
  /\ \A v, w \in Holders : v # w => conn[v] # conn[w]
  /\ \A i \in 1 .. Len(idle) : \A w \in Holders : idle[i].conn # conn[w]
  /\ \A i, j \in 1 .. Len(idle) : i # j => idle[i].conn # idle[j].conn

\* Whoever gets an idle connection can use it as if it were new: no transaction of an
\* earlier user is open on it, no answer to an earlier statement is still to come.
IdleIsClean ==
  \A i \in 1 .. Len(idle) :
    LET o == obj[idle[i].conn]
    IN o.alive /\ o.txn = "none" /\ ~o.busy

\* shrink_idle may stop at the first young entry: no older one hides behind it.
IdleInReturnOrder ==
  \A i, j \in 1 .. Len(idle) : i < j => idle[i].age >= idle[j].age

\* The guard poisons a connection that still exists (pg_transaction.hpp:29).
GuardOutlived == \A w \in Workers : pc[w] = "unwind" /\ guard[w] = "begun" => conn[w] # NoConn
=============================================================================

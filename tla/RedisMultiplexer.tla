-------------------------- MODULE RedisMultiplexer --------------------------
(***************************************************************************)
(* RedisMultiplexer (redis_multiplexer.cpp) on one core: commands awaiting *)
(* replies that hiredis delivers in the order of sending, their timeouts,  *)
(* AUTH, the reconnect loop, loss of the connection and close().           *)
(*                                                                         *)
(* Every handler runs on the core's thread, one at a time, but a timer     *)
(* that has expired and a coroutine that has been woken wait in the        *)
(* io_context's queue behind whatever is there: cancelling an expired      *)
(* timer does nothing, and replies come between a wake-up and the resumed  *)
(* coroutine.                                                              *)
(***************************************************************************)
EXTENDS Naturals, Sequences, FiniteSets, SequencesExt

CONSTANTS Commands,      \* commands of the services, each issued once
          Auths,         \* AUTH commands, one per connection attempt
          MaxPending,    \* max_pending_commands
          Timeouts,      \* command_timeout may expire
          Cancels        \* AdapterBase::drain cancels the AUTH or reconnect coroutine

\* What the constants may be.
MultiplexerAssumption ==
  /\ IsFiniteSet(Commands) /\ IsFiniteSet(Auths) /\ Commands \cap Auths = {}
  /\ MaxPending \in Nat \ {0} /\ {Timeouts, Cancels} \subseteq BOOLEAN

VARIABLES
  conn,     \* "none", "up", or "lost": hiredis has freed it and conn_ still points to it
  pending,  \* pending_
  wire,     \* the commands hiredis has a callback for, in order of sending
  pc,       \* each command's coroutine: "idle", "waiting", "resumed", "done"
  block,    \* each command's slab block: "none", "alive", "freed"
  timed_out, result,
  timer,    \* each command's timeout: "off", "armed", "expired" (its handler is queued)
  loop,     \* the AUTH or reconnect coroutine
  reconnect_active,
  misused   \* handlers that have touched a freed block

cmdVars == <<pc, block, timed_out, result, timer>>
vars == <<conn, pending, wire, cmdVars, loop, reconnect_active, misused>>

Cmds == Commands \cup Auths

Alive == {c \in Cmds : block[c] = "alive"}

\* connect() has made its first attempt, with a password configured.
Init ==
  /\ pending = <<>> /\ wire = <<>>
  /\ pc = [c \in Cmds |-> "idle"] /\ block = [c \in Cmds |-> "none"]
  /\ timed_out = [c \in Cmds |-> FALSE] /\ result = [c \in Cmds |-> "timeout"]
  /\ timer = [c \in Cmds |-> "off"]
  /\ \/ conn = "up" /\ loop = "initial_auth" /\ reconnect_active = FALSE
     \/ conn = "none" /\ loop = "reconnect" /\ reconnect_active = TRUE
  /\ misused = {}

-----------------------------------------------------------------------------
(* Commands. *)

Touch(who, c) == misused' = IF block[c] = "alive" THEN misused ELSE misused \cup {who}

\* The part of command, submit_formatted_command and authenticate before the await.
Submit(c) ==
  /\ pc[c] = "idle" /\ conn = "up" /\ Cardinality(Alive) < MaxPending
  /\ pending' = Append(pending, c) /\ wire' = Append(wire, c)
  /\ pc' = [pc EXCEPT ![c] = "waiting"] /\ block' = [block EXCEPT ![c] = "alive"]
  /\ timer' = [timer EXCEPT ![c] = "armed"]
  /\ UNCHANGED <<timed_out, result>>

Command(c) ==
  /\ c \in Commands
  /\ Submit(c)
  /\ UNCHANGED <<conn, loop, reconnect_active, misused>>

\* No connection, no block left in the slab, or hiredis refuses, as it may when asked
\* to use a context that it has freed.
RefuseCommand(c) ==
  /\ c \in Commands /\ pc[c] = "idle"
  /\ pc' = [pc EXCEPT ![c] = "done"] /\ result' = [result EXCEPT ![c] = "error"]
  /\ UNCHANGED <<conn, pending, wire, block, timed_out, timer, loop, reconnect_active, misused>>

TimerExpires(c) ==
  /\ Timeouts /\ timer[c] = "armed"
  /\ timer' = [timer EXCEPT ![c] = "expired"]
  /\ UNCHANGED <<conn, pending, wire, pc, block, timed_out, result, loop, reconnect_active, misused>>

\* A cancelled resolver wakes the coroutine that waits on it.
Wake(c) == IF pc[c] = "waiting" THEN "resumed" ELSE pc[c]

\* Mutant of TimeoutHandler: the coroutine is not woken.
TimeoutHandlerSilent(c) ==
  /\ timer[c] = "expired"
  /\ Touch("timeout", c)
  /\ timer' = [timer EXCEPT ![c] = "off"]
  /\ timed_out' = [timed_out EXCEPT ![c] = TRUE] /\ result' = [result EXCEPT ![c] = "timeout"]
  /\ UNCHANGED <<conn, pending, wire, pc, block, loop, reconnect_active>>

\* The handler of an expired timeout.
TimeoutHandler(c) ==
  /\ timer[c] = "expired"
  /\ Touch("timeout", c)
  /\ timer' = [timer EXCEPT ![c] = "off"]
  /\ timed_out' = [timed_out EXCEPT ![c] = TRUE] /\ result' = [result EXCEPT ![c] = "timeout"]
  /\ pc' = [pc EXCEPT ![c] = Wake(c)]
  /\ UNCHANGED <<conn, pending, wire, block, loop, reconnect_active>>

\* static_on_reply with reply r: the front of pending_ gets it; one that has timed out
\* is freed.
OnReply(r) ==
  LET front == Head(pending) IN
  /\ conn = "up" /\ wire # <<>> /\ pending # <<>>
  /\ wire' = Tail(wire) /\ pending' = Tail(pending)
  /\ Touch("reply", front)
  /\ IF timed_out[front]
     THEN block' = [block EXCEPT ![front] = "freed"] /\ UNCHANGED <<result, pc>>
     ELSE /\ result' = [result EXCEPT ![front] = r] /\ pc' = [pc EXCEPT ![front] = Wake(front)]
          /\ UNCHANGED block
  /\ UNCHANGED <<conn, timed_out, timer, loop, reconnect_active>>

\* After the await: stop the timer (unless it has expired), take the result, free the
\* block unless it timed out.
Resumed(c) ==
  /\ pc[c] = "resumed"
  /\ pc' = [pc EXCEPT ![c] = "done"]
  /\ timer' = [timer EXCEPT ![c] = IF @ = "armed" THEN "off" ELSE @]
  /\ Touch("resume", c)

Freed(c) == IF timed_out[c] THEN block[c] ELSE "freed"

Resume(c) ==
  /\ c \in Commands /\ Resumed(c)
  /\ block' = [block EXCEPT ![c] = Freed(c)]
  /\ UNCHANGED <<conn, pending, wire, timed_out, result, loop, reconnect_active>>

-----------------------------------------------------------------------------
(* All of pending_ at once. *)

\* hiredis gives every callback it has a null reply, and forgets them.  b is the state
\* of the blocks by then.
FlushWire(b) ==
  LET hit == ToSet(pending) IN
  /\ wire' = <<>> /\ pending' = <<>>
  /\ block' = [c \in Cmds |-> IF c \in hit /\ timed_out[c] THEN "freed" ELSE b[c]]
  /\ result' = [c \in Cmds |-> IF c \in hit /\ ~timed_out[c] THEN "error" ELSE result[c]]

\* The coroutines it wakes.
Woken(hit, p) == [c \in Cmds |-> IF c \in hit /\ ~timed_out[c] /\ p[c] = "waiting" THEN "resumed" ELSE p[c]]

Dangling(b) == {c \in ToSet(pending) : b[c] # "alive"}

Misuse(who, b) == IF Dangling(b) = {} THEN misused ELSE misused \cup {who}

\* The server or the network ends the connection: hiredis calls back and frees its
\* context.  No disconnect callback is registered.
ConnectionLost ==
  /\ conn = "up"
  /\ conn' = "lost"
  /\ FlushWire(block)
  /\ pc' = Woken(ToSet(pending), pc)
  /\ misused' = Misuse("reply", block)
  /\ UNCHANGED <<timed_out, timer, loop, reconnect_active>>

\* Mutant of CloseMux: the blocks are freed before their coroutines resume.
CloseMuxFrees ==
  /\ loop = "ended" /\ conn = "up"
  /\ conn' = "none"
  /\ pending' = <<>> /\ wire' = <<>>
  /\ block' = [c \in Cmds |-> IF c \in ToSet(pending) THEN "freed" ELSE block[c]]
  /\ pc' = Woken(ToSet(pending), pc)
  /\ UNCHANGED <<timed_out, result, timer, loop, reconnect_active, misused>>

\* close(), posted by AdapterBase::close after finalize_shutdown has waited for the AUTH
\* and reconnect coroutines: cancel_all_pending, then disconnect, whose callbacks find
\* pending_ empty.
CloseMux ==
  /\ loop = "ended" /\ conn = "up"
  /\ conn' = "none"
  /\ FlushWire(block)
  /\ pc' = Woken(ToSet(pending), pc)
  /\ misused' = Misuse("cancel", block)
  /\ UNCHANGED <<timed_out, timer, loop, reconnect_active>>

-----------------------------------------------------------------------------
(* initial_auth and reconnect_loop. *)

\* authenticate sends AUTH, from initial_auth or from an attempt that has connected.
Authenticate(a) ==
  /\ a \in Auths
  /\ loop \in {"initial_auth", "reconnect_auth"}
  /\ Submit(a)
  /\ loop' = IF loop = "initial_auth" THEN "authenticating" ELSE "reauthenticating"
  /\ UNCHANGED <<conn, reconnect_active, misused>>

\* AUTH succeeded: the coroutine ends.
Authenticated(a) ==
  /\ a \in Auths /\ result[a] = "reply" /\ Resumed(a)
  /\ block' = [block EXCEPT ![a] = Freed(a)]
  /\ loop' = "ended" /\ reconnect_active' = FALSE
  /\ UNCHANGED <<conn, pending, wire, timed_out, result>>

\* AUTH failed: the connection is closed, with a null reply to all that is pending, and
\* a reconnect loop is started (on_disconnect) or goes on, unless the coroutine has been
\* told to stop.
AuthFailed(a) ==
  LET freed == [block EXCEPT ![a] = Freed(a)] IN
  /\ a \in Auths /\ result[a] # "reply" /\ pc[a] = "resumed"
  /\ conn' = "none"
  /\ FlushWire(freed)
  /\ pc' = Woken(ToSet(pending), [pc EXCEPT ![a] = "done"])
  /\ timer' = [timer EXCEPT ![a] = IF @ = "armed" THEN "off" ELSE @]
  /\ misused' = (IF block[a] = "alive" THEN {} ELSE {"resume"}) \cup Misuse("reply", freed)
  /\ loop' = IF loop = "cancelled" THEN "ended" ELSE "backoff"
  /\ reconnect_active' = (loop # "cancelled")
  /\ UNCHANGED timed_out

\* No block left for AUTH: likewise.
AuthRefused ==
  /\ loop \in {"initial_auth", "reconnect_auth"} /\ Cardinality(Alive) >= MaxPending
  /\ conn' = "none"
  /\ FlushWire(block)
  /\ pc' = Woken(ToSet(pending), pc)
  /\ misused' = Misuse("reply", block)
  /\ loop' = "backoff" /\ reconnect_active' = TRUE
  /\ UNCHANGED <<timed_out, timer>>

\* AdapterBase::drain: the wait on the resolver ends with operation_aborted.
CancelAuth(a) ==
  /\ Cancels /\ a \in Auths /\ pc[a] = "waiting"
  /\ pc' = [pc EXCEPT ![a] = "resumed"] /\ loop' = "cancelled"
  /\ UNCHANGED <<conn, pending, wire, block, timed_out, result, timer, reconnect_active, misused>>

\* The backoff timer expires, or is cancelled.
Backoff ==
  /\ loop = "backoff"
  /\ \/ loop' = "reconnect" /\ UNCHANGED reconnect_active
     \/ Cancels /\ loop' = "ended" /\ reconnect_active' = FALSE
  /\ UNCHANGED <<conn, pending, wire, cmdVars, misused>>

\* One attempt of reconnect_loop: redisAsyncConnect fails, or the connection is there
\* and AUTH comes next.
Reconnect ==
  /\ loop = "reconnect"
  /\ \/ conn' = "none" /\ loop' = "backoff"
     \/ conn' = "up" /\ loop' = "reconnect_auth"
  /\ UNCHANGED <<pending, wire, cmdVars, reconnect_active, misused>>

\* What a timer or a wake-up has queued for command c.
Queued(c) ==
  \/ TimerExpires(c) \/ TimeoutHandler(c) \/ Resume(c)
  \/ Authenticated(c) \/ AuthFailed(c)

Next ==
  \/ \E c \in Cmds : Queued(c) \/ Command(c) \/ RefuseCommand(c) \/ CancelAuth(c)
  \/ \E a \in Auths : Authenticate(a)
  \/ AuthRefused \/ Backoff \/ Reconnect
  \/ \E r \in {"reply", "error"} : OnReply(r)
  \/ ConnectionLost \/ CloseMux

Spec == Init /\ [][Next]_vars

\* Queued handlers run and timers expire.
FairSpec == Spec /\ WF_vars(Backoff) /\ WF_vars(Reconnect) /\ \A c \in Cmds : WF_vars(Queued(c))

-----------------------------------------------------------------------------
(* Properties. *)

\* Type invariant.
TypeOK ==
  /\ conn \in {"none", "up", "lost"}
  /\ pending \in Seq(Cmds) /\ wire \in Seq(Cmds)
  /\ pc \in [Cmds -> {"idle", "waiting", "resumed", "done"}]
  /\ block \in [Cmds -> {"none", "alive", "freed"}]
  /\ Cardinality(Alive) <= MaxPending
  /\ timed_out \in [Cmds -> BOOLEAN] /\ result \in [Cmds -> {"timeout", "reply", "error"}]
  /\ timer \in [Cmds -> {"off", "armed", "expired"}]
  /\ loop \in {"initial_auth", "authenticating", "reconnect", "reconnect_auth", "reauthenticating",
               "backoff", "cancelled", "ended"}
  /\ reconnect_active \in BOOLEAN /\ misused \subseteq {"timeout", "reply", "resume", "cancel"}

\* FIFO matching: the front of pending_ is always the command whose reply comes next,
\* through timeouts, refused commands and reconnects.
FifoMatch == pending = wire

\* A block is used only between its construction and its destruction: the slab owns it,
\* so it stays valid until explicitly destroyed.
NoUseAfterFree == misused = {}

\* A command that has returned has given its block back, or will when its late reply
\* takes it from pending_.
BlocksReturned ==
  \A c \in Cmds : pc[c] = "done" /\ block[c] = "alive" => \E i \in DOMAIN pending : pending[i] = c

\* Every command returns, reply or not.
EveryCommandReturns == \A c \in Commands : pc[c] = "waiting" ~> pc[c] = "done"

\* "On disconnect, all pending commands get AdapterError and reconnect loop starts."
ReconnectsAfterLoss == conn = "lost" ~> reconnect_active
=============================================================================

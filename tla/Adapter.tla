------------------------------ MODULE Adapter -------------------------------
(***************************************************************************)
(* AdapterBase with its CancellationTokens (adapter_base.hpp,              *)
(* cancellation_token.cpp), driven by finalize_shutdown's steps 2, 4.5, 5  *)
(* and 6 (server.cpp): the control thread drains, waits for the adapter's  *)
(* coroutines, closes it and stops the engine while the core threads run   *)
(* the handlers posted to them and the coroutines those spawn.             *)
(***************************************************************************)
EXTENDS Naturals, Sequences, FiniteSets

CONSTANTS NumCores,
          MaxSpawns,  \* bound: spawn_adapter_coro calls of a core's coroutines
          Timeouts    \* drain_timeout and close_timeout_ may run out

\* What the constants may be.
AdapterAssumption ==
  NumCores \in Nat \ {0} /\ MaxSpawns \in Nat /\ Timeouts \in BOOLEAN

VARIABLES
  state,      \* state_
  queue,      \* the adapter's handlers queued in each core's io_context
  fresh,      \* coroutines of each core whose slot has not been signalled
  signalled,  \* coroutines of each core that have been told to stop
  posting,    \* cores between spawn_adapter_coro's check and its post
  spawns,     \* spawn_adapter_coro calls accepted so far
  cancelled,  \* cores that have run cancel_all
  cleaned,    \* cores that have run do_close_per_core
  pc,         \* the control thread
  idx, total, \* outstanding_adapter_coros: next core, sum so far
  gaveUp      \* the waits that ended by their timeout

coroVars == <<fresh, signalled>>
coreVars == <<queue, coroVars, posting, spawns, cancelled, cleaned>>
vars == <<state, coreVars, pc, idx, total, gaveUp>>

Cores == 0..(NumCores - 1)

outstanding(k) == fresh[k] + signalled[k]

\* After init(): do_init may have spawned a coroutine on any core, before the core
\* threads start.
Init ==
  /\ state = "RUNNING"
  /\ queue \in [Cores -> {<<>>, <<"spawn">>}]
  /\ fresh = [k \in Cores |-> 0] /\ signalled = [k \in Cores |-> 0]
  /\ posting = {} /\ spawns = [k \in Cores |-> 0] /\ cancelled = {} /\ cleaned = {}
  /\ pc = "running" /\ idx = 0 /\ total = 0 /\ gaveUp = {}

-----------------------------------------------------------------------------
(* The core threads, until the engine is stopped. *)

\* Core k is free to run its next handler.
Free(k) == pc # "stopped" /\ k \notin posting

\* The next handler of core k.
RunHandler(k) ==
  /\ Free(k) /\ queue[k] # <<>>
  /\ queue' = [queue EXCEPT ![k] = Tail(@)]
  /\ \/ /\ Head(queue[k]) = "spawn"        \* new_slot, co_spawn
        /\ fresh' = [fresh EXCEPT ![k] = @ + 1]
        /\ UNCHANGED <<signalled, cancelled, cleaned>>
     \/ /\ Head(queue[k]) = "cancel"       \* cancel_all
        /\ signalled' = [signalled EXCEPT ![k] = @ + fresh[k]]
        /\ fresh' = [fresh EXCEPT ![k] = 0]
        /\ cancelled' = cancelled \cup {k}
        /\ UNCHANGED cleaned
     \/ /\ Head(queue[k]) = "close"        \* do_close_per_core, --remaining
        /\ cleaned' = cleaned \cup {k}
        /\ UNCHANGED <<coroVars, cancelled>>
  /\ UNCHANGED <<state, posting, spawns, pc, idx, total, gaveUp>>

\* Mutant of CheckState: only a closed adapter refuses.
CheckStateLaxly(k) ==
  /\ Free(k) /\ outstanding(k) > 0 /\ spawns[k] < MaxSpawns
  /\ state # "CLOSED"
  /\ posting' = posting \cup {k}
  /\ spawns' = [spawns EXCEPT ![k] = @ + 1]
  /\ UNCHANGED <<state, queue, coroVars, cancelled, cleaned, pc, idx, total, gaveUp>>

\* spawn_adapter_coro, called by a coroutine of core k, finds the adapter RUNNING;
\* otherwise it does nothing.
CheckState(k) ==
  /\ Free(k) /\ outstanding(k) > 0 /\ spawns[k] < MaxSpawns
  /\ state = "RUNNING"
  /\ posting' = posting \cup {k}
  /\ spawns' = [spawns EXCEPT ![k] = @ + 1]
  /\ UNCHANGED <<state, queue, coroVars, cancelled, cleaned, pc, idx, total, gaveUp>>

\* ... and posts the spawning of the new one.
PostSpawn(k) ==
  /\ k \in posting
  /\ posting' = posting \ {k}
  /\ queue' = [queue EXCEPT ![k] = Append(@, "spawn")]
  /\ UNCHANGED <<state, coroVars, spawns, cancelled, cleaned, pc, idx, total, gaveUp>>

\* A coroutine ends: on_complete.
Complete(k) ==
  /\ Free(k)
  /\ \/ fresh[k] > 0 /\ fresh' = [fresh EXCEPT ![k] = @ - 1] /\ UNCHANGED signalled
     \/ signalled[k] > 0 /\ signalled' = [signalled EXCEPT ![k] = @ - 1] /\ UNCHANGED fresh
  /\ UNCHANGED <<state, queue, posting, spawns, cancelled, cleaned, pc, idx, total, gaveUp>>

-----------------------------------------------------------------------------
(* The control thread, in finalize_shutdown. *)

\* drain: new requests are refused from here on ...
Drain ==
  /\ pc = "running"
  /\ state' = "DRAINING" /\ pc' = "cancel"
  /\ UNCHANGED <<coreVars, idx, total, gaveUp>>

\* ... and every core is told to cancel what it has.
PostCancels ==
  /\ pc = "cancel"
  /\ queue' = [k \in Cores |-> Append(queue[k], "cancel")]
  /\ pc' = "wait" /\ idx' = 0 /\ total' = 0
  /\ UNCHANGED <<state, coroVars, posting, spawns, cancelled, cleaned, gaveUp>>

\* Step 4.5: sum the tokens' outstanding counts, one core after the other.
CountCoros ==
  /\ pc = "wait" /\ idx < NumCores
  /\ idx' = idx + 1 /\ total' = total + outstanding(idx)
  /\ UNCHANGED <<state, coreVars, pc, gaveUp>>

\* None left: go on.  Otherwise again, until drain_timeout.
AwaitCoros ==
  /\ pc = "wait" /\ idx = NumCores
  /\ \/ total = 0 /\ pc' = "close" /\ UNCHANGED gaveUp
     \/ total > 0 /\ ~("drain" \in gaveUp) /\ UNCHANGED <<pc, gaveUp>>
     \/ total > 0 /\ "drain" \in gaveUp /\ pc' = "close" /\ UNCHANGED gaveUp
  /\ idx' = 0 /\ total' = 0
  /\ UNCHANGED <<state, coreVars>>

\* Step 5, close: the per-core cleanup is posted ...
Close ==
  /\ pc = "close"
  /\ state' = "CLOSED"
  /\ queue' = [k \in Cores |-> Append(queue[k], "close")]
  /\ pc' = "remaining"
  /\ UNCHANGED <<coroVars, posting, spawns, cancelled, cleaned, idx, total, gaveUp>>

\* ... waited for until close_timeout_, and then the global resources go.
DoClose ==
  /\ pc = "remaining" /\ (cleaned = Cores \/ "close" \in gaveUp)
  /\ pc' = "closed"
  /\ UNCHANGED <<state, coreVars, idx, total, gaveUp>>

\* The time of the wait the control thread is in runs out.
TimeoutExpires ==
  /\ Timeouts
  /\ \/ pc = "wait" /\ gaveUp' = gaveUp \cup {"drain"}
     \/ pc = "remaining" /\ gaveUp' = gaveUp \cup {"close"}
  /\ gaveUp' # gaveUp
  /\ UNCHANGED <<state, coreVars, pc, idx, total>>

\* Step 6.
StopEngine ==
  /\ pc = "closed"
  /\ pc' = "stopped"
  /\ UNCHANGED <<state, coreVars, idx, total, gaveUp>>

ControlStep == PostCancels \/ CountCoros \/ AwaitCoros \/ Close \/ DoClose \/ StopEngine

CoreStep(k) == RunHandler(k) \/ PostSpawn(k)

Next ==
  \/ Drain \/ ControlStep \/ TimeoutExpires
  \/ \E k \in Cores : CoreStep(k) \/ CheckState(k) \/ Complete(k)

Spec == Init /\ [][Next]_vars

\* Threads go on and timeouts expire; no coroutine has to end.
FairSpec == Spec /\ WF_vars(ControlStep) /\ WF_vars(TimeoutExpires)

-----------------------------------------------------------------------------
(* Properties. *)

\* Type invariant.
TypeOK ==
  /\ state \in {"RUNNING", "DRAINING", "CLOSED"}
  /\ queue \in [Cores -> Seq({"spawn", "cancel", "close"})]
  /\ fresh \in [Cores -> Nat] /\ signalled \in [Cores -> Nat]
  /\ \A k \in Cores : outstanding(k) <= spawns[k] + 1
  /\ posting \subseteq Cores /\ cancelled \subseteq Cores /\ cleaned \subseteq Cores
  /\ spawns \in [Cores -> 0..MaxSpawns]
  /\ pc \in {"running", "cancel", "wait", "close", "remaining", "closed", "stopped"}
  /\ idx \in 0..NumCores /\ total \in Nat /\ gaveUp \subseteq {"drain", "close"}

\* The coroutines of core k that will never be told to stop.
Late(k) ==
  fresh[k] + Cardinality({i \in DOMAIN queue[k] : queue[k][i] = "spawn"})
           + (IF k \in posting THEN 1 ELSE 0)

\* A core that has run cancel_all has at most one coroutine that the cancellation
\* missed: one whose spawn_adapter_coro looked at the state just before drain changed
\* it.
AtMostOneMissed == \A k \in cancelled : Late(k) <= 1

\* Step 5 of finalize_shutdown states that outstanding_adapter_coros is 0, as checked
\* in step 4.5.
NoCorosAtClose == pc = "close" => \A k \in Cores : outstanding(k) = 0

\* A drain ends with the engine stopped, whatever the coroutines do.
DrainTerminates == pc = "cancel" ~> pc = "stopped"
=============================================================================

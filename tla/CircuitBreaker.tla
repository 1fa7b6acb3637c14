--------------------------- MODULE CircuitBreaker ---------------------------
(***************************************************************************)
(* CircuitBreaker (circuit_breaker.hpp/.cpp): calls that interleave on one *)
(* core.  A call asks should_allow, awaits the wrapped operation, and      *)
(* reports success or failure to a breaker that may have changed state     *)
(* meanwhile.  An operation that throws reports nothing.                   *)
(***************************************************************************)
EXTENDS Naturals, FiniteSets

CONSTANTS Calls,             \* coroutines that call again and again
          FailureThreshold, HalfOpenMaxCalls,
          Throwing           \* the wrapped operation may throw

\* What the constants may be.
BreakerAssumption ==
  /\ FailureThreshold \in Nat \ {0} /\ HalfOpenMaxCalls \in Nat \ {0}
  /\ IsFiniteSet(Calls) /\ Throwing \in BOOLEAN

VARIABLES
  state, failure_count, half_open_calls, half_open_successes,
  elapsed,   \* open_duration has passed since open_since_
  inflight,  \* calls awaiting their operation
  probes,    \* those admitted since the breaker last became HALF_OPEN
  healthy,   \* from now on operations succeed
  last       \* the call that reported last, and whether it was a probe

counters == <<failure_count, half_open_calls, half_open_successes>>
vars == <<state, counters, elapsed, inflight, probes, healthy, last>>

Init ==
  /\ state = "CLOSED" /\ failure_count = 0 /\ half_open_calls = 0 /\ half_open_successes = 0
  /\ elapsed = FALSE /\ inflight = {} /\ probes = {}
  /\ healthy \in BOOLEAN /\ last = "none"

-----------------------------------------------------------------------------
(* should_allow, by state; a refused call returns CircuitOpen at once. *)

AllowClosed(c) ==
  /\ c \notin inflight /\ state = "CLOSED"
  /\ inflight' = inflight \cup {c}
  /\ UNCHANGED <<state, counters, elapsed, probes, healthy, last>>

\* The first call after open_duration is the first probe.
AllowOpen(c) ==
  /\ c \notin inflight /\ state = "OPEN" /\ elapsed
  /\ state' = "HALF_OPEN"
  /\ half_open_calls' = 1 /\ half_open_successes' = 0
  /\ inflight' = inflight \cup {c} /\ probes' = {c}
  /\ UNCHANGED <<failure_count, elapsed, healthy, last>>

\* Mutant of AllowHalfOpen: one probe too many.
AllowHalfOpenOneMore(c) ==
  /\ c \notin inflight /\ state = "HALF_OPEN"
  /\ half_open_calls <= HalfOpenMaxCalls
  /\ half_open_calls' = half_open_calls + 1
  /\ inflight' = inflight \cup {c} /\ probes' = probes \cup {c}
  /\ UNCHANGED <<state, failure_count, half_open_successes, elapsed, healthy, last>>

AllowHalfOpen(c) ==
  /\ c \notin inflight /\ state = "HALF_OPEN"
  /\ half_open_calls < HalfOpenMaxCalls
  /\ half_open_calls' = half_open_calls + 1
  /\ inflight' = inflight \cup {c} /\ probes' = probes \cup {c}
  /\ UNCHANGED <<state, failure_count, half_open_successes, elapsed, healthy, last>>

Allow(c) == AllowClosed(c) \/ AllowOpen(c) \/ AllowHalfOpen(c)

-----------------------------------------------------------------------------
(* The operation ends. *)

Leave(c) ==
  /\ c \in inflight
  /\ inflight' = inflight \ {c}
  /\ last' = IF c \in probes THEN "probe" ELSE "stale"

\* on_success.
OnSuccess(c) ==
  /\ Leave(c)
  /\ \/ /\ state = "HALF_OPEN" /\ half_open_successes + 1 < HalfOpenMaxCalls
        /\ half_open_successes' = half_open_successes + 1
        /\ probes' = probes \ {c}
        /\ UNCHANGED <<state, failure_count>>
     \/ /\ state = "HALF_OPEN" /\ half_open_successes + 1 >= HalfOpenMaxCalls
        /\ state' = "CLOSED" /\ failure_count' = 0 /\ half_open_successes' = 0
        /\ probes' = {}
     \/ /\ state = "CLOSED"
        /\ failure_count' = 0
        /\ UNCHANGED <<state, half_open_successes, probes>>
     \/ /\ state = "OPEN"
        /\ UNCHANGED <<state, failure_count, half_open_successes, probes>>
  /\ UNCHANGED <<half_open_calls, elapsed, healthy>>

\* on_failure.
OnFailure(c) ==
  /\ ~healthy /\ Leave(c)
  /\ \/ /\ state = "CLOSED"
        /\ failure_count' = failure_count + 1
        /\ IF failure_count' >= FailureThreshold
           THEN state' = "OPEN" /\ elapsed' = FALSE
           ELSE UNCHANGED <<state, elapsed>>
        /\ UNCHANGED probes
     \/ /\ state = "HALF_OPEN"
        /\ state' = "OPEN" /\ elapsed' = FALSE /\ probes' = {}
        /\ UNCHANGED failure_count
     \/ /\ state = "OPEN"
        /\ UNCHANGED <<state, failure_count, elapsed, probes>>
  /\ UNCHANGED <<half_open_calls, half_open_successes, healthy>>

\* The exception passes through call(), which reports nothing.
Throw(c) ==
  /\ Throwing /\ ~healthy /\ c \in inflight
  /\ inflight' = inflight \ {c} /\ probes' = probes \ {c}
  /\ UNCHANGED <<state, counters, elapsed, healthy, last>>

Finish(c) == OnSuccess(c) \/ OnFailure(c) \/ Throw(c)

OpenDurationPasses ==
  /\ state = "OPEN" /\ ~elapsed
  /\ elapsed' = TRUE
  /\ UNCHANGED <<state, counters, inflight, probes, healthy, last>>

Reset ==
  /\ state' = "CLOSED" /\ failure_count' = 0 /\ half_open_calls' = 0 /\ half_open_successes' = 0
  /\ probes' = {}
  /\ UNCHANGED <<elapsed, inflight, healthy, last>>

BecomeHealthy ==
  /\ ~healthy /\ healthy' = TRUE
  /\ UNCHANGED <<state, counters, elapsed, inflight, probes, last>>

Next ==
  \/ \E c \in Calls : Allow(c) \/ Finish(c)
  \/ OpenDurationPasses \/ Reset \/ BecomeHealthy

Spec == Init /\ [][Next]_vars

\* Callers keep calling, operations end, time passes.
FairSpec ==
  /\ Spec /\ WF_vars(OpenDurationPasses)
  /\ \A c \in Calls : WF_vars(Allow(c)) /\ WF_vars(Finish(c))

-----------------------------------------------------------------------------
(* Properties. *)

\* Type invariant.
TypeOK ==
  /\ state \in {"CLOSED", "OPEN", "HALF_OPEN"}
  /\ failure_count \in 0..FailureThreshold
  /\ half_open_calls \in 0..HalfOpenMaxCalls /\ half_open_successes \in 0..HalfOpenMaxCalls
  /\ elapsed \in BOOLEAN /\ healthy \in BOOLEAN
  /\ inflight \subseteq Calls /\ probes \subseteq inflight
  /\ last \in {"none", "probe", "stale"}

\* While HALF_OPEN, every probe admitted is counted as long as it runs, so at most
\* half_open_max_calls of them run and succeed in one round, whatever else completes.
ProbesThrottled ==
  /\ state = "HALF_OPEN" => Cardinality(probes) <= half_open_calls
  /\ Cardinality(probes) <= HalfOpenMaxCalls

\* Once operations succeed, the breaker closes.
Recovers == healthy ~> state = "CLOSED"

\* on_failure reports "HALF_OPEN->OPEN (probe failed)": it is a probe that reopens the
\* breaker.
ReopenedByProbe == [][state = "HALF_OPEN" /\ state' = "OPEN" => last' = "probe"]_vars
=============================================================================

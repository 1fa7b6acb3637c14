----------------------------- MODULE RedisLimiter -----------------------------
(***************************************************************************)
(* RedisRateLimiter for one user or endpoint: the Lua script of            *)
(* redis_rate_limiter.hpp over the keys cur, prev and meta, which Redis    *)
(* expires, run by commands of several cores.  Each command carries the    *)
(* time its caller read before it was queued, so the script may see times  *)
(* out of order; a command that fails lets the request through             *)
(* (GatewayPipeline), whether or not the script ran.                       *)
(***************************************************************************)
EXTENDS Integers, FiniteSets

CONSTANTS Limits,     \* limits that callers pass: default_limit, an override
          WindowMs, MaxTime,
          Delay       \* bound: how old now_ms may be when the script runs

RedisLimiterAssumption ==
  /\ Limits \subseteq Nat \ {0} /\ WindowMs \in Nat \ {0} /\ MaxTime \in Nat /\ Delay \in Nat

VARIABLES now,
          cur, prev, meta, \* keys: value and time of expiry (0: none), value -1 if absent
          limit,           \* of this user or endpoint
          grants           \* history: times at which the script let a request through

vars == <<now, cur, prev, meta, limit, grants>>

Absent == [value |-> -1, expires |-> 0]
Init ==
  /\ now = 1 /\ cur = Absent /\ prev = Absent /\ meta = Absent /\ limit \in Limits /\ grants = {}

\* GET key or '0'.
Get(key) == IF key.value = -1 THEN 0 ELSE key.value

\* The window after the script's rotation for a call at time t: the keys, and the counts
\* the script goes on with, of which prev_count is not the value it just stored.
Rotation(t) ==
  LET start == IF Get(meta) = 0 THEN t ELSE Get(meta)
      passed == (t - start) \div WindowMs
      set(v) == [value |-> v, expires |-> now + 2 * WindowMs]
  IN IF t - start < WindowMs
     THEN [cur |-> cur, prev |-> prev, start |-> start, renewed |-> Get(meta) = 0,
           cur_count |-> Get(cur), prev_count |-> Get(prev)]
     ELSE IF passed = 1
     THEN [cur |-> [value |-> 0, expires |-> 0], prev |-> set(Get(cur)),
           start |-> start + WindowMs, renewed |-> TRUE, cur_count |-> 0, prev_count |-> Get(prev)]
     ELSE [cur |-> [value |-> 0, expires |-> 0], prev |-> set(0), start |-> t, renewed |-> TRUE,
           cur_count |-> 0, prev_count |-> 0]

\* estimate >= limit, times the window; a ratio above one is cut off, one below zero is not.
AtLimit(w, t) ==
  LET elapsed == IF t - w.start > WindowMs THEN WindowMs ELSE t - w.start
  IN w.prev_count * (WindowMs - elapsed) + w.cur_count * WindowMs >= limit * WindowMs

\* Keep the times within one window of now, numbered apart.
Recent(times) == {t \in times : t[1] + WindowMs > now'}

\* The script, atomic in Redis, for a call that read the time t.
RunScript(t) ==
  /\ t \in 1 .. now /\ now - t <= Delay
  /\ LET w == Rotation(t)
     IN /\ prev' = w.prev
        /\ meta' = IF w.renewed THEN [value |-> w.start, expires |-> now + 3 * WindowMs] ELSE meta
        /\ IF AtLimit(w, t) THEN cur' = w.cur /\ UNCHANGED grants
           ELSE /\ cur' = [value |-> Get(w.cur) + 1, expires |-> now + 2 * WindowMs]
                /\ grants' = grants \cup {<<now, Cardinality({g \in grants : g[1] = now})>>}
  /\ UNCHANGED <<now, limit>>

\* Time passes and Redis drops what has expired.
Expired(key) == IF key.expires # 0 /\ key.expires <= now' THEN Absent ELSE key
Tick ==
  /\ now < MaxTime /\ now' = now + 1
  /\ cur' = Expired(cur) /\ prev' = Expired(prev) /\ meta' = Expired(meta)
  /\ grants' = Recent(grants) /\ UNCHANGED limit

Next == Tick \/ \E t \in 1 .. MaxTime : RunScript(t)
Spec == Init /\ [][Next]_vars

-----------------------------------------------------------------------------
(* Properties *)

\* In any interval of one window, aligned or not, the script lets through the limit and
\* at most the share of it that the weights of the next window give back, though the first
\* call of a window weighs a count that is one window old, and calls come out of order.
ScriptBurstBounded ==
  (Cardinality(grants) - limit) * WindowMs < limit * (WindowMs - 2 + Delay) + WindowMs
=============================================================================

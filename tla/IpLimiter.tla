------------------------------ MODULE IpLimiter ------------------------------
(***************************************************************************)
(* PerIpRateLimiter of one core: a SlidingWindowCounter per address, a     *)
(* bounded table of them, and the vector that orders them for eviction.    *)
(* The table and the vector refer to each other by address and by index,   *)
(* and eviction, expiry and use each swap elements of the vector.          *)
(***************************************************************************)
EXTENDS Integers, Sequences, FiniteSets, SequencesExt

CONSTANTS Ips,
          Configs,    \* records total, cores, max_entries: configurations of the limiter
          WindowSize, \* in ticks
          TtlMultiplier,
          MaxTime     \* bound: ticks

LimiterAssumption ==
  /\ Configs # {} /\ \A g \in Configs : g.total \in Nat /\ g.cores \in Nat /\ g.max_entries \in Nat \ {0}
  /\ WindowSize \in Nat \ {0} /\ TtlMultiplier \in Nat \ {0} /\ MaxTime \in Nat

VARIABLES now, config,
          entries,    \* address -> counter, timer and lru_index
          lru_order,
          grants      \* history: per address, when the entry it has now let it through

vars == <<now, config, entries, lru_order, grants>>

AtLeastOne(n) == IF n = 0 THEN 1 ELSE n
\* Per-core share of the limit.
PerCoreLimit(g) == AtLeastOne(g.total \div AtLeastOne(g.cores))
Limit == PerCoreLimit(config)
Ttl == WindowSize * TtlMultiplier

NoEntry == [present |-> FALSE, window_start |-> 0, current |-> 0, previous |-> 0,
            fires |-> 0, lru_index |-> 0]

Init ==
  /\ now = 1 /\ config \in Configs /\ entries = [ip \in Ips |-> NoEntry] /\ lru_order = <<>>
  /\ grants = [ip \in Ips |-> {}]

Present == {ip \in Ips : entries[ip].present}

-----------------------------------------------------------------------------
(* SlidingWindowCounter *)

AdvanceWindow(e) ==
  LET elapsed == now - e.window_start
  IN IF e.window_start = 0 THEN [e EXCEPT !.window_start = now]
     ELSE IF elapsed < WindowSize THEN e
     ELSE IF elapsed \div WindowSize = 1
     THEN [e EXCEPT !.previous = e.current, !.current = 0, !.window_start = @ + WindowSize]
     ELSE [e EXCEPT !.previous = 0, !.current = 0, !.window_start = now]

\* previous * (1 - ratio) + current >= limit, times the window; the window has advanced.
AtLimit(e) ==
  e.previous * (WindowSize - (now - e.window_start)) + e.current * WindowSize >= Limit * WindowSize

Counted(e) ==
  LET a == AdvanceWindow(e) IN IF AtLimit(a) THEN a ELSE [a EXCEPT !.current = @ + 1]
Allowed(e) == ~AtLimit(AdvanceWindow(e))

\* estimated_count, times the window: finds the window now falls into on its own.
EstimatedCount(e) ==
  LET elapsed == now - e.window_start
      share(count, start) == count * (WindowSize - (now - start))
  IN IF elapsed < WindowSize THEN share(e.previous, e.window_start) + e.current * WindowSize
     ELSE IF elapsed \div WindowSize = 1 THEN share(e.current, e.window_start + WindowSize)
     ELSE 0

-----------------------------------------------------------------------------
(* The table and its order; the vector counts from 0 *)

SwapOut(seq, k) ==
  SubSeq([seq EXCEPT ![k + 1] = seq[Len(seq)], ![Len(seq)] = seq[k + 1]], 1, Len(seq) - 1)

\* Mutant of Reindexed: the address moved into the hole keeps its old index.
NotReindexed(es, k, ip) == es

\* The address at the back takes index k, if it has an entry (still).
Reindexed(es, k, ip) == IF es[ip].present THEN [es EXCEPT ![ip].lru_index = k] ELSE es

\* evict_lru: the address at the front goes, the one at the back takes its place.
Evicted ==
  LET oldest == Head(lru_order)
      es == [entries EXCEPT ![oldest] = NoEntry]
  IN [entries |-> IF Len(lru_order) > 1 THEN Reindexed(es, 0, Last(lru_order)) ELSE es,
      lru |-> SwapOut(lru_order, 0), gone |-> {oldest}]
NotEvicted == [entries |-> entries, lru |-> lru_order, gone |-> {}]

Record(ip, ok, gone) ==
  grants' = [i \in Ips |-> IF i \in gone THEN {}
                           ELSE IF i = ip /\ ok
                                THEN {t \in grants[i] : t[1] + WindowSize > now}
                                       \cup {<<now, Cardinality({t \in grants[i] : t[1] = now})>>}
                                ELSE grants[i]]

\* allow, for an address without an entry: make room, schedule the expiry, count.
AllowNew(ip) ==
  /\ ~entries[ip].present
  /\ LET after == IF Cardinality(Present) >= config.max_entries THEN Evicted ELSE NotEvicted
         new == [NoEntry EXCEPT !.present = TRUE, !.fires = now + Ttl,
                                !.lru_index = Len(after.lru)]
     IN /\ entries' = [after.entries EXCEPT ![ip] = Counted(new)]
        /\ lru_order' = Append(after.lru, ip)
        /\ Record(ip, Allowed(new), after.gone)
  /\ UNCHANGED <<now, config>>

\* touch_lru: swap with the back.
Touched(ip) ==
  LET k == entries[ip].lru_index
      last == Len(lru_order) - 1
  IN IF k >= last THEN NotEvicted
     ELSE [entries |-> [Reindexed(entries, k, Last(lru_order)) EXCEPT ![ip].lru_index = last],
           lru |-> [lru_order EXCEPT ![k + 1] = Last(lru_order), ![last + 1] = lru_order[k + 1]],
           gone |-> {}]

\* allow, for an address that has one: reschedule, touch, count.
AllowKnown(ip) ==
  /\ entries[ip].present
  /\ LET after == Touched(ip)
         e == [after.entries[ip] EXCEPT !.fires = now + Ttl]
     IN /\ entries' = [after.entries EXCEPT ![ip] = Counted(e)]
        /\ lru_order' = after.lru
        /\ Record(ip, Allowed(e), {})
  /\ UNCHANGED <<now, config>>

\* The expiry timer fires: remove_entry.
RemoveEntry(ip) ==
  /\ entries[ip].present /\ entries[ip].fires <= now
  /\ LET k == entries[ip].lru_index
         es == [entries EXCEPT ![ip] = NoEntry]
     IN /\ entries' = IF k < Len(lru_order) - 1 THEN Reindexed(es, k, Last(lru_order)) ELSE es
        /\ lru_order' = IF k < Len(lru_order) THEN SwapOut(lru_order, k) ELSE lru_order
  /\ grants' = [grants EXCEPT ![ip] = {}]
  /\ UNCHANGED <<now, config>>

\* update_config: a new configuration and an empty table.
UpdateConfig ==
  /\ config' \in Configs \ {config} /\ entries' = [ip \in Ips |-> NoEntry] /\ lru_order' = <<>>
  /\ grants' = [ip \in Ips |-> {}]
  /\ UNCHANGED now

Tick ==
  /\ now < MaxTime /\ now' = now + 1
  /\ grants' = [ip \in Ips |-> {t \in grants[ip] : t[1] + WindowSize > now'}]
  /\ UNCHANGED <<config, entries, lru_order>>

Next ==
  \/ \E ip \in Ips : AllowNew(ip) \/ AllowKnown(ip) \/ RemoveEntry(ip)
  \/ UpdateConfig \/ Tick

Spec == Init /\ [][Next]_vars

-----------------------------------------------------------------------------
(* Properties *)

TypeOK ==
  /\ now \in 1 .. MaxTime /\ config \in Configs /\ lru_order \in Seq(Ips)
  /\ \A ip \in Ips : entries[ip].current <= Limit /\ entries[ip].previous <= Limit

\* Table and order agree through every swap: they hold the same addresses, each index is
\* right, and there are at most max_entries of them.
TableConsistent ==
  /\ Len(lru_order) = Cardinality(Present) /\ Len(lru_order) <= config.max_entries
  /\ \A ip \in Present : entries[ip].lru_index < Len(lru_order)
                         /\ lru_order[entries[ip].lru_index + 1] = ip

\* While an address keeps its entry, any interval of one window, aligned or not, lets
\* through the limit and at most the share of it that the weights of the next window
\* give back: there is no double burst at a boundary.
BurstBounded ==
  \A ip \in Ips :
    (Cardinality(grants[ip]) - Limit) * WindowSize < Limit * (WindowSize - 2) + WindowSize

\* estimated_count and allow, which find the window independently, agree: an address is let
\* through exactly while its estimate is below the limit.
EstimateAgrees ==
  \A ip \in Present : Allowed(entries[ip]) <=> EstimatedCount(entries[ip]) < Limit * WindowSize

\* "front = oldest, back = newest" (per_ip_rate_limiter.hpp:118): the address used last is
\* at the back, and the one at the front has been idle longest.
OldestFirst ==
  \A j, k \in 1 .. Len(lru_order) :
    j < k => entries[lru_order[j]].fires <= entries[lru_order[k]].fires
=============================================================================

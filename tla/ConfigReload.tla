----------------------------- MODULE ConfigReload -----------------------------
(***************************************************************************)
(* Hot reload of the gateway's configuration: the FileWatcher's timer loop *)
(* (file_watcher.cpp), ConfigReloader::on_file_changed                     *)
(* (config_reloader.cpp), the route table it builds (route_table.cpp) and  *)
(* the posts that hand table and rate limits to every core.                *)
(*                                                                         *)
(* The file is edited by another process at any moment, so reading its     *)
(* time, parsing it and posting the result are separate steps.  A          *)
(* configuration is its list of routes; the version number of the edit     *)
(* stands for the rate limits.                                             *)
(***************************************************************************)
EXTENDS Naturals, Sequences, SequencesExt, FiniteSets

CONSTANTS Cores,
          Configs,     \* route lists an edit may leave behind
          MsgIds,      \* message ids looked up
          MaxEdits,    \* bound: writes to the file
          MaxStarts    \* bound: calls of start() and of stop()

\* What the constants may be: a route is a range of message ids and a topic.
ReloadAssumption ==
  /\ MaxEdits \in Nat /\ MaxStarts \in Nat
  /\ \A c \in Configs : c \in Seq([begin : Nat, end : Nat, topic : STRING])

VARIABLES
  file,             \* the routes in the file
  torn,             \* its text is incomplete: parse_gateway_config refuses it
  mtime,            \* its modification time: one per write
  exists,           \* the file can be read
  last_write_time,  \* last_write_time_
  watching,         \* running_
  wait,             \* the timer's wait: "none", "pending"
  ready,            \* completed waits queued in the io_context, by error code
  starts,           \* calls of start() and stop() so far
  at,               \* the watcher's thread: "idle", "parse", "post"
  parsed,           \* the table and version being handed out
  posts,            \* handlers queued for each core
  table, limits     \* each core's route table and version of the rate limits

fileVars == <<file, torn, mtime, exists>>
timerVars == <<last_write_time, watching, wait, ready, starts>>
coreVars == <<posts, table, limits>>
vars == <<fileVars, timerVars, at, parsed, coreVars>>

-----------------------------------------------------------------------------
(* RouteTable. *)

ByEnd(a, b) == a.end < b.end

\* Mutant of NoOverlap: ranges may share an end point.
TouchingAllowed(es) == \A i \in 2..Len(es) : es[i - 1].end <= es[i].begin

\* validate: neighbours in the order of range_end do not overlap.
NoOverlap(es) == \A i \in 2..Len(es) : es[i - 1].end < es[i].begin

\* build: the entries sorted by range_end, if no range is empty and none overlap.
Built(routes) == SortSeq(routes, ByEnd)

BuildSucceeds(routes) ==
  /\ \A i \in DOMAIN routes : routes[i].begin <= routes[i].end
  /\ NoOverlap(Built(routes))

\* std::ranges::lower_bound by range_end, as the position found.
LowerBound(es, id) == SelectInSeq(Append(es, [end |-> id]), LAMBDA e : e.end >= id)

\* resolve: the topic of the entry found, if it holds the id; as a set of at most one.
Resolve(es, id) ==
  LET i == LowerBound(es, id) IN
  {es[j].topic : j \in {i} \cap {k \in DOMAIN es : es[k].begin <= id /\ id <= es[k].end}}

-----------------------------------------------------------------------------
\* The watcher has seen the file the cores were configured from.
Init ==
  /\ file \in {c \in Configs : BuildSucceeds(c)} /\ torn = FALSE /\ mtime = 0 /\ exists = TRUE
  /\ last_write_time = 0 /\ watching = FALSE /\ wait = "none" /\ ready = <<>> /\ starts = 0
  /\ at = "idle" /\ parsed = [table |-> <<>>, version |-> 0]
  /\ posts = [k \in Cores |-> <<>>]
  /\ table = [k \in Cores |-> Built(file)] /\ limits = [k \in Cores |-> 0]

(* The process that edits the file. *)

\* One write: all of a configuration, or a part of one that does not parse.
Edit(c, incomplete) ==
  /\ mtime < MaxEdits
  /\ file' = c /\ torn' = incomplete /\ mtime' = mtime + 1 /\ exists' = TRUE
  /\ UNCHANGED <<timerVars, at, parsed, coreVars>>

\* The file is moved away: last_write_time fails until it is written again.
MoveAway ==
  /\ exists /\ mtime < MaxEdits
  /\ exists' = FALSE
  /\ UNCHANGED <<file, torn, mtime, timerVars, at, parsed, coreVars>>

-----------------------------------------------------------------------------
(* FileWatcher. *)

\* expires_after cancels the wait before, whose handler is queued with an error.
Cancelled == IF wait = "pending" THEN Append(ready, "aborted") ELSE ready

\* schedule_check, when running_.
ScheduleCheck == wait' = "pending" /\ ready' = Cancelled

Start ==
  /\ at = "idle" /\ starts < MaxStarts
  /\ starts' = starts + 1 /\ watching' = TRUE
  /\ ScheduleCheck
  /\ UNCHANGED <<fileVars, last_write_time, at, parsed, coreVars>>

Stop ==
  /\ at = "idle" /\ watching /\ starts < MaxStarts
  /\ starts' = starts + 1 /\ watching' = FALSE
  /\ wait' = "none" /\ ready' = Cancelled
  /\ UNCHANGED <<fileVars, last_write_time, at, parsed, coreVars>>

\* The interval passes.
TimerExpires ==
  /\ wait = "pending"
  /\ wait' = "none" /\ ready' = Append(ready, "ok")
  /\ UNCHANGED <<fileVars, last_write_time, watching, starts, at, parsed, coreVars>>

\* The handler of a cancelled wait, or one that finds the watcher stopped.
WaitAborted ==
  /\ at = "idle" /\ ready # <<>> /\ (Head(ready) = "aborted" \/ ~watching)
  /\ ready' = Tail(ready)
  /\ UNCHANGED <<fileVars, last_write_time, watching, wait, starts, at, parsed, coreVars>>

\* check_file finds a new time, remembers it and calls on_file_changed.
CheckFile ==
  /\ at = "idle" /\ ready # <<>> /\ Head(ready) = "ok" /\ watching
  /\ exists /\ mtime # last_write_time
  /\ last_write_time' = mtime /\ at' = "parse"
  /\ UNCHANGED <<fileVars, watching, wait, ready, starts, parsed, coreVars>>

\* check_file finds the old time or no file; the next check is scheduled.
CheckUnchanged ==
  /\ at = "idle" /\ ready # <<>> /\ Head(ready) = "ok" /\ watching
  /\ ~exists \/ mtime = last_write_time
  /\ wait' = "pending"
  /\ ready' = IF wait = "pending" THEN Append(Tail(ready), "aborted") ELSE Tail(ready)
  /\ UNCHANGED <<fileVars, last_write_time, watching, starts, at, parsed, coreVars>>

\* The handler's end: schedule_check again.
EndCheck ==
  /\ at' = "idle"
  /\ wait' = "pending"
  /\ ready' = IF wait = "pending" THEN Append(Tail(ready), "aborted") ELSE Tail(ready)

-----------------------------------------------------------------------------
(* ConfigReloader::on_file_changed. *)

Readable == exists /\ ~torn /\ BuildSucceeds(file)

\* The file parses and its table is sound.
Parse ==
  /\ at = "parse" /\ Readable
  /\ parsed' = [table |-> Built(file), version |-> mtime]
  /\ at' = "post"
  /\ UNCHANGED <<fileVars, timerVars, coreVars>>

\* It does not: the old settings are kept.
ParseFails ==
  /\ at = "parse" /\ ~Readable
  /\ EndCheck
  /\ UNCHANGED <<fileVars, last_write_time, watching, starts, parsed, coreVars>>

\* Mutant of PostUpdates: the time is read again after the reload.
PostUpdatesAndStat ==
  /\ at = "post"
  /\ posts' = [k \in Cores |-> posts[k] \o <<[kind |-> "route", config |-> parsed],
                                            [kind |-> "limit", config |-> parsed]>>]
  /\ EndCheck
  /\ last_write_time' = mtime
  /\ UNCHANGED <<fileVars, watching, starts, parsed, table, limits>>

\* Both updates are posted to every core.
PostUpdates ==
  /\ at = "post"
  /\ posts' = [k \in Cores |-> posts[k] \o <<[kind |-> "route", config |-> parsed],
                                            [kind |-> "limit", config |-> parsed]>>]
  /\ EndCheck
  /\ UNCHANGED <<fileVars, last_write_time, watching, starts, parsed, table, limits>>

\* A core runs the next update posted to it: MessageRouter::update_table, or the rate
\* limiters' update_config.
RunUpdate(k) ==
  /\ posts[k] # <<>>
  /\ posts' = [posts EXCEPT ![k] = Tail(@)]
  /\ \/ /\ Head(posts[k]).kind = "route"
        /\ table' = [table EXCEPT ![k] = Head(posts[k]).config.table]
        /\ UNCHANGED limits
     \/ /\ Head(posts[k]).kind = "limit"
        /\ limits' = [limits EXCEPT ![k] = Head(posts[k]).config.version]
        /\ UNCHANGED table
  /\ UNCHANGED <<fileVars, timerVars, at, parsed>>

WatcherStep == WaitAborted \/ CheckFile \/ CheckUnchanged \/ Parse \/ ParseFails \/ PostUpdates

Next ==
  \/ \E c \in Configs, incomplete \in BOOLEAN : Edit(c, incomplete)
  \/ MoveAway \/ Start \/ Stop \/ TimerExpires \/ WatcherStep
  \/ \E k \in Cores : RunUpdate(k)

\* The timer fires, the watcher's thread and the cores go on; nobody has to edit the
\* file, start the watcher or stop it.
Fairness == WF_vars(TimerExpires) /\ WF_vars(WatcherStep) /\ \A k \in Cores : WF_vars(RunUpdate(k))

Spec == Init /\ [][Next]_vars /\ Fairness

-----------------------------------------------------------------------------
(* Properties. *)

\* Type invariant.
TypeOK ==
  /\ file \in Configs /\ mtime \in 0..MaxEdits
  /\ {torn, exists, watching} \subseteq BOOLEAN
  /\ last_write_time \in 0..MaxEdits /\ wait \in {"none", "pending"}
  /\ ready \in Seq({"ok", "aborted"}) /\ starts \in 0..MaxStarts
  /\ at \in {"idle", "parse", "post"}
  /\ \A k \in Cores : limits[k] \in 0..MaxEdits

\* The topics of the routes that hold a message id.
Covering(es, id) == {es[i].topic : i \in {k \in DOMAIN es : es[k].begin <= id /\ id <= es[k].end}}

\* Whatever was written to the file, the table a core routes with is never ambiguous,
\* and the binary search finds the one route that holds an id, or none if none does.
RoutesExact ==
  \A k \in Cores, id \in MsgIds :
    /\ Resolve(table[k], id) = Covering(table[k], id)
    /\ Cardinality({i \in DOMAIN table[k] : table[k][i].begin <= id /\ id <= table[k][i].end}) <= 1

\* If the watcher goes on running and the file stays as it is and is sound, every core
\* comes to route by it, with its rate limits: no edit between the stat, the parse and
\* the next wait is missed.
Settled == watching /\ exists /\ ~torn /\ BuildSucceeds(file)
UpToDate == \A k \in Cores : table[k] = Built(file) /\ limits[k] = mtime
Converges == <>[]Settled => <>[]UpToDate
=============================================================================

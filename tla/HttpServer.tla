------------------------------ MODULE HttpServer ------------------------------
(***************************************************************************)
(* HttpServerBase (http_server_base.cpp), under the metrics and the admin  *)
(* server: the accept loop, one coroutine per connection with its guard in *)
(* the tracker, the five second timeouts of the stream, and stop().  All   *)
(* of it runs on the control thread.                                       *)
(***************************************************************************)
EXTENDS Naturals, FiniteSets

CONSTANTS Conns   \* connections that clients open

\* What the constants may be.
HttpAssumption == IsFiniteSet(Conns)

VARIABLES
  acceptor,  \* "none", "open", "closed" (stop() has reset it)
  accept,    \* the async_accept: "none", "pending", "ok" or "error" (its handler queued)
  accepted,  \* the connection it completed with
  sess,      \* each connection: "none", "spawned", "reading", "writing", "done"
  op,        \* a session's operation: "none", "pending", "ok", "error"
  tracker    \* the streams in tracker_

vars == <<acceptor, accept, accepted, sess, op, tracker>>

Init ==
  /\ acceptor = "none" /\ accept = "none" /\ accepted = {}
  /\ sess = [c \in Conns |-> "none"] /\ op = [c \in Conns |-> "none"] /\ tracker = {}

\* do_accept.
DoAccept ==
  accept' = IF acceptor' = "open" THEN "pending" ELSE "none"

Start ==
  /\ acceptor = "none"
  /\ acceptor' = "open" /\ DoAccept
  /\ UNCHANGED <<accepted, sess, op, tracker>>

\* A connection arrives, or accepting fails.
Arrive(c) ==
  /\ accept = "pending" /\ sess[c] = "none" /\ c \notin accepted
  /\ accept' = "ok" /\ accepted' = accepted \cup {c}
  /\ UNCHANGED <<acceptor, sess, op, tracker>>

AcceptFails ==
  /\ accept = "pending" /\ accept' = "error"
  /\ UNCHANGED <<acceptor, accepted, sess, op, tracker>>

\* The accept handler: the session's coroutine is spawned and accepting goes on ...
OnAccept ==
  /\ accept = "ok"
  /\ sess' = [c \in Conns |-> IF c \in accepted /\ sess[c] = "none" THEN "spawned" ELSE sess[c]]
  /\ acceptor' = acceptor /\ DoAccept
  /\ UNCHANGED <<accepted, op, tracker>>

\* ... or, after an error, ends.
OnAcceptError ==
  /\ accept = "error" /\ accept' = "none"
  /\ UNCHANGED <<acceptor, accepted, sess, op, tracker>>

\* SessionGuard: the stream is tracked while its session runs.
Track(c) == tracker' = tracker \cup {c}

Untrack(c) == tracker' = tracker \ {c}

\* run_session begins: SessionGuard, expires_after, async_read.
SessionStarts(c) ==
  /\ sess[c] = "spawned"
  /\ sess' = [sess EXCEPT ![c] = "reading"] /\ op' = [op EXCEPT ![c] = "pending"]
  /\ Track(c)
  /\ UNCHANGED <<acceptor, accept, accepted>>

\* The read or the write completes, fails or runs into its timeout.
Completes(c) ==
  /\ op[c] = "pending"
  /\ \E r \in {"ok", "error"} : op' = [op EXCEPT ![c] = r]
  /\ UNCHANGED <<acceptor, accept, accepted, sess, tracker>>

\* The request is answered: handle_request, and async_write.
Respond(c) ==
  /\ sess[c] = "reading" /\ op[c] = "ok"
  /\ sess' = [sess EXCEPT ![c] = "writing"] /\ op' = [op EXCEPT ![c] = "pending"]
  /\ UNCHANGED <<acceptor, accept, accepted, tracker>>

\* The response is written, or an operation threw: the guard and the stream go.
SessionEnds(c) ==
  /\ (sess[c] = "writing" /\ op[c] = "ok") \/ op[c] = "error"
  /\ sess' = [sess EXCEPT ![c] = "done"] /\ op' = [op EXCEPT ![c] = "none"]
  /\ Untrack(c)
  /\ UNCHANGED <<acceptor, accept, accepted>>

\* cancel_all: the operations of the tracked streams are aborted.
CancelAll == op' = [c \in Conns |-> IF c \in tracker /\ op[c] = "pending" THEN "error" ELSE op[c]]

\* stop(): a pending accept is aborted, and so are the sessions.
Stop ==
  /\ acceptor = "open"
  /\ acceptor' = "closed"
  /\ accept' = IF accept = "pending" THEN "error" ELSE accept
  /\ CancelAll
  /\ UNCHANGED <<accepted, sess, tracker>>

SessionStep(c) == SessionStarts(c) \/ Respond(c) \/ SessionEnds(c)

Next ==
  \/ Start \/ AcceptFails \/ OnAccept \/ OnAcceptError \/ Stop
  \/ \E c \in Conns : Arrive(c) \/ Completes(c) \/ SessionStep(c)

\* While the server runs, the control thread runs handlers and coroutines, and the
\* stream's timeouts bound every operation.  After stop() the control thread's
\* io_context is stopped too, so nothing is assumed.
Fairness ==
  /\ WF_vars(acceptor = "open" /\ OnAccept)
  /\ \A c \in Conns : WF_vars(acceptor = "open" /\ (SessionStep(c) \/ Completes(c)))

Spec == Init /\ [][Next]_vars /\ Fairness

-----------------------------------------------------------------------------
(* Properties. *)

\* Type invariant.
TypeOK ==
  /\ acceptor \in {"none", "open", "closed"} /\ accept \in {"none", "pending", "ok", "error"}
  /\ accepted \subseteq Conns /\ tracker \subseteq Conns
  /\ sess \in [Conns -> {"none", "spawned", "reading", "writing", "done"}]
  /\ op \in [Conns -> {"none", "pending", "ok", "error"}]

\* The tracker holds pointers to streams on coroutine frames: it has exactly those of
\* the sessions that run, so that stop() never touches a stream that is gone.
TrackerExact == tracker = {c \in Conns : sess[c] \in {"reading", "writing"}}

\* Every connection that was accepted is let go of, whatever the peer does, unless the
\* server is stopped first.
SessionsEnd == \A c \in Conns : c \in accepted ~> (sess[c] = "done" \/ acceptor = "closed")

\* stop() "stop[s] accepting new connections and cancel[s] in-flight sessions": a
\* session that begins after it is neither refused nor cancelled.
NothingBeginsAfterStop == [][acceptor = "closed" => \A c \in Conns : sess[c] = "spawned" => sess'[c] # "reading"]_vars
=============================================================================

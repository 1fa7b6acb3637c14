------------------------------- MODULE Whisper -------------------------------
(***************************************************************************)
(* A whisper across three services: AuthService records in Redis on which  *)
(* session and core of the gateway a user logged in, ChatService reads it  *)
(* and sends a push there, and the gateway's ResponseDispatcher writes the *)
(* push (correlation id 0) to the session of that id on that core.         *)
(* Session ids count up on each core, from the start at each restart of    *)
(* the gateway; the key in Redis outlives sessions and the gateway.        *)
(***************************************************************************)
EXTENDS Naturals, Sequences, FiniteSets

CONSTANTS Users, Cores, Sids, Nowhere,
          MaxRestarts  \* bound: restarts of the gateway

WhisperAssumption == Cores \subseteq Nat /\ Sids \subseteq Nat /\ MaxRestarts \in Nat

Sessions == Cores \X Sids

VARIABLES mapping,      \* session:user:{uid}: its text, or Nowhere
          conn,         \* the gateway's sessions: "none", "open" or "gone"
          users_of,     \* who logged in on each
          pushes,       \* pushes in Kafka: target user, core and session id
          misdelivered, \* history: a whisper was written to a session of others
          restarts

vars == <<mapping, conn, users_of, pushes, misdelivered, restarts>>

Init ==
  /\ mapping = [u \in Users |-> Nowhere] /\ conn = [s \in Sessions |-> "none"]
  /\ users_of = [s \in Sessions |-> {}] /\ pushes = {} /\ misdelivered = FALSE /\ restarts = 0

\* Ids are given in order on each core.
Connect(s) ==
  /\ conn[s] = "none" /\ \A n \in Sids : n < s[2] => conn[<<s[1], n>>] # "none"
  /\ conn' = [conn EXCEPT ![s] = "open"]
  /\ UNCHANGED <<mapping, users_of, pushes, misdelivered, restarts>>

\* The key is not touched when a session closes.
Close(s) ==
  /\ conn[s] = "open" /\ conn' = [conn EXCEPT ![s] = "gone"]
  /\ UNCHANGED <<mapping, users_of, pushes, misdelivered, restarts>>

\* The text "session_id:core_id" as its fields.
Format(s) == <<s[2], s[1]>>

\* set_user_session_id at login or refresh; it may fail.
SetUserSessionId(u, s) ==
  /\ conn[s] = "open" /\ users_of' = [users_of EXCEPT ![s] = @ \cup {u}]
  /\ mapping' \in {mapping, [mapping EXCEPT ![u] = Format(s)]}
  /\ UNCHANGED <<conn, pushes, misdelivered, restarts>>

\* remove_user_session_id at logout or reuse of a token; or the key expires.
RemoveUserSessionId(u) ==
  /\ mapping[u] # Nowhere /\ mapping' = [mapping EXCEPT ![u] = Nowhere]
  /\ UNCHANGED <<conn, users_of, pushes, misdelivered, restarts>>

\* parse_session_core: a text of one field is a session id on core 0.
ParseSessionCore(value) == IF Len(value) = 1 THEN <<0, value[1]>> ELSE <<value[2], value[1]>>

\* on_whisper: the target is offline, or a push goes to the session that was read.
OnWhisper(u) ==
  /\ mapping[u] # Nowhere
  /\ pushes' = pushes \cup {[to |-> u, session |-> ParseSessionCore(mapping[u])]}
  /\ UNCHANGED <<mapping, conn, users_of, misdelivered, restarts>>

\* on_response with correlation id 0: posted to the named core, or, when the gateway has
\* no such core, to every core; written where a session of that id is open.
Reached(p) ==
  {s \in Sessions : conn[s] = "open" /\ s[2] = p.session[2]
                    /\ (p.session[1] \in Cores => s[1] = p.session[1])}
DeliverPush(p) ==
  /\ p \in pushes /\ pushes' = pushes \ {p}
  /\ misdelivered' = (misdelivered \/ \E s \in Reached(p) : p.to \notin users_of[s])
  /\ UNCHANGED <<mapping, conn, users_of, restarts>>

\* The gateway restarts; pushes stay in Kafka, the keys in Redis.
Restart ==
  /\ restarts < MaxRestarts /\ restarts' = restarts + 1
  /\ conn' = [s \in Sessions |-> "none"] /\ users_of' = [s \in Sessions |-> {}]
  /\ UNCHANGED <<mapping, pushes, misdelivered>>

Next ==
  \/ \E s \in Sessions : Connect(s) \/ Close(s) \/ \E u \in Users : SetUserSessionId(u, s)
  \/ \E u \in Users : RemoveUserSessionId(u) \/ OnWhisper(u)
  \/ \E p \in pushes : DeliverPush(p)
  \/ Restart

Spec == Init /\ [][Next]_vars

-----------------------------------------------------------------------------
(* Properties *)

\* A whisper is written only to a session its target logged in on, though the same id
\* exists on every core, as long as the gateway has not restarted.
WhisperToTarget == misdelivered => restarts > 0

\* The same over restarts: a "unicast to target session" (chat_service.cpp:650).
WhisperPrivate == ~misdelivered
=============================================================================

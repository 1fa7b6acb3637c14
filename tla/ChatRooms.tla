------------------------------ MODULE ChatRooms ------------------------------
(***************************************************************************)
(* ChatService: rooms, their members and messages, as coroutines that      *)
(* interleave at their awaits, several of them perhaps for one user.       *)
(* PostgreSQL has the rooms and the messages, Redis the members of each    *)
(* room; either may fail at any await, a Redis command with or without     *)
(* effect.                                                                 *)
(***************************************************************************)
EXTENDS Naturals, Sequences, FiniteSets

CONSTANTS Handlers,     \* coroutines: one per request being handled
          Users, Nobody,
          Capacities,   \* max_members a room may be created with
          MaxRooms,     \* bound: rooms
          MaxMessages   \* bound: messages stored

ChatAssumption ==
  /\ Capacities \subseteq Nat \ {0} /\ MaxRooms \in Nat /\ MaxMessages \in Nat
  /\ Nobody \notin Users

VARIABLES rooms,         \* chat_rooms: owner and max_members, by room_id
          members,       \* chat:room:{id}:members
          messages,      \* chat_messages: how many
          pc, user, room \* per handler: its await, the user and the room of the request

vars == <<rooms, members, messages, pc, user, room>>

Init ==
  /\ rooms = <<>> /\ members = [r \in 1 .. MaxRooms |-> {}] /\ messages = 0
  /\ pc = [h \in Handlers |-> "idle"] /\ user = [h \in Handlers |-> Nobody]
  /\ room = [h \in Handlers |-> 0]

Goto(h, step) == pc' = [pc EXCEPT ![h] = step] /\ UNCHANGED <<user, room>>
\* The handler returns an error, and nothing is sent.
End(h) ==
  /\ pc' = [pc EXCEPT ![h] = "idle"] /\ user' = [user EXCEPT ![h] = Nobody]
  /\ room' = [room EXCEPT ![h] = 0]
\* send_response, and the send_..._error of each request.
Respond(h) == End(h)
RespondError(h) == End(h)

\* A request, once its name or content has passed validation.
Request(h, step, r) ==
  /\ pc[h] = "idle" /\ pc' = [pc EXCEPT ![h] = step] /\ room' = [room EXCEPT ![h] = r]
  /\ \E u \in Users : user' = [user EXCEPT ![h] = u]
  /\ UNCHANGED <<rooms, members, messages>>

OnCreateRoom(h) == Request(h, "insert", 0)
OnJoinRoom(h) == \E r \in 1 .. MaxRooms : Request(h, "select", r)
OnLeaveRoom(h) == \E r \in 1 .. MaxRooms : Request(h, "leave", r)
OnSendMessage(h) == \E r \in 1 .. MaxRooms : Request(h, "sismember", r)
OnGlobalBroadcast(h) == Request(h, "publish", 0)

\* INSERT INTO chat_rooms.
InsertRoom(h) ==
  /\ pc[h] = "insert"
  /\ \/ /\ Len(rooms) < MaxRooms
        /\ \E max \in Capacities : rooms' = Append(rooms, [owner |-> user[h], max_members |-> max])
        /\ pc' = [pc EXCEPT ![h] = "sadd"] /\ room' = [room EXCEPT ![h] = Len(rooms')]
        /\ UNCHANGED user
     \/ RespondError(h) /\ UNCHANGED rooms
  /\ UNCHANGED <<members, messages>>

\* SADD of the owner; a failure is logged.
AddOwner(h) ==
  /\ pc[h] = "sadd" /\ Respond(h)
  /\ members' \in {members, [members EXCEPT ![room[h]] = @ \cup {user[h]}]}
  /\ UNCHANGED <<rooms, messages>>

\* SELECT ... WHERE room_id.
SelectRoom(h) ==
  /\ pc[h] = "select"
  /\ \/ room[h] \in DOMAIN rooms /\ Goto(h, "join")
     \/ RespondError(h)
  /\ UNCHANGED <<rooms, members, messages>>

Full(r) == Cardinality(members[r]) >= rooms[r].max_members

\* Mutant of EvalJoin: SCARD and SADD as two commands.
JoinInTwoCommands(h) ==
  /\ \/ pc[h] = "join" /\ ~Full(room[h]) /\ Goto(h, "add") /\ UNCHANGED members
     \/ pc[h] = "add" /\ End(h) /\ members' = [members EXCEPT ![room[h]] = @ \cup {user[h]}]
  /\ UNCHANGED <<rooms, messages>>

\* The join script, atomic in Redis: already in the room or full, added, or an error of
\* Redis, with the script run or not.
EvalJoin(h) ==
  /\ pc[h] = "join"
  /\ \/ (user[h] \in members[room[h]] \/ Full(room[h])) /\ RespondError(h) /\ UNCHANGED members
     \/ /\ user[h] \notin members[room[h]] /\ ~Full(room[h]) /\ (Respond(h) \/ End(h))
        /\ members' = [members EXCEPT ![room[h]] = @ \cup {user[h]}]
     \/ End(h) /\ UNCHANGED members
  /\ UNCHANGED <<rooms, messages>>

\* The leave script.
EvalLeave(h) ==
  /\ pc[h] = "leave"
  /\ \/ user[h] \notin members[room[h]] /\ RespondError(h) /\ UNCHANGED members
     \/ (Respond(h) \/ End(h)) /\ members' = [members EXCEPT ![room[h]] = @ \ {user[h]}]
     \/ End(h) /\ UNCHANGED members
  /\ UNCHANGED <<rooms, messages>>

CheckMember(h) ==
  /\ pc[h] = "sismember"
  /\ \/ user[h] \in members[room[h]] /\ Goto(h, "publish")
     \/ user[h] \notin members[room[h]] /\ RespondError(h)
     \/ End(h)
  /\ UNCHANGED <<rooms, members, messages>>

\* PUBLISH, and for a room's message the produce to the persist topic, from which it
\* becomes a row of chat_messages; failures of either are logged.
Publish(h) ==
  /\ pc[h] = "publish" /\ Respond(h)
  /\ messages' \in {messages} \cup {m \in {messages + 1} : room[h] # 0 /\ m <= MaxMessages}
  /\ UNCHANGED <<rooms, members>>

Next ==
  \E h \in Handlers :
    \/ OnCreateRoom(h) \/ OnJoinRoom(h) \/ OnLeaveRoom(h) \/ OnSendMessage(h)
    \/ OnGlobalBroadcast(h)
    \/ InsertRoom(h) \/ AddOwner(h) \/ SelectRoom(h) \/ EvalJoin(h) \/ EvalLeave(h)
    \/ CheckMember(h) \/ Publish(h)

Spec == Init /\ [][Next]_vars

-----------------------------------------------------------------------------
(* Properties *)

TypeOK ==
  /\ Len(rooms) <= MaxRooms /\ messages \in 0 .. MaxMessages
  /\ members \in [1 .. MaxRooms -> SUBSET Users] /\ room \in [Handlers -> 0 .. MaxRooms]
  /\ user \in [Handlers -> Users \cup {Nobody}]

\* However joins, leaves and the owner's entry race, the members besides the owner never
\* exceed max_members: the join script counts and adds in one step.
MembersBounded ==
  /\ \A r \in DOMAIN rooms : Cardinality(members[r] \ {rooms[r].owner}) <= rooms[r].max_members
  /\ \A r \in 1 .. MaxRooms : r \notin DOMAIN rooms => members[r] = {}

\* The script "Eliminates TOCTOU race between SCARD and SADD that could exceed max_members"
\* (chat_service.cpp:315): no room has more members than its maximum.
RoomNeverOverfull == \A r \in DOMAIN rooms : Cardinality(members[r]) <= rooms[r].max_members
=============================================================================

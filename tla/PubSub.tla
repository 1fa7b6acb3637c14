-------------------------------- MODULE PubSub --------------------------------
(***************************************************************************)
(* Broadcasts through the gateway: the per-core ChannelSessionMap, the     *)
(* PubSubListener thread with its synchronous Redis connection, and        *)
(* BroadcastFanout, which posts each message to every core.                *)
(*                                                                         *)
(* The cores' handlers ask for channels under channels_mutex_, which the   *)
(* thread holds while it subscribes; a session may go at any moment; the   *)
(* connection may drop, losing what was in flight; Redis may refuse a      *)
(* SUBSCRIBE.  Redis answers a SUBSCRIBE on the stream that carries the    *)
(* messages, so the reply read next need not be the acknowledgement.       *)
(***************************************************************************)
EXTENDS Naturals, Sequences, FiniteSets, SequencesExt

CONSTANTS Sessions,         \* <<core, session id>>
          Channels, Globals, InitialChannels,
          MaxSubscriptions, \* max_subscriptions_per_session; 0 is no limit
          MaxPublished,     \* bound: messages published
          MaxDrops,         \* bound: connections Redis drops
          MaxRefusals       \* bound: SUBSCRIBE commands Redis refuses

PubSubAssumption ==
  /\ Sessions \subseteq Nat \X Nat /\ Globals \cup InitialChannels \subseteq Channels
  /\ {MaxSubscriptions, MaxPublished, MaxDrops, MaxRefusals} \subseteq Nat

Cores == {s[1] : s \in Sessions}

VARIABLES
  conn,                \* "none", "open" or "removed"
  channel_to_sessions, session_to_channels,
  running, subscribed_channels, has_pending_subs,
  at,                  \* the listener thread: see ListenerSteps
  active_subs,
  todo,                \* initial channels not yet sent; replies not yet consumed
  reader,              \* hiredis' reader: replies read from the socket
  up, server, wire,    \* Redis: connection, its subscriptions, replies in flight
  refused,             \* channels a SUBSCRIBE of which Redis refused
  drops, published,    \* counts; message n is on channel published[n]
  inbox,               \* per core, messages posted by fanout
  received             \* history: per session, the messages written to it

mapVars == <<channel_to_sessions, session_to_channels>>
askVars == <<subscribed_channels, has_pending_subs>>
redisVars == <<up, server, wire, refused>>
listenerVars == <<at, active_subs, todo, reader>>
vars == <<conn, mapVars, running, askVars, listenerVars, redisVars, drops, published, inbox,
          received>>

ListenerSteps == {"connect", "initial", "initial_reply", "loop", "apply_reply", "select", "parse", "ended"}
Ack == 0               \* a reply that is no message

Init ==
  /\ conn = [s \in Sessions |-> "none"]
  /\ channel_to_sessions = [c \in Cores |-> [ch \in Channels |-> <<>>]]
  /\ session_to_channels = [s \in Sessions |-> {}]
  /\ running = TRUE /\ subscribed_channels = {} /\ has_pending_subs = FALSE
  /\ at = "connect" /\ active_subs = {} /\ todo = {} /\ reader = <<>>
  /\ up = FALSE /\ server = {} /\ wire = <<>> /\ refused = {}
  /\ drops = 0 /\ published = <<>> /\ inbox = [c \in Cores |-> <<>>]
  /\ received = [s \in Sessions |-> <<>>]

-----------------------------------------------------------------------------
(* Sessions and ChannelSessionMap *)

Connect(s) ==
  /\ conn[s] = "none" /\ conn' = [conn EXCEPT ![s] = "open"]
  /\ UNCHANGED <<mapVars, running, askVars, listenerVars, redisVars, drops, published, inbox,
                 received>>

\* channels_mutex_ is free: the thread is not subscribing.
MutexFree == at \notin {"initial", "initial_reply", "apply_reply"}

WithinLimit(s, ch) ==
  \/ MaxSubscriptions = 0 \/ Cardinality(session_to_channels[s]) < MaxSubscriptions
  \/ ch \in session_to_channels[s]

AddSubscriber(s, ch) ==
  /\ channel_to_sessions' = [channel_to_sessions EXCEPT ![s[1]][ch] =
                               IF Contains(@, s[2]) THEN @ ELSE Append(@, s[2])]
  /\ session_to_channels' = [session_to_channels EXCEPT ![s] = @ \cup {ch}]

\* PubSubListener::subscribe.
AskListener(ch) ==
  subscribed_channels' = subscribed_channels \cup {ch} /\ has_pending_subs' = TRUE

\* handle_subscribe_channel, of an authenticated session.  Over its limit the session
\* gets an error frame and nothing changes.
HandleSubscribeChannel(s, ch) ==
  /\ conn[s] = "open" /\ MutexFree /\ WithinLimit(s, ch)
  /\ AddSubscriber(s, ch) /\ AskListener(ch)
  /\ UNCHANGED <<conn, running, listenerVars, redisVars, drops, published, inbox, received>>

Unsubscribe(s, ch) ==
  /\ channel_to_sessions' = [channel_to_sessions EXCEPT ![s[1]][ch] = Remove(@, s[2])]
  /\ session_to_channels' = [session_to_channels EXCEPT ![s] = @ \ {ch}]

\* handle_unsubscribe_channel: the local map only, the listener stays subscribed.
HandleUnsubscribeChannel(s, ch) ==
  /\ conn[s] = "open" /\ Unsubscribe(s, ch)
  /\ UNCHANGED <<conn, running, askVars, listenerVars, redisVars, drops, published, inbox,
                 received>>

\* Mutant of UnsubscribeAll: only one side of the map is cleared.
ForgetSession(s) ==
  /\ session_to_channels' = [session_to_channels EXCEPT ![s] = {}]
  /\ UNCHANGED channel_to_sessions

UnsubscribeAll(s) ==
  /\ channel_to_sessions' = [channel_to_sessions EXCEPT ![s[1]] =
       [ch \in Channels |-> IF ch \in session_to_channels[s] THEN Remove(@[ch], s[2]) ELSE @[ch]]]
  /\ session_to_channels' = [session_to_channels EXCEPT ![s] = {}]

\* The session is removed: on_session_closed.
OnSessionClosed(s) ==
  /\ conn[s] = "open" /\ conn' = [conn EXCEPT ![s] = "removed"] /\ UnsubscribeAll(s)
  /\ UNCHANGED <<running, askVars, listenerVars, redisVars, drops, published, inbox, received>>

-----------------------------------------------------------------------------
(* Redis (external): subscriptions of one connection, and its drops *)

\* The server takes SUBSCRIBE commands for the channels in new, refusing those in no.
ServerSubscribes(new, no) ==
  /\ server' = server \cup (new \ no) /\ refused' = refused \cup no
  /\ wire' = wire \o [k \in 1 .. Cardinality(new) |-> Ack]

Refusals(new) == {no \in SUBSET new : Cardinality(no \cup refused) <= MaxRefusals}

\* Messages are whole, as the services publish them: an id and a payload.
Publish(ch) ==
  /\ Len(published) < MaxPublished /\ published' = Append(published, ch)
  /\ wire' = IF up /\ ch \in server THEN Append(wire, Len(published')) ELSE wire
  /\ UNCHANGED <<conn, mapVars, running, askVars, listenerVars, up, server, refused, drops, inbox,
                 received>>

Drop ==
  /\ up /\ drops < MaxDrops /\ drops' = drops + 1
  /\ up' = FALSE /\ server' = {} /\ wire' = <<>>
  /\ UNCHANGED <<conn, mapVars, running, askVars, listenerVars, refused, published, inbox, received>>

-----------------------------------------------------------------------------
(* PubSubListener::run_thread *)

otherVars == <<conn, mapVars, drops, published, received>>

\* redisConnect and AUTH succeed; failures sleep and try again.  The channels are merged
\* under the mutex, which is held until all have been subscribed.
ListenerConnects ==
  /\ at = "connect" /\ running
  /\ up' = TRUE /\ server' = {} /\ wire' = <<>> /\ reader' = <<>> /\ active_subs' = {}
  /\ subscribed_channels' = subscribed_channels \cup InitialChannels
  /\ todo' = subscribed_channels' /\ at' = "initial"
  /\ UNCHANGED <<otherVars, running, has_pending_subs, refused, inbox>>

\* redisCommand("SUBSCRIBE ch"): a command, then one reply, whichever is first.
InitialSubscribe ==
  /\ at = "initial" /\ todo # {}
  /\ \E ch \in todo : \E no \in Refusals({ch}) :
       /\ todo' = todo \ {ch} /\ active_subs' = active_subs \cup {ch}
       /\ IF up THEN ServerSubscribes({ch}, no) /\ at' = "initial_reply"
          ELSE UNCHANGED <<server, refused, wire, at>>
  /\ UNCHANGED <<otherVars, running, askVars, reader, up, inbox>>

\* Reading takes some of what is in flight into the reader.
ReadSome(k) == reader' = reader \o SubSeq(wire, 1, k) /\ wire' = SubSeq(wire, k + 1, Len(wire))
\* redisGetReply: the next reply, read from the socket when the reader is empty.
GetReply ==
  IF reader # <<>> THEN reader' = Tail(reader) /\ UNCHANGED wire
  ELSE \E k \in 1 .. Len(wire) :
         reader' = Tail(SubSeq(wire, 1, k)) /\ wire' = SubSeq(wire, k + 1, Len(wire))

InitialReply ==
  /\ at = "initial_reply" /\ at' = "initial"
  /\ IF up \/ reader # <<>> THEN GetReply ELSE UNCHANGED <<reader, wire>>
  /\ UNCHANGED <<otherVars, running, askVars, active_subs, todo, up, server, refused, inbox>>

InitialDone ==
  /\ at = "initial" /\ todo = {} /\ at' = "loop" /\ has_pending_subs' = FALSE
  /\ UNCHANGED <<otherVars, running, subscribed_channels, active_subs, todo, reader, redisVars,
                 inbox>>

\* apply_pending_subscriptions: all new channels in one write, then a reply for each.
\* (Nothing in the gateway takes a channel out of subscribed_channels_.)
ApplyPending ==
  /\ at = "loop" /\ running /\ has_pending_subs' = FALSE
  /\ LET new == IF has_pending_subs THEN subscribed_channels \ active_subs ELSE {}
     IN IF new = {} THEN at' = "select" /\ UNCHANGED <<active_subs, todo, redisVars>>
        ELSE IF up
        THEN \E no \in Refusals(new) :
               /\ ServerSubscribes(new, no)
               /\ active_subs' = active_subs \cup new /\ todo' = new /\ at' = "apply_reply"
               /\ UNCHANGED up
        ELSE at' = "connect" /\ UNCHANGED <<active_subs, todo, redisVars>>
  /\ UNCHANGED <<otherVars, running, subscribed_channels, reader, inbox>>

ApplyReply ==
  /\ at = "apply_reply"
  /\ IF up \/ reader # <<>>
     THEN /\ GetReply /\ todo' = todo \ {CHOOSE ch \in todo : TRUE}
          /\ at' = IF todo' = {} THEN "select" ELSE at
     ELSE at' = "connect" /\ todo' = {} /\ UNCHANGED <<reader, wire>>
  /\ UNCHANGED <<otherVars, running, askVars, active_subs, up, server, refused, inbox>>

\* select times out with no data on the socket, whatever the reader holds ...
SelectTimesOut ==
  /\ at = "select" /\ at' = "loop" /\ wire = <<>> /\ up
  /\ UNCHANGED <<otherVars, running, askVars, active_subs, todo, reader, redisVars, inbox>>

\* ... or says there is data: read it, or find the connection gone.
SelectReady ==
  /\ at = "select" /\ (wire # <<>> \/ ~up)
  /\ IF up THEN at' = "parse" /\ \E k \in 1 .. Len(wire) : ReadSome(k)
     ELSE at' = "connect" /\ UNCHANGED <<reader, wire>>
  /\ UNCHANGED <<otherVars, running, askVars, active_subs, todo, up, server, refused, inbox>>

\* BroadcastFanout::fanout: the message is posted to every core.
Fanout(n) == inbox' = [c \in Cores |-> Append(inbox[c], n)]

\* Parse one reply; a message goes to on_message_, an acknowledgement is dropped.
ParseReply ==
  /\ at = "parse" /\ reader # <<>> /\ reader' = Tail(reader)
  /\ IF Head(reader) = Ack THEN UNCHANGED inbox ELSE Fanout(Head(reader))
  /\ UNCHANGED <<otherVars, running, askVars, at, active_subs, todo, redisVars>>

ParseDone ==
  /\ at = "parse" /\ reader = <<>> /\ at' = "loop"
  /\ UNCHANGED <<otherVars, running, askVars, active_subs, todo, reader, redisVars, inbox>>

\* on_stop of core 0: stop() clears running_ and joins the thread.
Stop ==
  /\ running /\ running' = FALSE
  /\ UNCHANGED <<otherVars, askVars, listenerVars, redisVars, inbox>>

ListenerEnds ==
  /\ at \in {"connect", "loop"} /\ ~running /\ at' = "ended"
  /\ up' = FALSE /\ server' = {} /\ wire' = <<>>
  /\ UNCHANGED <<otherVars, running, askVars, active_subs, todo, reader, refused, inbox>>

-----------------------------------------------------------------------------
(* BroadcastFanout *)

\* Every session of the core for a global channel, else the subscribers of the channel.
Recipients(c, ch) ==
  IF ch \in Globals THEN SetToSeq({s[2] : s \in {x \in Sessions : x[1] = c}})
  ELSE channel_to_sessions[c][ch]

\* The posted lambda writes to those that are still open.
DeliverPost(c) ==
  /\ inbox[c] # <<>> /\ inbox' = [inbox EXCEPT ![c] = Tail(@)]
  /\ LET n == Head(inbox[c])
         to == Recipients(c, published[n])
         times(s) == Cardinality({k \in DOMAIN to : s = <<c, to[k]>>})
     IN received' = [s \in Sessions |->
          IF conn[s] = "open" THEN received[s] \o [k \in 1 .. times(s) |-> n] ELSE received[s]]
  /\ UNCHANGED <<conn, mapVars, running, askVars, listenerVars, redisVars, drops, published>>

ListenerStep ==
  \/ ListenerConnects \/ InitialSubscribe \/ InitialReply \/ InitialDone \/ ApplyPending
  \/ ApplyReply \/ SelectTimesOut \/ SelectReady \/ ParseReply \/ ParseDone \/ ListenerEnds

Next ==
  \/ \E s \in Sessions :
       \/ Connect(s) \/ OnSessionClosed(s)
       \/ \E ch \in Channels : HandleSubscribeChannel(s, ch) \/ HandleUnsubscribeChannel(s, ch)
  \/ \E ch \in Channels : Publish(ch)
  \/ \E c \in Cores : DeliverPost(c)
  \/ ListenerStep \/ Drop \/ Stop

Spec == Init /\ [][Next]_vars /\ WF_vars(ListenerStep)

-----------------------------------------------------------------------------
(* Properties *)

TypeOK ==
  /\ at \in ListenerSteps /\ running \in BOOLEAN /\ has_pending_subs \in BOOLEAN
  /\ subscribed_channels \subseteq Channels /\ active_subs \subseteq subscribed_channels
  /\ server \subseteq active_subs /\ up \in BOOLEAN
  /\ Range(reader) \cup Range(wire) \subseteq 0 .. MaxPublished

\* The two sides of every ChannelSessionMap agree, without duplicates and within the
\* limit, and no removed session is left in them, whose id fanout would look up for ever.
MapsAgree ==
  \A s \in Sessions :
    /\ \A ch \in Channels :
         /\ ch \in session_to_channels[s] <=> Contains(channel_to_sessions[s[1]][ch], s[2])
         /\ IsInjective(channel_to_sessions[s[1]][ch])
    /\ MaxSubscriptions > 0 => Cardinality(session_to_channels[s]) <= MaxSubscriptions
    /\ conn[s] = "removed" => session_to_channels[s] = {}

\* A session gets broadcasts in the order of their publication, each at most once, over
\* reconnections and repeated subscriptions, and whether by channel or globally.
BroadcastInOrder ==
  \A s \in Sessions : \A j, k \in 1 .. Len(received[s]) : j < k => received[s][j] < received[s][k]

\* A channel some session asked for is subscribed at Redis at some time, unless Redis
\* refuses it, and the thread ends after stop().
EveryChannelServed ==
  /\ \A ch \in Channels :
       (ch \in subscribed_channels) ~> (ch \in server \cup refused \/ ~running)
  /\ (~running) ~> (at = "ended")
=============================================================================

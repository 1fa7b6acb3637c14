------------------------------- MODULE Envelope -------------------------------
(***************************************************************************)
(* The bytes a request, its response and a broadcast travel as: the Kafka  *)
(* envelope (kafka_envelope.cpp, envelope_builder.cpp), the bridge that    *)
(* hands it to a service's handler (kafka_dispatch_bridge.cpp), and the    *)
(* frames the gateway makes of a response (response_dispatcher.cpp), of a  *)
(* broadcast (broadcast_fanout.cpp) and of an error (error_sender.cpp).    *)
(*                                                                         *)
(* Field widths and offsets are those of the code; a byte has Base values, *)
(* and HAS_REPLY_TOPIC is the bit that still fits two of them.             *)
(***************************************************************************)
EXTENDS Naturals, Sequences, SequencesExt

CONSTANTS Base,      \* values of a byte
          Requests,  \* [msg_id, core_id, corr_id, session_id, user_id, timestamp, topic, payload]
          Answers,   \* [msg_id, flags, payload] a service answers with
          Strays,    \* other messages on the topics
          Handlers,  \* message ids with a Kafka handler
          ErrorCodes \* codes of error responses

VARIABLES
  stage,  \* how far the request has come
  req,    \* the request
  wire,   \* the message in Kafka or in Redis
  seen,   \* what the service's handler was called with, or the error
  answer, \* what it answered
  frame   \* the bytes enqueued for the client

vars == <<stage, req, wire, seen, answer, frame>>

ROUTING_SIZE == 8
METADATA_SIZE == 40
ENVELOPE_HEADER_SIZE == ROUTING_SIZE + METADATA_SIZE
ROUTING_VERSION == 1
METADATA_VERSION == 2
WIRE_SIZE == 12
WIRE_VERSION == 2
DIRECTION_RESPONSE == 1
ERROR_BIT == 2
HAS_REPLY_TOPIC == 32
ERROR_RESPONSE == 4
MaxTopic == Base ^ 2 - 1

\* What the constants may be.
EnvelopeAssumption ==
  /\ Base \in Nat /\ Base > ERROR_RESPONSE /\ Base ^ 2 > HAS_REPLY_TOPIC
  /\ \A r \in Requests : r.topic \in Seq(0..Base - 1) /\ r.payload \in Seq(0..Base - 1)

-----------------------------------------------------------------------------
(* Numbers and bits. *)

\* hton: n bytes, the most significant one first.
Bytes(v, n) == [i \in 1..n |-> (v \div Base ^ (n - i)) % Base]

\* ntoh of the n bytes at an offset.
NumberAt(data, off, n) ==
  FoldLeft(LAMBDA acc, b : acc * Base + b, 0, SubSeq(data, off + 1, off + n))

HasBit(flags, bit) == (flags \div bit) % 2 = 1
SetBit(flags, bit) == IF HasBit(flags, bit) THEN flags ELSE flags + bit
ClearBit(flags, bit) == IF HasBit(flags, bit) THEN flags - bit ELSE flags

From(data, off) == SubSeq(data, off + 1, Len(data))

-----------------------------------------------------------------------------
(* The headers. *)

RoutingSerialize(h) == Bytes(h.version, 2) \o Bytes(h.flags, 2) \o Bytes(h.msg_id, 4)

\* An error is the empty set of results.
RoutingParse(data) ==
  IF Len(data) < ROUTING_SIZE \/ NumberAt(data, 0, 2) # ROUTING_VERSION THEN {}
  ELSE {[version |-> NumberAt(data, 0, 2), flags |-> NumberAt(data, 2, 2), msg_id |-> NumberAt(data, 4, 4)]}

MetadataSerialize(m) ==
  Bytes(m.version, 4) \o Bytes(m.core_id, 2) \o Bytes(m.corr_id, 8) \o Bytes(m.source_id, 2)
    \o Bytes(m.session_id, 8) \o Bytes(m.user_id, 8) \o Bytes(m.timestamp, 8)

MetadataParse(data) ==
  IF Len(data) < METADATA_SIZE \/ NumberAt(data, 0, 4) # METADATA_VERSION THEN {}
  ELSE {[version |-> NumberAt(data, 0, 4), core_id |-> NumberAt(data, 4, 2),
         corr_id |-> NumberAt(data, 6, 8), source_id |-> NumberAt(data, 14, 2),
         session_id |-> NumberAt(data, 16, 8), user_id |-> NumberAt(data, 24, 8),
         timestamp |-> NumberAt(data, 32, 8)]}

\* Nothing for an empty topic; {} stands for TopicTooLong.
ReplyTopicSerialize(topic) ==
  CASE topic = <<>> -> {<<>>}
    [] Len(topic) > MaxTopic -> {}
    [] OTHER -> {Bytes(Len(topic), 2) \o topic}

ReplyTopicParse(data) ==
  IF Len(data) < 2 \/ Len(data) < 2 + NumberAt(data, 0, 2) THEN {}
  ELSE {[topic |-> SubSeq(data, 3, 2 + NumberAt(data, 0, 2)), total |-> 2 + NumberAt(data, 0, 2)]}

-----------------------------------------------------------------------------
(* The envelope. *)

\* build_full_envelope: the flag follows the topic, and a topic that is too long is left out.
BuildFullEnvelope(routing, metadata, topic, payload) ==
  LET marked == IF topic # <<>> THEN SetBit(routing.flags, HAS_REPLY_TOPIC)
                ELSE ClearBit(routing.flags, HAS_REPLY_TOPIC)
      reply  == ReplyTopicSerialize(topic)
      flags  == IF reply = {} THEN ClearBit(marked, HAS_REPLY_TOPIC) ELSE marked
  IN  RoutingSerialize([routing EXCEPT !.flags = flags]) \o MetadataSerialize(metadata)
        \o (IF reply = {} THEN <<>> ELSE CHOOSE r \in reply : TRUE) \o payload

\* EnvelopeBuilder: the size it allocates ...
Carried(topic) == topic # <<>> /\ Len(topic) <= MaxTopic

TotalSize(topic, payload) ==
  ENVELOPE_HEADER_SIZE + (IF Carried(topic) THEN 2 + Len(topic) ELSE 0) + Len(payload)

\* ... and what serialize_into writes.
SerializeInto(msg_id, flags, metadata, topic, payload) ==
  LET f == IF Carried(topic) THEN SetBit(flags, HAS_REPLY_TOPIC) ELSE ClearBit(flags, HAS_REPLY_TOPIC)
  IN  RoutingSerialize([version |-> ROUTING_VERSION, flags |-> f, msg_id |-> msg_id])
        \o MetadataSerialize(metadata)
        \o (IF Carried(topic) THEN Bytes(Len(topic), 2) \o topic ELSE <<>>) \o payload

\* envelope_payload_offset: a topic section that cannot be parsed is not skipped.
EnvelopePayloadOffset(flags, data) ==
  LET parsed == ReplyTopicParse(From(data, ENVELOPE_HEADER_SIZE))
  IN  IF HasBit(flags, HAS_REPLY_TOPIC) /\ Len(data) >= ENVELOPE_HEADER_SIZE + 2 /\ parsed # {}
      THEN ENVELOPE_HEADER_SIZE + (CHOOSE p \in parsed : TRUE).total
      ELSE ENVELOPE_HEADER_SIZE

\* extract_reply_topic.
ExtractReplyTopic(flags, data) ==
  LET parsed == ReplyTopicParse(From(data, ENVELOPE_HEADER_SIZE))
  IN  IF ~HasBit(flags, HAS_REPLY_TOPIC) \/ Len(data) < ENVELOPE_HEADER_SIZE + 2 \/ parsed = {} THEN <<>>
      ELSE (CHOOSE p \in parsed : TRUE).topic

-----------------------------------------------------------------------------
(* Frames to the client. *)

WireSerialize(h) ==
  <<WIRE_VERSION, h.flags>> \o Bytes(h.msg_id, 4) \o Bytes(h.body_size, 4) \o Bytes(0, 2)

WireFrame(msg_id, flags, body) ==
  WireSerialize([msg_id |-> msg_id, flags |-> flags, body_size |-> Len(body)]) \o body

\* build_wire_response: the error bit is reflected, no other.
BuildWireResponse(routing, payload) ==
  WireFrame(routing.msg_id, IF HasBit(routing.flags, ERROR_BIT) THEN ERROR_RESPONSE ELSE 0, payload)

\* build_pubsub_payload of the chat service, and build_wire_frame of the gateway: a
\* message too short for its id is dropped, an empty one has id 0.
BuildPubsubPayload(msg_id, payload) == Bytes(msg_id, 4) \o payload

BuildWireFrame(message) ==
  CASE Len(message) >= 4 -> WireFrame(NumberAt(message, 0, 4), 0, From(message, 4))
    [] message = <<>> -> WireFrame(0, 0, <<>>)
    [] OTHER -> <<>>

\* build_error_frame.
BuildErrorFrame(msg_id, code) == WireFrame(msg_id, ERROR_RESPONSE, <<code>>)

-----------------------------------------------------------------------------
(* A request's way. *)

None == [kind |-> "none"]

Init ==
  /\ stage = "received" /\ req \in Requests
  /\ wire = <<>> /\ seen = None /\ answer = None /\ frame = <<>>

\* MessageRouter::build_envelope.
BuildEnvelope(r) ==
  BuildFullEnvelope([version |-> ROUTING_VERSION, flags |-> 0, msg_id |-> r.msg_id],
                    [version |-> METADATA_VERSION, core_id |-> r.core_id, corr_id |-> r.corr_id,
                     source_id |-> 0, session_id |-> r.session_id, user_id |-> r.user_id,
                     timestamp |-> r.timestamp],
                    r.topic, r.payload)

Forward ==
  /\ stage = "received" /\ stage' = "requested"
  /\ wire' = BuildEnvelope(req)
  /\ UNCHANGED <<req, seen, answer, frame>>

\* Something else is on the topic.
Stray ==
  /\ stage = "received" /\ stage' = "stray"
  /\ wire' \in Strays
  /\ UNCHANGED <<req, seen, answer, frame>>

\* The request is refused with an error frame.
Refuse ==
  /\ stage = "received" /\ stage' = "refused"
  /\ \E code \in ErrorCodes : frame' = BuildErrorFrame(req.msg_id, code)
  /\ UNCHANGED <<req, wire, seen, answer>>

Failed(code) == [kind |-> "error", code |-> code]

\* KafkaDispatchBridge::dispatch.
DispatchResult(data) ==
  LET routing == RoutingParse(data)
      meta    == MetadataParse(From(data, ROUTING_SIZE))
  IN  IF Len(data) < ENVELOPE_HEADER_SIZE \/ routing = {} \/ meta = {} THEN Failed("ParseFailed")
      ELSE LET h   == CHOOSE r \in routing : TRUE
               off == EnvelopePayloadOffset(h.flags, data)
           IN  IF h.msg_id \notin Handlers THEN Failed("HandlerNotFound")
               ELSE [kind |-> "call", msg_id |-> h.msg_id, meta |-> CHOOSE m \in meta : TRUE,
                     payload |-> From(data, off)]

Dispatch ==
  /\ stage \in {"requested", "stray"} /\ seen = None
  /\ seen' = DispatchResult(wire)
  /\ stage' = IF stage = "requested" /\ seen'.kind = "call" THEN "handled" ELSE stage
  /\ UNCHANGED <<req, wire, answer, frame>>

\* send_response: the ids are those of the request, the envelope has no reply topic.
Respond ==
  /\ stage = "handled" /\ stage' = "answered"
  /\ \E a \in Answers :
       /\ answer' = a
       /\ wire' = SerializeInto(a.msg_id, a.flags,
                    [version |-> METADATA_VERSION, core_id |-> seen.meta.core_id,
                     corr_id |-> seen.meta.corr_id, source_id |-> 2,
                     session_id |-> seen.meta.session_id, user_id |-> 0, timestamp |-> req.timestamp],
                    <<>>, a.payload)
  /\ UNCHANGED <<req, seen, frame>>

\* on_response: what is parsed, and the frame for the session.
OnResponse ==
  /\ stage = "answered" /\ Len(wire) >= ENVELOPE_HEADER_SIZE
  /\ \E routing \in RoutingParse(SubSeq(wire, 1, ROUTING_SIZE)),
        meta \in MetadataParse(SubSeq(wire, ROUTING_SIZE + 1, ENVELOPE_HEADER_SIZE)) :
       /\ EnvelopePayloadOffset(routing.flags, wire) <= Len(wire)
       /\ frame' = BuildWireResponse(routing, From(wire, EnvelopePayloadOffset(routing.flags, wire)))
       /\ seen' = [kind |-> "response", core_id |-> meta.core_id, corr_id |-> meta.corr_id,
                   session_id |-> meta.session_id]
  /\ stage' = "delivered"
  /\ UNCHANGED <<req, wire, answer>>

\* A chat message is published, and fanned out by a gateway.
Publish ==
  /\ stage = "received" /\ stage' = "published"
  /\ wire' = BuildPubsubPayload(req.msg_id, req.payload)
  /\ UNCHANGED <<req, seen, answer, frame>>

Fanout ==
  /\ stage = "published" \/ (stage = "stray" /\ seen = None)
  /\ frame' = BuildWireFrame(wire)
  /\ stage' = IF stage = "stray" THEN "broadcast_stray" ELSE "broadcast"
  /\ UNCHANGED <<req, wire, seen, answer>>

Next == Forward \/ Stray \/ Refuse \/ Dispatch \/ Respond \/ OnResponse \/ Publish \/ Fanout

Spec == Init /\ [][Next]_vars

-----------------------------------------------------------------------------
(* Properties. *)

\* What a client reads in a frame.
ClientReads(f) ==
  [msg_id |-> NumberAt(f, 2, 4), error |-> HasBit(f[2], ERROR_RESPONSE),
   whole |-> NumberAt(f, 6, 4) = Len(f) - WIRE_SIZE, body |-> From(f, WIRE_SIZE)]

\* What one side lays out the other reads back: the handler is called with the ids and
\* the payload of the request, whatever its reply topic (none, of the greatest length, or
\* too long to be carried); the response comes back to the request's core, correlation id
\* and session, and the client reads the answer; so it does an error and a broadcast.
EnvelopeFaithful ==
  /\ stage = "handled" =>
       /\ seen.msg_id = req.msg_id /\ seen.payload = req.payload
       /\ \A f \in {"core_id", "corr_id", "session_id", "user_id", "timestamp"} : seen.meta[f] = req[f]
       /\ ExtractReplyTopic(NumberAt(wire, 2, 2), wire) = IF Len(req.topic) > MaxTopic THEN <<>> ELSE req.topic
  /\ stage = "requested" /\ seen # None => seen = Failed("HandlerNotFound") /\ req.msg_id \notin Handlers
  /\ stage = "delivered" =>
       /\ \A f \in {"core_id", "corr_id", "session_id"} : seen[f] = req[f]
       /\ ClientReads(frame) = [msg_id |-> answer.msg_id, error |-> HasBit(answer.flags, ERROR_BIT),
                                whole |-> TRUE, body |-> answer.payload]
  /\ stage = "refused" => ClientReads(frame).msg_id = req.msg_id /\ ClientReads(frame).error
  /\ stage = "broadcast" =>
       ClientReads(frame) = [msg_id |-> req.msg_id, error |-> FALSE, whole |-> TRUE, body |-> req.payload]

\* The two ways to build an envelope agree on every byte, and EnvelopeBuilder writes
\* exactly the bytes it has allocated ("the layout is entirely that of
\* build_full_envelope()", envelope_builder.hpp).
SameLayout ==
  LET m     == [version |-> METADATA_VERSION, core_id |-> req.core_id, corr_id |-> req.corr_id,
                source_id |-> 0, session_id |-> req.session_id, user_id |-> req.user_id,
                timestamp |-> req.timestamp]
  IN  \A flags \in {0, ERROR_BIT, HAS_REPLY_TOPIC} :
        LET built == SerializeInto(req.msg_id, flags, m, req.topic, req.payload)
        IN  /\ built = BuildFullEnvelope([version |-> ROUTING_VERSION, flags |-> flags, msg_id |-> req.msg_id],
                                         m, req.topic, req.payload)
            /\ Len(built) = TotalSize(req.topic, req.payload)

\* "If message is shorter than 4 bytes, treat as system broadcast": one of one to three
\* bytes is dropped.
ShortIsSystemBroadcast == stage = "broadcast_stray" /\ Len(wire) < 4 => frame = WireFrame(0, 0, <<>>)
=============================================================================

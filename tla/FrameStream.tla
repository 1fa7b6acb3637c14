----------------------------- MODULE FrameStream -----------------------------
(***************************************************************************)
(* The receive path of one session: RingBuffer (ring_buffer.cpp), the      *)
(* frame decoders FrameCodec (frame_codec.cpp, wire_header.cpp) and        *)
(* WebSocketProtocol, the read loop of ConnectionHandler that drives them, *)
(* the handler it awaits, and the tick of SessionManager that shrinks the  *)
(* buffer between two steps of the loop.                                   *)
(*                                                                         *)
(* A byte of the stream is <<f, i>>, the i-th byte of the f-th frame the   *)
(* peer encoded, so that a decoder that slips by one reads no header.      *)
(***************************************************************************)
EXTENDS Naturals, Sequences, FiniteSetsExt

CONSTANTS Streams,         \* sequences of body sizes a peer may send
          Capacity,        \* capacity_, a power of two
          HeaderSize,      \* WireHeader::SIZE, or the length prefix of WebSocket
          MaxBodySize,     \* WireHeader::MAX_BODY_SIZE, Config::max_message_size
          MsgIdSize,       \* the msg_id a WebSocket payload begins with
          Protocols,       \* subset of {"tcp", "websocket"}
          ReadsLate        \* the protocols whose handlers may read after their first await

FrameAssumption ==
  /\ Streams \subseteq Seq(Nat) /\ Capacity \in {2 ^ k : k \in 0 .. 16}
  /\ HeaderSize \in 1 .. Capacity /\ MaxBodySize \in Nat /\ MsgIdSize \in Nat
  /\ Protocols \subseteq {"tcp", "websocket"} /\ ReadsLate \subseteq Protocols

VARIABLES
  stream, protocol,
  buffer, read_pos, write_pos,   \* the ring
  linear,                        \* linear_buf_: its bytes, size, and which realloc it is
  received,                      \* bytes of the stream taken from the socket
  frame,                         \* the decoded frame: header and payload span or copy
  loop,                          \* where the read loop is
  late,                          \* the running handler reads its payload after an await
  closer,                        \* "nobody", or who closed the session
  got                            \* payloads as the handlers read them

ring == <<buffer, read_pos, write_pos>>
vars == <<stream, protocol, ring, linear, received, frame, loop, late, closer, got>>

open == closer = "nobody"       \* is_open

-----------------------------------------------------------------------------
(* What the peer sends *)

TotalSize(f) == HeaderSize + stream[f]
\* FrameCodec::encode_to: header, then body.
Encoded(f) == [i \in 1 .. TotalSize(f) |-> <<f, i>>]
\* WireHeader::serialize: the bytes only this header has.
Header(f) == SubSeq(Encoded(f), 1, HeaderSize)
\* What the handler is to get: a WebSocket payload without its msg_id.
Payload(f) ==
  SubSeq(Encoded(f), HeaderSize + (IF protocol = "websocket" THEN MsgIdSize ELSE 0) + 1,
         TotalSize(f))
StartOf(f) == MapThenSumSet(TotalSize, 1 .. f - 1)
StreamSize == StartOf(Len(stream) + 1)
StreamByte(n) ==
  LET f == CHOOSE g \in 1 .. Len(stream) : StartOf(g) < n /\ n <= StartOf(g + 1)
  IN Encoded(f)[n - StartOf(f)]

-----------------------------------------------------------------------------
(* RingBuffer *)

Min2(a, b) == IF a < b THEN a ELSE b
readable_size == write_pos - read_pos
writable_size == Capacity - readable_size
At(pos) == buffer[pos % Capacity]

\* Mutant of writable: the free space after a wrap is taken for contiguous.
writableAll == writable_size

\* writable: how many bytes may be written without wrapping.
writable == Min2(Capacity - (write_pos % Capacity), writable_size)

\* async_read_some into writable(), then commit_write(n).  The memory behind writable()
\* ends at the end of the buffer.
CommitWrite(n) ==
  /\ buffer' = [a \in 0 .. Capacity - 1 |->
                  LET i == a - (write_pos % Capacity)
                  IN IF i \in 0 .. n - 1 THEN StreamByte(received + i + 1) ELSE buffer[a]]
  /\ write_pos' = write_pos + Min2(n, writable_size) /\ received' = received + n
  /\ UNCHANGED read_pos

Consume(n) == read_pos' = read_pos + Min2(n, readable_size)

Contiguous(n) == Capacity - (read_pos % Capacity) >= n
Front(n) == [i \in 1 .. n |-> At(read_pos + i - 1)]

\* linearize(n): in place, or through linear_buf_, which is enlarged when it is too small.
Linearize(n) ==
  IF Contiguous(n) THEN linear
  ELSE [bytes |-> Front(n),
        size |-> IF linear.size < n THEN n ELSE linear.size,
        block |-> IF linear.size < n THEN linear.block + 1 ELSE linear.block]
Span(n) ==
  IF Contiguous(n) THEN [in |-> "ring", at |-> read_pos, block |-> 0]
  ELSE [in |-> "linear", at |-> 0, block |-> Linearize(n).block]

\* shrink_to_fit frees linear_buf_ when nothing is unread, and reallocates it when it is
\* four times what is.
ShrinkToFit ==
  /\ linear.size > 0
  /\ \/ /\ readable_size = 0
        /\ linear' = [linear EXCEPT !.size = 0, !.block = @ + 1]
     \/ /\ readable_size > 0 /\ linear.size >= 4 * readable_size
        /\ linear' = [linear EXCEPT !.size = 2 * readable_size, !.block = @ + 1]

-----------------------------------------------------------------------------
(* The decoders *)

NoFrame == [kind |-> "none"]
NeedMore == [kind |-> "more"]
Invalid == [kind |-> "invalid"]

\* WireHeader::parse of the bytes at the front of the buffer.
Parses == \E f \in 1 .. Len(stream) :
            Front(HeaderSize) = Header(f) /\ stream[f] <= MaxBodySize
ParsedFrame == At(read_pos)[1]

\* The vector a WebSocket frame owns.
PayloadCopy(total) == SubSeq(Front(total), HeaderSize + 1, total)

\* try_decode: the header is copied, the payload is a span (tcp) or a copy (websocket).
TryDecode ==
  IF readable_size < HeaderSize THEN NeedMore
  ELSE IF ~Parses THEN Invalid
  ELSE LET total == TotalSize(ParsedFrame)
       IN IF readable_size < total THEN NeedMore
          ELSE [kind |-> "frame", total |-> total, span |-> Span(total),
                copy |-> PayloadCopy(total)]

\* linear_buf_ after try_decode: it linearizes the header and then the whole frame.
LinearAfterDecode ==
  CASE readable_size < HeaderSize -> linear
    [] TryDecode.kind = "frame" /\ ~Contiguous(TryDecode.total) -> Linearize(TryDecode.total)
    [] OTHER -> Linearize(HeaderSize)

-----------------------------------------------------------------------------
(* The read loop and the handler *)

Init ==
  /\ stream \in Streams /\ protocol \in Protocols
  /\ buffer = [a \in 0 .. Capacity - 1 |-> <<0, 0>>] /\ read_pos = 0 /\ write_pos = 0
  /\ linear = [bytes |-> <<>>, size |-> 0, block |-> 0]
  /\ received = 0 /\ frame = NoFrame /\ loop = "read" /\ late = FALSE
  /\ closer = "nobody" /\ got = <<>>

\* One read: anything from one byte to what fits.
Receive ==
  /\ loop = "read" /\ open /\ received < StreamSize
  /\ \E n \in 1 .. writable : received + n <= StreamSize /\ CommitWrite(n)
  /\ loop' = "decode"
  /\ UNCHANGED <<stream, protocol, linear, frame, late, closer, got>>

\* A full buffer closes the session; so do end of stream and errors.
ReadEnds ==
  /\ loop = "read"
  /\ ~open \/ writable = 0 \/ received = StreamSize
  /\ closer' = (IF open THEN "loop" ELSE closer) /\ loop' = "done"
  /\ UNCHANGED <<stream, protocol, ring, linear, received, frame, late, got>>

Decode ==
  /\ loop = "decode"
  /\ frame' = TryDecode /\ linear' = LinearAfterDecode
  /\ loop' = CASE TryDecode.kind = "more" -> "read"
               [] TryDecode.kind = "invalid" -> "done"
               [] OTHER -> "dispatch"
  /\ closer' = (IF open /\ TryDecode.kind = "invalid" THEN "loop" ELSE closer)
  /\ UNCHANGED <<stream, protocol, ring, received, late, got>>

\* What a handler finds behind its payload span.  A span into a linear_buf_ that was
\* reallocated shows what the allocator left there.
Freed == << <<0, 0>> >>
PayloadSeen ==
  IF protocol = "websocket" THEN {SubSeq(frame.copy, MsgIdSize + 1, Len(frame.copy))}
  ELSE IF frame.span.in = "ring"
       THEN {[i \in 1 .. frame.total - HeaderSize |-> At(frame.span.at + HeaderSize + i - 1)]}
  ELSE IF frame.span.block = linear.block
       THEN {SubSeq(linear.bytes, HeaderSize + 1, frame.total)}
  ELSE {frame.copy, Freed}

\* A WebSocket frame too small for a msg_id closes the session.
TooSmall == protocol = "websocket" /\ Len(frame.copy) < MsgIdSize

RejectSmall ==
  /\ loop = "dispatch" /\ TooSmall /\ loop' = "done"
  /\ closer' = IF open THEN "loop" ELSE closer
  /\ UNCHANGED <<stream, protocol, ring, linear, received, frame, late, got>>

\* dispatch: the handler reads its payload and suspends, or suspends first.
HandlerStarts ==
  /\ loop = "dispatch" /\ ~TooSmall /\ loop' = "suspended"
  /\ \/ late' = FALSE /\ \E p \in PayloadSeen : got' = Append(got, p)
     \/ protocol \in ReadsLate /\ late' = TRUE /\ UNCHANGED got
  /\ UNCHANGED <<stream, protocol, ring, linear, received, frame, closer>>

ConsumeFrame == Consume(frame.total)

\* The handler returns, the frame is consumed, and the loop looks for the next.
HandlerReturns ==
  /\ loop = "suspended"
  /\ IF late THEN \E p \in PayloadSeen : got' = Append(got, p) ELSE UNCHANGED got
  /\ ConsumeFrame /\ frame' = NoFrame /\ late' = FALSE
  /\ loop' = IF open THEN "decode" ELSE "done"
  /\ UNCHANGED <<stream, protocol, buffer, write_pos, linear, received, closer>>

\* Somebody closes the session: a timeout, an error of the write side, shutdown.
CloseSession ==
  /\ open /\ loop \in {"read", "suspended"} /\ closer' = "other"
  /\ UNCHANGED <<stream, protocol, ring, linear, received, frame, loop, late, got>>

\* SessionManager::tick runs while the read loop is suspended, in a read or in a handler.
Tick ==
  /\ open /\ loop \in {"read", "suspended"} /\ ShrinkToFit
  /\ UNCHANGED <<stream, protocol, ring, received, frame, loop, late, closer, got>>

Next ==
  \/ Receive \/ ReadEnds \/ Decode \/ RejectSmall \/ HandlerStarts \/ HandlerReturns
  \/ CloseSession \/ Tick

\* The peer sends its frames, and the core runs the coroutine when it is ready.
Loop == Receive \/ ReadEnds \/ Decode \/ RejectSmall \/ HandlerStarts \/ HandlerReturns
Spec == Init /\ [][Next]_vars /\ WF_vars(Loop)

-----------------------------------------------------------------------------
(* Properties *)

TypeOK ==
  /\ stream \in Streams /\ protocol \in Protocols
  /\ read_pos <= write_pos /\ readable_size <= Capacity
  /\ loop \in {"read", "decode", "dispatch", "suspended", "done"}
  /\ late \in BOOLEAN /\ closer \in {"nobody", "loop", "other"} /\ received \in 0 .. StreamSize
  /\ frame.kind \in {"none", "more", "invalid", "frame"}

\* The handlers see the frames the peer sent, in order, each once and each byte of it,
\* however the reads cut the stream and wherever the frames wrap in the ring.
FramesIntact == \A k \in 1 .. Len(got) : k <= Len(stream) /\ got[k] = Payload(k)

\* A frame that fits the buffer is handled, unless somebody else closes the session or an
\* earlier frame could not be received: the loop never waits for bytes it already has, and
\* never takes a full buffer for one that cannot be decoded.
Deliverable(k) ==
  k <= Len(stream) /\ \A f \in 1 .. k :
    /\ TotalSize(f) <= Capacity /\ stream[f] <= MaxBodySize
    /\ protocol = "websocket" => stream[f] >= MsgIdSize
AllHandled == \A k \in 1 .. Len(stream) : Deliverable(k) => Len(got) >= k
EveryFrameHandled == <>(AllHandled \/ closer = "other")
=============================================================================

------------------------------ MODULE Session ------------------------------
(***************************************************************************)
(* The write side of a Session (session.cpp): enqueue_write, async_send    *)
(* and async_send_raw put frames in write_queue_, one write_pump coroutine *)
(* sends them, and close() may come at any suspension point.  Everything   *)
(* runs on the owning core's thread, so an action is what runs between two *)
(* co_awaits.                                                              *)
(*                                                                         *)
(* A request is the number of its frame and the coroutine that awaits it.  *)
(***************************************************************************)
EXTENDS Naturals, Sequences, SequencesExt

CONSTANTS Senders,        \* coroutines in async_send / async_send_raw
          NoOne,          \* the waiter of a fire-and-forget frame
          MaxQueueDepth,  \* max_queue_depth_
          MaxFrames       \* bound: frames accepted

\* What the constants may be.
SessionAssumption ==
  MaxQueueDepth \in Nat /\ MaxFrames \in Nat /\ NoOne \notin Senders

VARIABLES
  state,         \* state_: "Active" or "Closed"
  write_queue,   \* write_queue_, requests [frame, waiter]
  pump_running,  \* pump_running_
  spawned,       \* write_pump coroutines spawned and not started
  writing,       \* requests in an async_write
  wire,          \* frames written to the socket
  accepted,      \* frames accepted so far
  pc,            \* each sender: "idle", "waiting", "signalled"
  result,        \* what its last send returned, or its completion_result
  frame          \* the frame a waiting sender awaits

pumpVars == <<pump_running, spawned, writing>>
senderVars == <<pc, result, frame>>
vars == <<state, write_queue, pumpVars, wire, accepted, senderVars>>

Requests == [frame : 1..MaxFrames, waiter : Senders \cup {NoOne}]

Init ==
  /\ state = "Active" /\ write_queue = <<>>
  /\ pump_running = FALSE /\ spawned = 0 /\ writing = {}
  /\ wire = <<>> /\ accepted = 0
  /\ pc = [s \in Senders |-> "idle"]
  /\ result = [s \in Senders |-> "ok"]
  /\ frame = [s \in Senders |-> 0]

-----------------------------------------------------------------------------
\* A request is queued, and the pump spawned unless it runs.
Push(waiter) ==
  /\ accepted < MaxFrames
  /\ accepted' = accepted + 1
  /\ write_queue' = Append(write_queue, [frame |-> accepted + 1, waiter |-> waiter])
  /\ pump_running' = TRUE
  /\ spawned' = IF pump_running THEN spawned ELSE spawned + 1

Full == Len(write_queue) >= MaxQueueDepth

\* enqueue_write; a closed session or a full queue changes nothing.
EnqueueWrite ==
  /\ state = "Active" /\ ~Full
  /\ Push(NoOne)
  /\ UNCHANGED <<state, writing, wire, senderVars>>

\* async_send and async_send_raw up to the wait for the completion timer.
AsyncSend(s) ==
  /\ pc[s] = "idle"
  /\ \/ /\ state = "Active" /\ ~Full
        /\ Push(s)
        /\ pc' = [pc EXCEPT ![s] = "waiting"]
        /\ frame' = [frame EXCEPT ![s] = accepted + 1]
        /\ result' = [result EXCEPT ![s] = "SendFailed"]
     \/ /\ state = "Closed" \/ Full
        /\ result' = [result EXCEPT ![s] = IF state = "Closed" THEN "SessionClosed" ELSE "BufferFull"]
        /\ UNCHANGED <<write_queue, pump_running, spawned, accepted, pc, frame>>
  /\ UNCHANGED <<state, writing, wire>>

\* The completion timer's wait returns in the sender's coroutine.
Return(s) ==
  /\ pc[s] = "signalled"
  /\ pc' = [pc EXCEPT ![s] = "idle"]
  /\ UNCHANGED <<state, write_queue, pumpVars, wire, accepted, result, frame>>

\* close(): by the read loop, a timeout, a handler or a failed write.
Close ==
  /\ state = "Active"
  /\ state' = "Closed"
  /\ UNCHANGED <<write_queue, pumpVars, wire, accepted, senderVars>>

-----------------------------------------------------------------------------
(* write_pump *)

\* Mutant of Advance: the flag is dropped while a write is outstanding.
AdvanceDroppingFlag(rest) ==
  IF write_queue # <<>> /\ state = "Active"
  THEN /\ writing' = rest \cup {Head(write_queue)}
       /\ write_queue' = Tail(write_queue)
       /\ pump_running' = FALSE
  ELSE writing' = rest /\ pump_running' = FALSE /\ UNCHANGED write_queue

\* The head of the pump's loop: the next write, or the end of the pump.
Advance(rest) ==
  IF write_queue # <<>> /\ state = "Active"
  THEN /\ writing' = rest \cup {Head(write_queue)}
       /\ write_queue' = Tail(write_queue)
       /\ UNCHANGED pump_running
  ELSE writing' = rest /\ pump_running' = FALSE /\ UNCHANGED write_queue

PumpStarts ==
  /\ spawned > 0
  /\ spawned' = spawned - 1
  /\ Advance(writing)
  /\ UNCHANGED <<state, wire, accepted, senderVars>>

\* The completion timers of the requests in R are cancelled with this result.
Signal(R, r) ==
  /\ result' = [s \in Senders |-> IF \E q \in R : q.waiter = s THEN r ELSE result[s]]
  /\ pc' = [s \in Senders |-> IF \E q \in R : q.waiter = s THEN "signalled" ELSE pc[s]]

\* Mutant of WriteSucceeds: the pump sends one frame and ends.
WriteSucceedsAndEnds(q) ==
  /\ q \in writing
  /\ wire' = Append(wire, q.frame)
  /\ Signal({q}, "ok")
  /\ writing' = writing \ {q} /\ pump_running' = FALSE
  /\ UNCHANGED <<state, write_queue, spawned, accepted, frame>>

WriteSucceeds(q) ==
  /\ q \in writing
  /\ wire' = Append(wire, q.frame)
  /\ Signal({q}, "ok")
  /\ Advance(writing \ {q})
  /\ UNCHANGED <<state, spawned, accepted, frame>>

\* A failed write fails every queued request, closes the session and ends the pump.
WriteFails(q) ==
  /\ q \in writing
  /\ Signal({q} \cup Range(write_queue), "SendFailed")
  /\ writing' = writing \ {q} /\ write_queue' = <<>>
  /\ state' = "Closed" /\ pump_running' = FALSE
  /\ UNCHANGED <<spawned, wire, accepted, frame>>

PumpStep == PumpStarts \/ \E q \in writing : WriteSucceeds(q) \/ WriteFails(q)

Next ==
  \/ EnqueueWrite \/ Close \/ PumpStep
  \/ \E s \in Senders : AsyncSend(s) \/ Return(s)

Spec == Init /\ [][Next]_vars

\* The io_context runs what is ready, and a write completes or fails.
FairSpec == Spec /\ WF_vars(PumpStep) /\ \A s \in Senders : WF_vars(Return(s))

-----------------------------------------------------------------------------
(* Properties. *)

\* Type invariant.
TypeOK ==
  /\ state \in {"Active", "Closed"}
  /\ write_queue \in Seq(Requests) /\ Len(write_queue) <= MaxQueueDepth
  /\ pump_running \in BOOLEAN /\ spawned \in Nat /\ writing \subseteq Requests
  /\ wire \in Seq(1..MaxFrames) /\ accepted \in 0..MaxFrames
  /\ pc \in [Senders -> {"idle", "waiting", "signalled"}]
  /\ result \in [Senders -> {"ok", "SendFailed", "SessionClosed", "BufferFull"}]
  /\ frame \in [Senders -> 0..MaxFrames]

\* The implicit strand: there is one write_pump, spawned or writing, exactly while
\* pump_running_ is set, so the socket never sees two writes at once.
OnePump ==
  IF pump_running THEN \/ spawned = 1 /\ writing = {}
                       \/ spawned = 0 /\ \E q \in writing : writing = {q}
  ELSE spawned = 0 /\ writing = {}

\* No frame of an open session waits without a pump to send it.
NoStrandedFrame == state = "Active" /\ write_queue # <<>> => pump_running

\* Frames reach the socket in the order they were accepted, none skipped: what is
\* written, being written and queued is the accepted frames, until one fails.
WireInOrder ==
  /\ \A i \in 1..Len(wire) : wire[i] = i
  /\ state = "Active" =>
       \A q \in writing : q.frame = Len(wire) + 1

\* A sender is told ok only if its frame was written, and waits only for a frame
\* that was not.
ResultHonest ==
  \A s \in Senders :
    /\ pc[s] = "signalled" /\ result[s] = "ok" => frame[s] <= Len(wire)
    /\ pc[s] = "waiting" => frame[s] > Len(wire)

\* While the session stays open every sender is answered.
AnsweredWhileOpen ==
  \A s \in Senders : pc[s] = "waiting" ~> (pc[s] # "waiting" \/ state = "Closed")

\* session.cpp, enqueue_and_await: "write_pump will cancel() it after processing,
\* which resumes this coroutine", so every sender is answered.
EverySendAnswered == \A s \in Senders : pc[s] = "waiting" ~> pc[s] # "waiting"

\* session.hpp: "max_queue_depth  Per-session write queue depth limit (0 =
\* unlimited)."
ZeroIsUnlimited == MaxQueueDepth = 0 => \A s \in Senders : result[s] # "BufferFull"
=============================================================================

-------------------------------- MODULE Kafka --------------------------------
(***************************************************************************)
(* One Kafka partition and the process that consumes it: KafkaConsumer     *)
(* (kafka_consumer.cpp), the KafkaProducer that carries its dead letters   *)
(* (kafka_producer.cpp), the KafkaAdapter around them (kafka_adapter.cpp)  *)
(* and the coroutines the adapter spawns for the messages.                 *)
(*                                                                         *)
(* librdkafka and the broker are external: a background thread fetches     *)
(* messages into the consumer queue and writes a byte to the pipe when the *)
(* queue was empty, a commit is asynchronous and may be lost, a produced   *)
(* message stays in the local queue until its delivery report is served.   *)
(* A restarted process resumes at the committed offset.                    *)
(***************************************************************************)
EXTENDS Naturals, Sequences, FiniteSets

CONSTANTS MaxMessages,     \* bound: messages written to the partition
          MaxRestarts,     \* bound: times the process ends
          Setups,          \* [pipe, batch]: how polls are triggered, consumer_max_batch
          DlqRetries,      \* config_.dlq_max_retries
          MaxOutq,         \* queue.buffering.max.messages
          InitialCount, MaxCount  \* of the payload pool

KafkaAssumption ==
  /\ MaxMessages \in Nat /\ MaxRestarts \in Nat /\ DlqRetries \in Nat /\ MaxOutq \in Nat
  /\ Setups \subseteq [pipe : BOOLEAN, batch : Nat \ {0}]

VARIABLES
  setup, written, restarts,
  committed,               \* the group's offset at the broker
  commits,                 \* commit requests under way
  phase,                   \* "down", "ready", "draining" or "closed"
  position, queue, byte,   \* librdkafka's fetch position and consumer queue; the pipe
  consuming, poller, polled, \* consuming_; the poll loop: "waiting", "polling" or "off"
  outq,                    \* the producer's queue: dead letters and their delivery
  running,                 \* messages whose coroutine runs, each with a pooled buffer
  free_list, in_use, total_created,
  offered, accepted        \* history: passed to message_cb_; processed or in the DLQ queue

pollVars == <<consuming, poller, polled>>
fetchVars == <<position, queue, byte>>
poolVars == <<free_list, in_use, total_created>>
history == <<offered, accepted>>
vars == <<setup, written, restarts, committed, commits, phase, fetchVars, pollVars, outq,
          running, poolVars, history>>

Pool == INSTANCE PayloadPool

Offsets == 0 .. MaxMessages - 1
ErrorEvent == MaxMessages          \* an event of the queue that is not a message

Init ==
  /\ setup \in Setups /\ written = 0 /\ restarts = 0
  /\ committed = 0 /\ commits = <<>> /\ phase = "down"
  /\ position = 0 /\ queue = <<>> /\ byte = FALSE
  /\ consuming = FALSE /\ poller = "off" /\ polled = 0
  /\ outq = <<>> /\ running = {} /\ Pool!Init
  /\ offered = {} /\ accepted = {}

-----------------------------------------------------------------------------
(* The broker and librdkafka *)

Write ==
  /\ written < MaxMessages /\ written' = written + 1
  /\ UNCHANGED <<setup, restarts, committed, commits, phase, fetchVars, pollVars, outq,
                 running, poolVars, history>>

\* The pipe is written only on the enqueue that finds the queue empty.
Enqueue(e) ==
  /\ queue' = Append(queue, e)
  /\ byte' = (byte \/ (setup.pipe /\ queue = <<>>))

Fetch ==
  /\ phase \in {"ready", "draining"}
  /\ \/ position < written /\ Enqueue(position) /\ position' = position + 1
     \/ /\ \A i \in 1 .. Len(queue) : queue[i] # ErrorEvent
        /\ Enqueue(ErrorEvent) /\ UNCHANGED position
  /\ UNCHANGED <<setup, written, restarts, committed, commits, phase, pollVars, outq,
                 running, poolVars, history>>

FetchMessage == Fetch /\ position' # position

CommitEnds ==
  /\ commits # <<>> /\ commits' = Tail(commits)
  /\ committed' = Head(commits) + 1 \/ UNCHANGED committed
  /\ UNCHANGED <<setup, written, restarts, phase, fetchVars, pollVars, outq, running,
                 poolVars, history>>

\* A dead letter is delivered or refused; its report waits for rd_kafka_poll.
Deliver ==
  /\ \E i \in 1 .. Len(outq), sent \in {"delivered", "refused"} :
       outq[i] = "queued" /\ outq' = [outq EXCEPT ![i] = sent]
  /\ UNCHANGED <<setup, written, restarts, committed, commits, phase, fetchVars, pollVars,
                 running, poolVars, history>>

-----------------------------------------------------------------------------
(* KafkaConsumer *)

\* The wait ends: the byte is read (or the timer expired) and poll_messages begins.
Wake ==
  /\ poller = "waiting" /\ (setup.pipe => byte)
  /\ byte' = FALSE /\ polled' = 0
  /\ poller' = IF consuming THEN "polling" ELSE "off"
  /\ UNCHANGED <<setup, written, restarts, committed, commits, phase, position, queue,
                 consuming, outq, running, poolVars, history>>

\* commit_offset: an asynchronous commit of the message's offset.
CommitOffset(m) == commits' = Append(commits, m)

\* KafkaProducer::produce succeeds: the message is in the producer's queue, no more.
Produce == Len(outq) < MaxOutq /\ outq' = Append(outq, "queued")

\* produce_to_dlq: one of the attempts finds room in the producer's queue.
ProduceToDlq == DlqRetries >= 1 /\ Produce

\* message_cb_ as KafkaAdapter wires it: the payload is copied to a pooled buffer, a
\* coroutine is spawned, and the callback succeeds before the coroutine has run.
CallbackSucceeds(m) ==
  /\ running' = running \cup {m}
  /\ Pool!Acquire
  /\ accepted' = accepted \cup {m}
  /\ CommitOffset(m) /\ UNCHANGED outq

\* Mutant of CallbackFails: the offset is committed whatever became of the dead letter.
CallbackFailsCommits(m) ==
  /\ UNCHANGED <<running, poolVars>> /\ CommitOffset(m)
  /\ \/ ProduceToDlq /\ accepted' = accepted \cup {m}
     \/ UNCHANGED <<outq, accepted>>

\* A callback that fails: the message goes to the DLQ and is committed, or every attempt
\* fails (or there is no producer) and it is left uncommitted.
CallbackFails(m) ==
  /\ UNCHANGED <<running, poolVars>>
  /\ \/ ProduceToDlq /\ CommitOffset(m) /\ accepted' = accepted \cup {m}
     \/ UNCHANGED <<outq, commits, accepted>>

\* One iteration of poll_messages.
PollMessage ==
  /\ poller = "polling" /\ polled < setup.batch /\ queue # <<>>
  /\ queue' = Tail(queue) /\ polled' = polled + 1
  /\ LET m == Head(queue)
     IN IF m = ErrorEvent THEN UNCHANGED <<commits, outq, running, poolVars, history>>
        ELSE /\ CallbackSucceeds(m) \/ CallbackFails(m)
             /\ offered' = offered \cup {m}
  /\ UNCHANGED <<setup, written, restarts, committed, phase, position, byte, consuming, poller>>

\* The batch is full or the queue is empty; the next wait is scheduled.
PollEnds ==
  /\ poller = "polling" /\ (polled = setup.batch \/ queue = <<>>)
  /\ poller' = IF consuming THEN "waiting" ELSE "off"
  /\ UNCHANGED <<setup, written, restarts, committed, commits, phase, fetchVars, consuming,
                 polled, outq, running, poolVars, history>>

-----------------------------------------------------------------------------
(* KafkaAdapter *)

\* The coroutine ends, whether or not dispatch succeeded, and its buffer is released.
HandlerEnds ==
  /\ \E m \in running : running' = running \ {m}
  /\ Pool!Release
  /\ UNCHANGED <<setup, written, restarts, committed, commits, phase, fetchVars, pollVars,
                 outq, history>>

\* delivery_report_cb only counts: a dead letter that was refused is gone all the same.
Unreported == SelectSeq(outq, LAMBDA d : d = "queued")

\* on_producer_poll_tick serves the delivery reports while the adapter is ready.
ProducerPollTick ==
  /\ phase = "ready" /\ outq # Unreported
  /\ outq' = Unreported
  /\ UNCHANGED <<setup, written, restarts, committed, commits, phase, fetchVars, pollVars,
                 running, poolVars, history>>

ProducerInit == outq' = <<>>
ConsumerInit == position' = committed /\ queue' = <<>> /\ byte' = FALSE
StartConsuming == consuming' = TRUE /\ poller' = "waiting" /\ polled' = 0

\* do_init: the producer, the consumer, and the poll loop; a failure ends the process.
Start ==
  /\ phase = "down" /\ phase' = "ready"
  /\ ProducerInit /\ ConsumerInit /\ StartConsuming
  /\ UNCHANGED <<setup, written, restarts, committed, commits, running, poolVars, history>>

\* stop_consuming cancels the wait; a batch being polled is finished.
StopConsuming ==
  /\ consuming' = FALSE
  /\ poller' = IF poller = "waiting" THEN "off" ELSE poller

\* do_drain.
Drain ==
  /\ phase = "ready" /\ phase' = "draining" /\ StopConsuming
  /\ UNCHANGED <<setup, written, restarts, committed, commits, fetchVars, polled, outq,
                 running, poolVars, history>>

\* Destroying the producer flushes its queue; what the flush times out on is dropped.
ProducerDestroyed == outq' = <<>>
ConsumerDestroyed == queue' = <<>> /\ byte' = FALSE

\* do_close flushes the producer, then destroys consumer and producer.
Close ==
  /\ phase = "draining" /\ poller = "off" /\ phase' = "closed"
  /\ ProducerDestroyed /\ ConsumerDestroyed
  /\ UNCHANGED <<setup, written, restarts, committed, commits, position, pollVars, running,
                 poolVars, history>>

\* The process ends, in order or not: what it held is gone, and of the commits under way
\* the broker has seen some.
Stop ==
  /\ phase # "down" /\ restarts < MaxRestarts /\ restarts' = restarts + 1
  /\ phase' = "down"
  /\ committed' \in {committed} \cup {commits[i] + 1 : i \in 1 .. Len(commits)}
  /\ commits' = <<>> /\ outq' = <<>> /\ running' = {} /\ queue' = <<>> /\ byte' = FALSE
  /\ consuming' = FALSE /\ poller' = "off" /\ polled' = 0
  /\ free_list' = InitialCount /\ in_use' = 0 /\ total_created' = InitialCount
  /\ UNCHANGED <<setup, written, position, history>>

Next ==
  \/ Write \/ Fetch \/ CommitEnds \/ Deliver \/ Wake \/ PollMessage \/ PollEnds
  \/ HandlerEnds \/ ProducerPollTick \/ Start \/ Drain \/ Close \/ Stop

\* The core's event loop runs what is ready; librdkafka fetches.
Spec ==
  /\ Init /\ [][Next]_vars
  /\ WF_vars(Wake) /\ WF_vars(PollMessage) /\ WF_vars(PollEnds) /\ WF_vars(FetchMessage)

-----------------------------------------------------------------------------
(* Properties *)

TypeOK ==
  /\ setup \in Setups /\ written \in 0 .. MaxMessages /\ restarts \in 0 .. MaxRestarts
  /\ committed \in 0 .. MaxMessages /\ commits \in Seq(Offsets)
  /\ phase \in {"down", "ready", "draining", "closed"}
  /\ position \in 0 .. MaxMessages /\ queue \in Seq(Offsets \cup {ErrorEvent})
  /\ byte \in BOOLEAN /\ consuming \in BOOLEAN /\ poller \in {"waiting", "polling", "off"}
  /\ polled \in Nat /\ outq \in Seq({"queued", "delivered", "refused"}) /\ Len(outq) <= MaxOutq
  /\ running \in SUBSET Offsets /\ in_use >= 0
  /\ offered \in SUBSET Offsets /\ accepted \in SUBSET offered

\* The offset the group resumes from never runs ahead of the messages handed out, and is
\* always that of a message that was handled or dead-lettered: a crash at any point, with
\* any commits lost, repeats messages but starts at none that was not dealt with.
CommitsSound ==
  /\ committed <= position
  /\ committed > 0 => committed - 1 \in accepted
  /\ \A m \in Offsets : m < committed => m \in offered

\* One buffer per running coroutine, and the bound of the pool.
BuffersReturned == in_use = Cardinality(running) /\ Pool!PayloadBounded

\* While the consumer runs, every message of the partition reaches the callback.
EveryMessageOffered ==
  \A m \in Offsets :
    (m < written /\ phase = "ready" /\ m >= position) ~> (m \in offered \/ phase # "ready")

\* "If both fail, offset is NOT committed - message will be redelivered"
\* (kafka_consumer.cpp:242).
FailedIsRedelivered == \A m \in Offsets : m < committed => m \in accepted
=============================================================================

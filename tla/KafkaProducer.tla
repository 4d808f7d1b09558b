--------------------------- MODULE KafkaProducer ----------------------------
(* Class KafkaProducer (src/AvayaCtiService/KafkaProducer.cpp) over the       *)
(* client library's queue of messages.  A message leaves the queue when the   *)
(* thread that owns the producer polls for the report of its delivery.        *)
EXTENDS Naturals, FiniteSets

CONSTANTS
  MaxMessages,   \* bound on the messages produce is called with
  QueueSize      \* queue.buffering.max.messages of the library

VARIABLES
  rk, rkt,     \* the producer's handle and its topic's, see Handle
  produced,    \* the last message produce was called with
  calling,     \* whether that call is still in its loop
  queue,       \* library: messages not delivered and not given up yet
  reports,     \* library: messages whose report no poll has served yet
  accepted,    \* history: how often the library accepted each message
  refused,     \* history: messages not sent for another reason than a full queue
  dropped      \* history: messages still unsettled when the handle was destroyed

vars == <<rk, rkt, produced, calling, queue, reports, accepted, refused, dropped>>

Handle == {"uninitialised", "null", "live", "dangling"}
Message == 1 .. MaxMessages

\* KafkaProducer(): no handle is set.
New ==
  /\ rk = "uninitialised" /\ rkt = "uninitialised"
  /\ produced = 0 /\ calling = FALSE /\ queue = {} /\ reports = {}
  /\ accepted = [m \in Message |-> 0] /\ refused = {} /\ dropped = {}

\* initKafka(): rd_kafka_new may fail, and rd_kafka_topic_new, after which the
\* handle is destroyed and kept.  The caller is told of neither.
initKafka ==
  \/ rk' = "null" /\ UNCHANGED rkt
  \/ rk' = "dangling" /\ rkt' = "null"
  \/ rk' = "live" /\ rkt' = "live"

KeepMessages == UNCHANGED <<produced, calling, queue, reports, accepted, refused, dropped>>

Usable == rk = "live" /\ rkt = "live"
Full == Cardinality(queue \cup reports) >= QueueSize

\* The library delivers a message, or gives it up after message.timeout.ms.
Settle(m) ==
  /\ m \in queue /\ queue' = queue \ {m} /\ reports' = reports \cup {m}
  /\ UNCHANGED <<rk, rkt, produced, calling, accepted, refused, dropped>>

\* rd_kafka_poll serves the reports there are, and those that come while it waits.
Poll == reports' = {}

Call ==
  /\ ~calling /\ produced < MaxMessages
  /\ produced' = produced + 1 /\ calling' = TRUE
  /\ UNCHANGED <<rk, rkt, queue, reports, accepted, refused, dropped>>

\* One round of produce: accepted, the queue full (poll and retry), or refused.
Enqueue ==
  /\ ~Full
  /\ queue' = queue \cup {produced} /\ Poll
  /\ accepted' = [accepted EXCEPT ![produced] = @ + 1]
  /\ calling' = FALSE /\ UNCHANGED refused

\* Mutant: a full queue is retried without a poll.
RetryAtOnce ==
  /\ Full
  /\ UNCHANGED <<queue, reports, accepted, refused, calling>>

\* Mutant: the poll is not followed by the retry.
RetryNever ==
  /\ Full /\ Poll /\ calling' = FALSE
  /\ UNCHANGED <<queue, accepted, refused>>

Retry ==
  /\ Full /\ Poll
  /\ UNCHANGED <<queue, accepted, refused, calling>>

Refuse ==
  /\ refused' = refused \cup {produced} /\ Poll
  /\ calling' = FALSE /\ UNCHANGED <<queue, accepted>>

\* An empty text is not sent, and nothing is polled.
NothingToSend ==
  /\ refused' = refused \cup {produced}
  /\ calling' = FALSE /\ UNCHANGED <<queue, reports, accepted>>

\* The rounds of a message the library does not refuse.
Attempt ==
  /\ calling
  /\ Enqueue \/ Retry
  /\ UNCHANGED <<rk, rkt, produced, dropped>>

produce ==
  \/ Attempt
  \/ /\ calling
     /\ Refuse \/ NothingToSend
     /\ UNCHANGED <<rk, rkt, produced, dropped>>

\* The library goes, and what it has not sent goes with it.
Drop ==
  /\ dropped' = queue /\ queue' = {} /\ reports' = {}
  /\ UNCHANGED <<produced, calling, accepted, refused>>

\* ~KafkaProducer: rd_kafka_flush polls until every message is settled, or ten
\* seconds have passed (then `late'), and the handles are destroyed.
Flushed(late) == late \/ queue \cup reports = {}

FlushPoll ==
  /\ reports # {} /\ Poll
  /\ UNCHANGED <<rk, rkt, produced, calling, queue, accepted, refused, dropped>>

\* Mutant: the handles are destroyed without a flush.
DestroyAtOnce(late) == rk' = "dangling" /\ rkt' = "dangling" /\ Drop

Destroy(late) ==
  /\ Flushed(late)
  /\ rk' = "dangling" /\ rkt' = "dangling"
  /\ Drop
-----------------------------------------------------------------------------
(* Properties.                                                               *)

\* When produce has returned, its message has been accepted exactly once or
\* refused for good: a full queue neither loses a message nor sends it twice
\* (KafkaProducer.cpp 103 to 117).
ProducedOnce ==
  \A m \in Message :
    LET returned == m < produced \/ (m = produced /\ ~calling)
    IN accepted[m] = IF returned /\ m \notin refused THEN 1 ELSE 0

\* produce returns although its retry has no bound: the poll in the loop is what
\* makes room (KafkaProducer.cpp 112).
ProduceReturns == calling ~> ~calling
=============================================================================

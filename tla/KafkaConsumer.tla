--------------------------- MODULE KafkaConsumer ----------------------------
(* Class KafkaConsumer (src/AvayaCtiService/KafkaConsumer.cpp): the handles   *)
(* of the client library it sets up and tears down, and the two loops that    *)
(* read the topic.                                                            *)
EXTENDS Integers, Sequences

CONSTANTS
  Partitions, \* the partitions of the topic, 0 among them
  MaxOffset,  \* bound on the messages of a partition
  Tries       \* how often the destructor waits for the library: 5 in the code

VARIABLES
  consumer,     \* rk
  topic,        \* rkt, which nobody looks at or destroys
  topics_list,  \* the list of the subscription
  topic_conf,   \* to whom the topic configuration has been given, in order
  loop,         \* the loop the thread is in: "none", "consume", "consume_clear", "wait"
  run,          \* run, as the destructor counts it down
  end,          \* environment: messages in each partition
  position,     \* library: the next message a poll gives out of each partition
  cleared,      \* history: the end of partition 0 consume_clear last went to
  message,      \* what consume last returned: a message as its partition and place,
                \* or <<>> for the empty string
  timeouts,     \* history: waits of the destructor that timed out
  dumped        \* history: the destructor has dumped the handle

vars == <<consumer, topic, topics_list, topic_conf, loop, run, end, position, cleared,
          message, timeouts, dumped>>
handles == <<consumer, topic, topics_list, topic_conf>>
waiting == <<run, timeouts, dumped>>
reading == <<end, position, cleared, message>>

\* KafkaConsumer(...): no handle is set ("int run = 1" is a variable of its own).
New ==
  /\ consumer = "uninitialised" /\ topic = "uninitialised"
  /\ topics_list = "uninitialised"
  /\ topic_conf = <<>> /\ loop = "none" /\ run = 0
  /\ end = [p \in Partitions |-> 0] /\ position = [p \in Partitions |-> 1]
  /\ cleared = 0 /\ message = <<>>
  /\ timeouts = 0 /\ dumped = FALSE

\* initKafka: a setting is refused, rd_kafka_new fails, or the handle is made.
\* Then the subscription fails or not, which changes no handle.
ConfRefused == UNCHANGED handles

NewFails ==
  /\ topic_conf' = <<"conf">>
  /\ consumer' = "null" /\ UNCHANGED <<topic, topics_list>>

\* Whether the topic was made is not asked.
HandleMade ==
  /\ topic_conf' = <<"conf", "topic">>
  /\ consumer' = "live" /\ topics_list' = "live"
  /\ topic' \in {"live", "null"}

initKafka == ConfRefused \/ NewFails \/ HandleMade

KeepReading == UNCHANGED <<loop, waiting, reading>>

Usable == consumer = "live" /\ topics_list = "live"
-----------------------------------------------------------------------------
(* The loops.  A poll that finds nothing in time leaves everything as it is. *)

Arrive ==
  /\ \E p \in Partitions : end[p] < MaxOffset /\ end' = [end EXCEPT ![p] = @ + 1]
  /\ UNCHANGED <<handles, waiting, loop, position, cleared, message>>

Enter(l) ==
  /\ loop = "none" /\ loop' = l
  /\ UNCHANGED <<handles, waiting, reading>>

Waiting == {p \in Partitions : position[p] <= end[p]}
Past(p) == [position EXCEPT ![p] = @ + 1]

\* Mutant: a poll that finds nothing counts as a message.
consumeNothing ==
  /\ loop = "consume" /\ loop' = "none"
  /\ \E p \in Partitions : position' = Past(p)
  /\ message' = <<>>
  /\ UNCHANGED <<handles, waiting, end, cleared>>

\* consume takes one message, or an error or a message without payload, for
\* which it returns the empty string.
consume ==
  /\ loop = "consume" /\ loop' = "none"
  /\ \/ \E p \in Waiting : position' = Past(p) /\ message' \in {<<p, position[p]>>, <<>>}
     \/ UNCHANGED position /\ message' = <<>>
  /\ UNCHANGED <<handles, waiting, end, cleared>>

\* What a poll leaves: it gives out a message of some partition, or an error.
Polls == {position} \cup {Past(p) : p \in Waiting}

\* Mutant: the seek is to the last message.
SeekLast(from) ==
  \/ position' = [from EXCEPT ![0] = IF end[0] = 0 THEN 1 ELSE end[0]] /\ cleared' = end[0]
  \/ position' = from /\ UNCHANGED cleared

\* Seek to the end of partition 0 and of no other; after an error the position is
\* not known (inc/rdkafka.h 2174).
SeekEnd(from) ==
  LET sought == [from EXCEPT ![0] = end[0] + 1]
  IN \/ position' = sought /\ cleared' = end[0]
     \/ position' \in {from, sought} /\ UNCHANGED cleared

\* consume_clear drops what its poll gives out, an error included, and seeks.
consume_clear ==
  /\ loop = "consume_clear" /\ topic = "live" /\ loop' = "none"
  /\ \E from \in Polls : SeekEnd(from)
  /\ UNCHANGED <<handles, waiting, end, message>>

\* The topic was not made, and the seek is asked of it.
SeeksNowhere == loop = "consume_clear" /\ topic # "live"
-----------------------------------------------------------------------------
(* ~KafkaConsumer: the handles go, then up to Tries waits of a second each for *)
(* the library to be rid of all of them.                                      *)

Close ==
  /\ loop = "none" /\ Usable
  /\ consumer' = "dangling" /\ topics_list' = "dangling"
  /\ loop' = "wait" /\ run' = Tries
  /\ UNCHANGED <<topic, topic_conf, timeouts, dumped, reading>>

\* Mutant: the tries are not counted.
TimesOutAgain ==
  /\ loop = "wait" /\ run > 0
  /\ timeouts' = IF timeouts = 9 THEN 9 ELSE timeouts + 1
  /\ UNCHANGED <<handles, loop, run, dumped, reading>>

\* while (run-- > 0 && rd_kafka_wait_destroyed(1000) == -1)
TimesOut ==
  /\ loop = "wait" /\ run > 0
  /\ run' = run - 1 /\ timeouts' = timeouts + 1
  /\ UNCHANGED <<handles, loop, dumped, reading>>

\* Mutant: the last try counts as used up one too early.
DumpEarly(r) == run' = r /\ dumped' = (r <= 1)

\* The loop ends because the tries are used up, or all handles are gone.  Then
\* "if (run <= 0)" the handle is dumped, which no longer exists.
Dump(r) == run' = r /\ dumped' = (r <= 0)

WaitEnds ==
  /\ loop = "wait" /\ loop' = "none"
  /\ Dump(run - 1)
  /\ UNCHANGED <<handles, timeouts, reading>>

-----------------------------------------------------------------------------
(* Properties.                                                               *)

\* What was in partition 0 when consume_clear went to its end is not returned any
\* more (KafkaConsumer.cpp 182 to 189).  Of the other partitions, which the
\* subscription covers too, this cannot be said: what was in them is returned later.
ClearedForGood ==
  [][message' # message /\ message' # <<>> /\ message'[1] = 0 => message'[2] > cleared]_vars

\* The handle is dumped, after its end, only when all waits but one have timed out
\* (KafkaConsumer.cpp 45 to 50).
DumpedLate == dumped => timeouts >= Tries - 1

\* The topic configuration "is not usable after this call" of
\* rd_kafka_conf_set_default_topic_conf (inc/rdkafka.h 1394).
GivenOnce == Len(topic_conf) <= 1
=============================================================================

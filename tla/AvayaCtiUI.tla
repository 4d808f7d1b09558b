---------------------------- MODULE AvayaCtiUI ------------------------------
(* The life of the dialog (class AvayaCtiUI) and of what it owns: the objects *)
(* OnInitDialog makes, the ACS stream, and through TSAPIInterface and         *)
(* m_pConsumerObject the two ends of the Kafka client.  One thread runs all   *)
(* of it; the client library has threads of its own.                          *)
(*                                                                            *)
(* `produce', `consume' and `consume_clear' are called by nobody at this      *)
(* commit: the calls are written out and commented out.                       *)
EXTENDS Integers, Sequences, FiniteSets

CONSTANTS MaxMessages, QueueSize, Partitions, MaxOffset, Tries

ASSUME PartitionsAssumption == 0 \in Partitions /\ Partitions \subseteq Nat

VARIABLES
  phase,      \* where the thread is: "start", "up", "closing", then in the
              \* destructors of the "producer" and the "consumer", "ended"
  object,     \* the pointers of the dialog to the objects it makes
  stream,     \* whether the ACS stream was opened and not aborted
  used,       \* what the program has used although it was not there
  failures    \* history: what has failed

VARIABLES rk, rkt, produced, calling, queue, reports, accepted, refused, dropped
VARIABLES consumer, topic, topics_list, topic_conf, loop, run, end, position,
          cleared, message, timeouts, dumped

P == INSTANCE KafkaProducer
C == INSTANCE KafkaConsumer

dialog == <<phase, object, stream, used, failures>>
producerVars == <<rk, rkt, produced, calling, queue, reports, accepted, refused, dropped>>
consumerVars == <<consumer, topic, topics_list, topic_conf, loop, run, end, position,
                  cleared, message, timeouts, dumped>>
vars == <<dialog, producerVars, consumerVars>>

\* AvayaCtiUI() sets two of the pointers.
Init ==
  /\ phase = "start" /\ stream = FALSE /\ used = {} /\ failures = {}
  /\ object = [m_pTSAPIInterface |-> "null", m_pAgtObject |-> "null",
               m_pConsumerObject |-> "uninitialised"]
  /\ P!New /\ C!New

Live(o) == object[o] = "live"
Idle == phase = "up" /\ ~calling /\ loop = "none"

\* A thing that is not there is used; what the program does then is nobody's
\* promise, and the model ends it.
Undefined(thing) ==
  /\ used' = used \cup {thing} /\ phase' = "ended"
  /\ UNCHANGED <<object, stream, failures, producerVars, consumerVars>>
-----------------------------------------------------------------------------
(* OnInitDialog.                                                             *)

\* TSAPIInterface() makes the producer; then come the user agent, the routing
\* and the status record (the last two are never deleted).
MakeInterface == P!initKafka /\ P!KeepMessages

\* Without Settings.ini the routing object connects to a database whose name was
\* never set, and the dialog opens no stream.
NoSettings == stream' = FALSE /\ failures' = failures \cup {"settings"}

StreamOpens == stream' = TRUE /\ UNCHANGED failures

\* The name of the database; the topic configuration, given away with the first of
\* two calls.  Either may end the program; a library that has kept a copy goes on.
UsedAtStart ==
  /\ used' = (IF "settings" \in failures' THEN {"database"} ELSE {})
             \cup (IF Len(topic_conf') > 1 THEN {"topic_conf"} ELSE {})
  /\ phase' = "up" \/ (used' # {} /\ phase' = "ended")

\* Mutant: the consumer is assigned to a variable of OnInitDialog.
MakeConsumerShadowed ==
  /\ C!initKafka
  /\ object' = [object EXCEPT !.m_pTSAPIInterface = "live", !.m_pAgtObject = "live"]

\* Only initKafka of the consumer is looked at, and only to write a line.
MakeConsumer ==
  /\ C!initKafka
  /\ object' = [m_pTSAPIInterface |-> "live", m_pAgtObject |-> "live",
                m_pConsumerObject |-> "live"]

\* A stream that does not open ends OnInitDialog before there is a consumer.
StreamRefused ==
  /\ stream' = FALSE /\ failures' = failures \cup {"stream"}
  /\ object' = [object EXCEPT !.m_pTSAPIInterface = "live", !.m_pAgtObject = "live"]
  /\ phase' = "up"
  /\ UNCHANGED <<used, consumer, topic, topics_list, topic_conf>>

OnInitDialog ==
  /\ phase = "start"
  /\ MakeInterface
  /\ \/ StreamRefused
     \/ (NoSettings \/ StreamOpens) /\ MakeConsumer /\ UsedAtStart
  /\ C!KeepReading

\* DoModal without a dialog: a control cannot be created, OnInitDialog never runs.
DoModalFails ==
  /\ phase = "start" /\ phase' = "closing"
  /\ failures' = failures \cup {"dialog"}
  /\ UNCHANGED <<object, stream, used, producerVars, consumerVars>>
-----------------------------------------------------------------------------
(* The dialog is up.                                                         *)

Produce ==
  /\ Idle
  /\ IF P!Usable THEN P!Call /\ UNCHANGED <<dialog, consumerVars>> ELSE Undefined("producer")

ProduceStep == P!produce /\ UNCHANGED <<dialog, consumerVars>>

ConsumerUsable == Live("m_pConsumerObject") /\ C!Usable
NoConsumer ==
  Undefined(IF Live("m_pConsumerObject") THEN "consumer" ELSE "m_pConsumerObject")

Read(l) ==
  /\ Idle
  /\ IF ConsumerUsable THEN C!Enter(l) /\ UNCHANGED <<dialog, producerVars>>
     ELSE NoConsumer

ReadStep ==
  /\ phase = "up"
  /\ \/ (C!consume \/ C!consume_clear) /\ UNCHANGED <<dialog, producerVars>>
     \/ C!SeeksNowhere /\ Undefined("topic")

\* exit(-1) in a handler of events, or a number that is none: no destructor runs.
Exit ==
  /\ Idle
  /\ phase' = "ended" /\ failures' = failures \cup {"exit"}
  /\ P!Drop
  /\ UNCHANGED <<object, stream, used, rk, rkt, consumerVars>>

\* The user closes the dialog, DoModal returns and InitInstance deletes it.
CloseDialog ==
  /\ Idle /\ phase' = "closing"
  /\ UNCHANGED <<object, stream, used, failures, producerVars, consumerVars>>

Library ==
  /\ phase # "ended"
  /\ \/ (\E m \in P!Message : P!Settle(m)) /\ UNCHANGED <<dialog, consumerVars>>
     \/ C!Arrive /\ UNCHANGED <<dialog, producerVars>>
-----------------------------------------------------------------------------
(* ~AvayaCtiUI, in its order.                                                *)

\* CloseStream on a pointer that may be null; an abort that is refused is told to
\* the user.
CloseStream ==
  /\ phase = "closing"
  /\ IF Live("m_pTSAPIInterface")
     THEN /\ phase' = "producer" /\ stream' = FALSE
          /\ UNCHANGED <<object, used, failures, producerVars, consumerVars>>
     ELSE Undefined("m_pTSAPIInterface")

\* delete m_pTSAPIInterface runs ~KafkaProducer; the user agent follows.
DeleteInterface ==
  /\ phase = "producer"
  /\ IF rk = "live" /\ rkt = "live"
     THEN \/ P!FlushPoll /\ UNCHANGED <<dialog, consumerVars>>
          \/ \E late \in BOOLEAN :
               /\ P!Destroy(late)
               /\ failures' = failures \cup (IF late THEN {"flush"} ELSE {})
               /\ object' = [object EXCEPT !.m_pTSAPIInterface = "dangling",
                                           !.m_pAgtObject = "dangling"]
               /\ phase' = "consumer"
               /\ UNCHANGED <<stream, used, consumerVars>>
     ELSE Undefined("producer")

\* delete m_pConsumerObject runs ~KafkaConsumer, up to its wait.
DeleteConsumer ==
  /\ phase = "consumer" /\ loop = "none" /\ run = 0
  /\ IF ConsumerUsable THEN C!Close /\ UNCHANGED <<dialog, producerVars>>
     ELSE NoConsumer

\* A dump is one of a handle that has been destroyed.
WaitDestroyed ==
  /\ phase = "consumer"
  /\ \/ C!TimesOut /\ UNCHANGED dialog
     \/ /\ C!WaitEnds
        /\ used' = used \cup (IF dumped' THEN {"ended consumer"} ELSE {})
        /\ phase' = "ended"
        /\ object' = [object EXCEPT !.m_pConsumerObject = "dangling"]
        /\ UNCHANGED <<stream, failures>>
  /\ UNCHANGED producerVars

Destructors == CloseStream \/ DeleteInterface \/ DeleteConsumer \/ WaitDestroyed

Next ==
  \/ OnInitDialog \/ DoModalFails
  \/ Produce \/ ProduceStep
  \/ \E l \in {"consume", "consume_clear"} : Read(l)
  \/ ReadStep
  \/ Exit \/ CloseDialog \/ Library
  \/ Destructors

Spec == Init /\ [][Next]_vars

\* What the thread does whether or not the library ever does its part: it goes on with
\* a message that is not refused, and it goes on with the destructors, where every
\* wait times out and every message box is answered.  Of the library: it settles
\* every message or gives it up.
Fairness ==
  /\ WF_vars(P!Attempt /\ UNCHANGED <<dialog, consumerVars>>)
  /\ WF_vars(CloseStream \/ DeleteInterface \/ DeleteConsumer
             \/ (WaitDestroyed /\ (loop' = "wait" \/ run = 0)))
  /\ WF_vars(\E m \in P!Message : P!Settle(m) /\ UNCHANGED <<dialog, consumerVars>>)

FairSpec == Spec /\ Fairness
-----------------------------------------------------------------------------
(* Properties.                                                               *)

TypeOK ==
  /\ phase \in {"start", "up", "closing", "producer", "consumer", "ended"}
  /\ object \in [{"m_pTSAPIInterface", "m_pAgtObject", "m_pConsumerObject"} -> P!Handle]
  /\ {rk, rkt, consumer, topic, topics_list} \subseteq P!Handle
  /\ loop \in {"none", "consume", "consume_clear", "wait"}
  /\ calling => loop = "none" /\ phase = "up"
  /\ stream => phase \in {"up", "closing", "ended"}
  /\ run \in -1 .. Tries
  /\ \A p \in Partitions : position[p] \in 1 .. end[p] + 1
  /\ Cardinality(queue \cup reports) <= QueueSize

\* From OnInitDialog to the last destructor, whatever the user does, what the program
\* uses without its being there is accounted for by one failure each: the name of the
\* database by the settings, the interface by the dialog, the consumer's object by the
\* stream, a handle by the library's refusal to make that very one, and the consumer
\* after its end by a library that outlasts the wait.  The topic configuration needs
\* none: it is used after it was given away whenever a consumer is made
\* (AvayaCtiUI.cpp 58 to 177).
DefinedUnlessFailed ==
  /\ "database" \in used => "settings" \in failures
  /\ "m_pTSAPIInterface" \in used => "dialog" \in failures
  /\ "m_pConsumerObject" \in used => "stream" \in failures
  /\ "producer" \in used => rkt \in {"uninitialised", "null"}
  /\ "consumer" \in used => consumer \in {"uninitialised", "null"}
  /\ "topic" \in used => topic = "null"
  /\ "topic_conf" \in used => consumer \notin {"uninitialised", "null"}
  /\ "ended consumer" \in used => timeouts >= Tries - 1

\* A message the library has accepted is sent, or reported as failed, before the
\* program ends, unless it ends by exit or the flush runs out of time
\* (KafkaProducer.cpp 33).
AcceptedIsSettled == dropped # {} => {"flush", "exit"} \cap failures # {}

\* A full queue loses no message and sends none twice (KafkaProducer).
ProducedOnce == P!ProducedOnce

\* produce returns (KafkaProducer).
ProduceReturns == P!ProduceReturns

\* consume returns nothing of partition 0 consume_clear has gone past (KafkaConsumer).
ClearedForGood == C!ClearedForGood

\* The dump comes after the waits (KafkaConsumer).
DumpedLate == C!DumpedLate

\* The topic configuration is given away once (KafkaConsumer).
GivenOnce == C!GivenOnce

\* A dialog that is closed is taken down: the flush and the waits have an end
\* (KafkaProducer.cpp 33, KafkaConsumer.cpp 45).
ShutsDown == phase = "closing" ~> phase = "ended"
=============================================================================

------------------------- MODULE AvayaCtiUI_proofs --------------------------
(* Theorems about the life of the dialog, for queues, topics and numbers of   *)
(* waits of every size.                                                      *)
EXTENDS AvayaCtiUI, FiniteSetTheorems, TLAPS

Sizes == MaxMessages \in Nat /\ QueueSize \in Nat \ {0} /\ Tries \in Nat \ {0}

\* What the producer has been given, what of it the library holds, and what
\* happened to each message.
MessagesOK ==
  /\ produced \in 0 .. MaxMessages /\ calling \in BOOLEAN
  /\ calling => produced > 0 /\ produced \notin refused
  /\ queue \subseteq 1 .. produced /\ reports \subseteq 1 .. produced
  /\ refused \subseteq 1 .. produced
  /\ accepted \in [P!Message -> {0, 1}]
  /\ ProducedOnce

\* The topic: no partition is read past its end, and consume_clear never goes past
\* what comes next in partition 0.
TopicOK ==
  /\ end \in [Partitions -> Nat] /\ position \in [Partitions -> Nat] /\ cleared \in Nat
  /\ \A p \in Partitions : 0 < position[p] /\ position[p] <= end[p] + 1
  /\ cleared < position[0]

\* Between the waits of the destructor nothing has been counted; in it, what is left
\* of run and what has timed out make up Tries.
WaitsOK ==
  /\ loop \in {"none", "consume", "consume_clear", "wait"}
  /\ timeouts \in Nat /\ run \in -1 .. Tries /\ dumped \in BOOLEAN
  /\ loop \in {"consume", "consume_clear"} => phase \in {"up", "ended"}
  /\ loop = "wait" => phase = "consumer" /\ run >= 0 /\ run + timeouts = Tries
  /\ loop # "wait" /\ phase # "ended" => run = 0 /\ timeouts = 0
  /\ DumpedLate

\* Where the thread may still come to the consumer.
Ahead == phase \in {"up", "closing", "producer", "consumer"} /\ loop # "wait"

\* Which handles and objects are there in which phase, if nothing failed.
HandlesOK ==
  /\ phase = "start" =>
       /\ rk = "uninitialised" /\ rkt = "uninitialised"
       /\ consumer = "uninitialised" /\ topic = "uninitialised"
       /\ topics_list = "uninitialised" /\ topic_conf = <<>>
       /\ used = {} /\ ~Live("m_pTSAPIInterface")
  /\ phase \in {"up", "closing", "producer"} =>
       rkt \in {"uninitialised", "null"} \/ (rk = "live" /\ rkt = "live")
  /\ phase \in {"up", "closing"} =>
       Live("m_pTSAPIInterface") \/ (phase = "closing" /\ "dialog" \in failures)
  /\ Ahead =>
       \/ Live("m_pConsumerObject") \/ "stream" \in failures
       \/ phase = "closing" /\ ~Live("m_pTSAPIInterface")
  /\ Ahead =>
       \/ consumer \in {"uninitialised", "null"}
       \/ consumer = "live" /\ topics_list = "live" /\ topic \in {"live", "null"}
  /\ loop = "consume_clear" => topic \in {"live", "null"}
  /\ DefinedUnlessFailed

LifeInv == TypeOK /\ MessagesOK /\ TopicOK /\ WaitsOK /\ HandlesOK /\ AcceptedIsSettled

-----------------------------------------------------------------------------
(* The initial state.                                                        *)

\* The program starts in a state of the invariant (AvayaCtiUI.cpp 44 to 56).
LEMMA InitLife == ASSUME Sizes, Init PROVE LifeInv
<1>1. IsFiniteSet({}) /\ Cardinality({}) = 0
  BY FS_EmptySet
<1>2. TypeOK
  BY <1>1 DEF Sizes, Init, P!New, C!New, TypeOK, P!Handle
<1>3. MessagesOK
  <2>1. produced \in 0 .. MaxMessages /\ produced = 0 /\ calling = FALSE /\ refused = {}
        /\ queue = {} /\ reports = {} /\ accepted = [m \in P!Message |-> 0]
    BY DEF Sizes, Init, P!New
  <2>2. ~calling
    BY <2>1
  <2>3. ProducedOnce
    BY <2>1, <2>2 DEF Sizes, ProducedOnce, P!ProducedOnce, P!Message
  <2>. QED  BY <2>1, <2>2, <2>3 DEF MessagesOK
<1>4. TopicOK /\ WaitsOK
  <2>1. TopicOK
    BY PartitionsAssumption DEF Init, C!New, TopicOK
  <2>2. ~dumped /\ dumped \in BOOLEAN /\ loop = "none" /\ run = 0 /\ timeouts = 0
    BY DEF Init, C!New
  <2>. QED  BY <2>1, <2>2 DEF Sizes, WaitsOK, DumpedLate, C!DumpedLate
<1>5. HandlesOK /\ AcceptedIsSettled
  BY DEF Init, P!New, C!New, HandlesOK, Ahead, DefinedUnlessFailed, Live, AcceptedIsSettled
<1>. QED  BY <1>2, <1>3, <1>4, <1>5 DEF LifeInv

-----------------------------------------------------------------------------
(* The messages.                                                             *)

messages == <<produced, calling, queue, reports, accepted, refused>>

\* What a step may do to the messages.
MessageStep ==
  \/ UNCHANGED messages
  \/ P!Call \/ P!produce \/ (\E m \in P!Message : P!Settle(m)) \/ P!FlushPoll
  \/ P!Drop

\* Whatever the dialog does, the messages of the producer change only by the steps of
\* the producer (KafkaProducer.cpp 26 to 126).
LEMMA MessageSteps == ASSUME [Next]_vars PROVE MessageStep
<1>. USE DEF messages, MessageStep
<1>1. CASE OnInitDialog
  BY <1>1 DEF OnInitDialog, MakeInterface, P!KeepMessages
<1>2. CASE Produce
  BY <1>2 DEF Produce, Undefined, producerVars
<1>3. CASE ProduceStep
  BY <1>3 DEF ProduceStep
<1>4. CASE \E l \in {"consume", "consume_clear"} : Read(l)
  BY <1>4 DEF Read, NoConsumer, Undefined, producerVars
<1>5. CASE ReadStep \/ DoModalFails \/ CloseDialog
  BY <1>5 DEF ReadStep, Undefined, DoModalFails, CloseDialog, producerVars
<1>6. CASE Exit
  BY <1>6 DEF Exit
<1>7. CASE Library
  BY <1>7 DEF Library, producerVars
<1>8. CASE Destructors
  <2>1. CASE CloseStream
    BY <2>1 DEF CloseStream, Undefined, producerVars
  <2>2. CASE DeleteInterface
    BY <2>2 DEF DeleteInterface, Undefined, producerVars, P!Destroy
  <2>3. CASE DeleteConsumer \/ WaitDestroyed
    BY <2>3 DEF DeleteConsumer, NoConsumer, WaitDestroyed, Undefined, producerVars
  <2>. QED  BY <1>8, <2>1, <2>2, <2>3 DEF Destructors
<1>9. CASE UNCHANGED vars
  BY <1>9 DEF vars, producerVars
<1>. QED
  BY <1>1, <1>2, <1>3, <1>4, <1>5, <1>6, <1>7, <1>8, <1>9 DEF Next

\* A message that has returned keeps what became of it.
LEMMA MessagesKept ==
  ASSUME Sizes, MessagesOK, MessageStep PROVE MessagesOK'
<1>. USE DEF Sizes, MessagesOK, ProducedOnce, P!ProducedOnce, P!Message
<1>1. CASE UNCHANGED messages
  BY <1>1 DEF messages
<1>2. CASE P!Call
  BY <1>2 DEF P!Call
<1>3. CASE P!produce
  <2>1. CASE P!Attempt /\ P!Enqueue
    <3>1. /\ calling /\ ~calling' /\ calling' \in BOOLEAN
          /\ produced' = produced /\ refused' = refused /\ reports' = {}
          /\ queue' = queue \cup {produced}
          /\ accepted' = [accepted EXCEPT ![produced] = @ + 1]
      BY <2>1 DEF P!Attempt, P!Enqueue, P!Poll
    <3>2. produced \in P!Message /\ accepted[produced] = 0
      BY <3>1
    <3>3. accepted' \in [P!Message -> {0, 1}] /\ accepted'[produced] = 1
      BY <3>1, <3>2
    <3>4. ASSUME NEW m \in P!Message, m # produced  PROVE accepted'[m] = accepted[m]
      BY <3>1, <3>4
    <3>5. ProducedOnce'
      BY <3>1, <3>2, <3>3, <3>4
    <3>6. queue' \subseteq 1 .. produced'
      BY <3>1, <3>2
    <3>. HIDE DEF ProducedOnce, P!Message
    <3>. QED  BY <3>1, <3>3, <3>5, <3>6
  <2>2. CASE P!Attempt /\ P!Retry
    BY <2>2 DEF P!Attempt, P!Retry, P!Poll
  <2>3. CASE calling /\ (P!Refuse \/ P!NothingToSend) /\ produced' = produced
    <3>1. /\ calling /\ ~calling' /\ calling' \in BOOLEAN
          /\ produced' = produced /\ accepted' = accepted /\ queue' = queue
          /\ (reports' = {} \/ reports' = reports) /\ refused' = refused \cup {produced}
      BY <2>3 DEF P!Refuse, P!NothingToSend, P!Poll
    <3>2. produced \in P!Message /\ accepted[produced] = 0
      BY <3>1
    <3>3. ProducedOnce'
      BY <3>1, <3>2
    <3>4. refused' \subseteq 1 .. produced' /\ reports' \subseteq 1 .. produced'
      <4>1. produced \in 1 .. produced /\ refused \subseteq 1 .. produced
            /\ reports \subseteq 1 .. produced
        BY <3>2
      <4>. HIDE DEF MessagesOK
      <4>. QED  BY <3>1, <4>1
    <3>. HIDE DEF ProducedOnce, P!Message
    <3>. QED  BY <3>1, <3>3, <3>4
  <2>. QED  BY <1>3, <2>1, <2>2, <2>3 DEF P!produce, P!Attempt
<1>4. CASE \E m \in P!Message : P!Settle(m)
  BY <1>4 DEF P!Settle
<1>5. CASE P!FlushPoll
  BY <1>5 DEF P!FlushPoll, P!Poll
<1>6. CASE P!Drop
  BY <1>6 DEF P!Drop
<1>. QED  BY <1>1, <1>2, <1>3, <1>4, <1>5, <1>6 DEF MessageStep

-----------------------------------------------------------------------------
(* The topic.                                                                *)

reading == <<end, position, cleared, message>>

\* The topic is read by consume and consume_clear only (KafkaConsumer.cpp 173 to 215).
LEMMA TopicSteps ==
  ASSUME [Next]_vars
  PROVE  UNCHANGED reading \/ C!Arrive \/ C!consume \/ C!consume_clear
<1>. USE DEF reading, consumerVars
<1>1. CASE OnInitDialog
  BY <1>1 DEF OnInitDialog, C!KeepReading, C!reading
<1>2. CASE DoModalFails \/ ProduceStep \/ Exit \/ CloseDialog
  BY <1>2 DEF DoModalFails, ProduceStep, Exit, CloseDialog
<1>3. CASE Produce
  BY <1>3 DEF Produce, Undefined
<1>4. CASE \E l \in {"consume", "consume_clear"} : Read(l)
  BY <1>4 DEF Read, NoConsumer, Undefined, C!Enter, C!reading
<1>5. CASE ReadStep \/ Library
  BY <1>5 DEF ReadStep, Undefined, Library
<1>6. CASE Destructors
  <2>1. CASE CloseStream \/ DeleteInterface
    BY <2>1 DEF CloseStream, DeleteInterface, Undefined
  <2>2. CASE DeleteConsumer
    BY <2>2 DEF DeleteConsumer, NoConsumer, Undefined, C!Close, C!reading
  <2>3. CASE WaitDestroyed
    BY <2>3 DEF WaitDestroyed, C!TimesOut, C!WaitEnds, C!reading
  <2>. QED  BY <1>6, <2>1, <2>2, <2>3 DEF Destructors
<1>7. CASE UNCHANGED vars
  BY <1>7 DEF vars
<1>. QED  BY <1>1, <1>2, <1>3, <1>4, <1>5, <1>6, <1>7 DEF Next

\* What a poll leaves is no worse than what it found.
LEMMA PollsKeep ==
  ASSUME TopicOK, NEW from \in C!Polls
  PROVE  /\ from \in [Partitions -> Nat] /\ cleared < from[0]
         /\ \A p \in Partitions : 0 < from[p] /\ from[p] <= end[p] + 1
<1>1. CASE from = position
  BY <1>1 DEF TopicOK
<1>2. ASSUME NEW q \in C!Waiting, from = C!Past(q)
      PROVE  /\ from \in [Partitions -> Nat] /\ cleared < from[0]
             /\ \A p \in Partitions : 0 < from[p] /\ from[p] <= end[p] + 1
  <2>1. q \in Partitions /\ position[q] <= end[q]
    BY DEF C!Waiting
  <2>2. from = [position EXCEPT ![q] = position[q] + 1]
    BY <1>2 DEF C!Past
  <2>. QED  BY <2>1, <2>2, PartitionsAssumption DEF TopicOK
<1>. QED  BY <1>1, <1>2 DEF C!Polls

\* No step puts the position behind what was cleared or past the end (KafkaConsumer.cpp
\* 173 to 215).
LEMMA TopicKept == ASSUME TopicOK, [Next]_vars PROVE TopicOK'
<1>1. CASE UNCHANGED reading
  BY <1>1 DEF reading, TopicOK
<1>2. CASE C!Arrive
  <2>1. PICK p \in Partitions : end' = [end EXCEPT ![p] = @ + 1]
    BY <1>2 DEF C!Arrive
  <2>2. position' = position /\ cleared' = cleared
    BY <1>2 DEF C!Arrive
  <2>. QED  BY <2>1, <2>2 DEF TopicOK
<1>3. CASE C!consume
  <2>1. position' \in C!Polls /\ end' = end /\ cleared' = cleared
    BY <1>3 DEF C!consume, C!Polls
  <2>. QED  BY <2>1, PollsKeep DEF TopicOK
<1>4. CASE C!consume_clear
  <2>1. PICK from \in C!Polls : C!SeekEnd(from)
    BY <1>4 DEF C!consume_clear
  <2>2. end' = end
    BY <1>4 DEF C!consume_clear
  <2>3. /\ from \in [Partitions -> Nat] /\ cleared < from[0]
        /\ \A p \in Partitions : 0 < from[p] /\ from[p] <= end[p] + 1
    BY <2>1, PollsKeep
  <2>. DEFINE sought == [from EXCEPT ![0] = end[0] + 1]
  <2>4. /\ sought \in [Partitions -> Nat] /\ sought[0] = end[0] + 1
        /\ \A p \in Partitions : 0 < sought[p] /\ sought[p] <= end[p] + 1
    BY <2>3, PartitionsAssumption DEF TopicOK
  <2>5. \/ position' = sought /\ cleared' = end[0]
        \/ position' \in {from, sought} /\ cleared' = cleared
    BY <2>1 DEF C!SeekEnd
  <2>6. end[0] \in Nat /\ cleared < end[0] + 1
    <3>1. from[0] \in Nat /\ end[0] \in Nat /\ cleared \in Nat /\ from[0] <= end[0] + 1
      BY <2>3, PartitionsAssumption DEF TopicOK
    <3>. QED  BY <2>3, <3>1
  <2>7. end[0] < end[0] + 1
    BY <2>6
  <2>. HIDE DEF sought
  <2>. QED  BY <2>2, <2>3, <2>4, <2>5, <2>6, <2>7 DEF TopicOK
<1>. QED  BY <1>1, <1>2, <1>3, <1>4, TopicSteps

-----------------------------------------------------------------------------
(* The waits and the handles.                                                *)

\* run and what has timed out make up Tries as long as the destructor waits
\* (KafkaConsumer.cpp 43 to 52).
LEMMA WaitsKept == ASSUME Sizes, WaitsOK, HandlesOK, [Next]_vars PROVE WaitsOK'
<1>. USE DEF Sizes, WaitsOK, DumpedLate, C!DumpedLate, consumerVars, dialog, C!waiting
<1>1. CASE OnInitDialog
  BY <1>1 DEF OnInitDialog, C!KeepReading
<1>2. CASE DoModalFails \/ ProduceStep \/ Library
  BY <1>2 DEF DoModalFails, ProduceStep, Library, C!Arrive
<1>3. CASE Exit \/ CloseDialog
  BY <1>3 DEF Exit, CloseDialog, Idle
<1>4. CASE Produce
  BY <1>4 DEF Produce, Undefined, Idle
<1>5. CASE \E l \in {"consume", "consume_clear"} : Read(l)
  BY <1>5 DEF Read, NoConsumer, Undefined, Idle, C!Enter
<1>6. CASE ReadStep
  BY <1>6 DEF ReadStep, C!consume, C!consume_clear, C!SeeksNowhere, Undefined
<1>7. CASE CloseStream
  BY <1>7 DEF CloseStream, Undefined
<1>8. CASE DeleteInterface
  BY <1>8 DEF DeleteInterface, Undefined
<1>9. CASE DeleteConsumer
  BY <1>9 DEF DeleteConsumer, NoConsumer, Undefined, C!Close
<1>10. CASE WaitDestroyed
  <2>1. CASE C!TimesOut
    BY <1>10, <2>1 DEF WaitDestroyed, C!TimesOut, C!WaitEnds
  <2>2. CASE C!WaitEnds /\ phase' = "ended"
    <3>1. loop' = "none" /\ loop = "wait" /\ run' = run - 1 /\ timeouts' = timeouts
          /\ dumped' = (run - 1 <= 0)
      BY <2>2 DEF C!WaitEnds, C!Dump
    <3>2. run \in Int /\ run >= 0 /\ run <= Tries /\ run + timeouts = Tries
      BY <3>1
    <3>3. dumped' \in BOOLEAN /\ (dumped' => timeouts' >= Tries - 1)
      BY <3>1, <3>2
    <3>. QED  BY <2>2, <3>1, <3>2, <3>3
  <2>. QED  BY <1>10, <2>1, <2>2 DEF WaitDestroyed
<1>11. CASE UNCHANGED vars
  BY <1>11 DEF vars
<1>. QED
  BY <1>1, <1>2, <1>3, <1>4, <1>5, <1>6, <1>7, <1>8, <1>9, <1>10, <1>11 DEF Next, Destructors

\* Of none and of one thing the second is not there.
LEMMA Lengths == ~(Len(<<"conf">>) > 1) /\ ~(Len(<<>>) > 1)
<1>1. Len(<<"conf">>) = 1
  OBVIOUS
<1>2. Len(<<>>) = 0
  OBVIOUS
<1>. QED  BY <1>1, <1>2

\* One more wait that has timed out leaves as many.
LEMMA OneMore == \A n, m \in Nat : n >= m - 1 => n + 1 >= m - 1
OBVIOUS

\* What HandlesOK speaks of, except the loop and the phase.
things == <<object, used, failures, rk, rkt, consumer, topic, topics_list, topic_conf,
            timeouts>>

\* A step that leaves all of that, and does not leave the last wait.
LEMMA HandlesUntouched ==
  ASSUME HandlesOK, UNCHANGED things, phase' = phase,
         loop' = loop \/ (loop # "wait" /\ loop' = "none")
  PROVE  HandlesOK'
<1>. USE DEF things
<1>1. DefinedUnlessFailed'
  BY DEF HandlesOK, DefinedUnlessFailed
<1>2. Ahead' => Ahead
  BY DEF Ahead
<1>3. loop' = "consume_clear" => loop = "consume_clear"
  OBVIOUS
<1>. QED  BY <1>1, <1>2, <1>3 DEF HandlesOK, Live

\* When the consumer is missing, it is the stream that failed, or the library.
LEMMA NoConsumerKeeps ==
  ASSUME HandlesOK, phase \in {"up", "consumer"}, loop = "none", ~ConsumerUsable, NoConsumer
  PROVE  HandlesOK'
<1>. USE DEF HandlesOK, Ahead, DefinedUnlessFailed, producerVars, consumerVars
<1>1. /\ used' = used \cup
                    {IF Live("m_pConsumerObject") THEN "consumer" ELSE "m_pConsumerObject"}
      /\ phase' = "ended"
      /\ UNCHANGED <<object, stream, failures, producerVars, consumerVars>>
  BY DEF NoConsumer, Undefined
<1>2. CASE Live("m_pConsumerObject")
  <2>1. consumer \in {"uninitialised", "null"}
    BY <1>2 DEF ConsumerUsable, C!Usable
  <2>. QED  BY <1>1, <1>2, <2>1
<1>3. CASE ~Live("m_pConsumerObject")
  <2>1. "stream" \in failures
    BY <1>3
  <2>. QED  BY <1>1, <1>3, <2>1
<1>. QED  BY <1>2, <1>3

\* Handles that later phases use are made or left out together, and go in order
\* (AvayaCtiUI.cpp 58 to 177).
LEMMA HandlesKept ==
  ASSUME Sizes, TypeOK, WaitsOK, HandlesOK, [Next]_vars, WaitsOK' PROVE HandlesOK'
<1>. USE DEF HandlesOK, Ahead, DefinedUnlessFailed, Live, producerVars, consumerVars,
             dialog
<1>1. CASE OnInitDialog
  <2>1. P!initKafka /\ phase = "start" /\ loop' = loop /\ phase' \in {"up", "ended"}
    BY <1>1 DEF OnInitDialog, MakeInterface, StreamRefused, UsedAtStart, C!KeepReading
  <2>2. /\ rkt' = "null" \/ rkt' = "uninitialised" \/ (rk' = "live" /\ rkt' = "live")
    BY <2>1 DEF P!initKafka
  <2>3. loop # "consume_clear"
    BY <2>1 DEF WaitsOK
  <2>4. CASE StreamRefused
    BY <2>1, <2>2, <2>3, <2>4 DEF StreamRefused, TypeOK
  <2>5. CASE (NoSettings \/ StreamOpens) /\ MakeConsumer /\ UsedAtStart
    <3>1. object' = [m_pTSAPIInterface |-> "live", m_pAgtObject |-> "live",
                     m_pConsumerObject |-> "live"]
      BY <2>5 DEF MakeConsumer
    <3>2. \/ /\ consumer' = "live" /\ topics_list' = "live" /\ topic' \in {"live", "null"}
          \/ consumer' \in {"null", "uninitialised"} /\ ~(Len(topic_conf') > 1)
      <4>0. ~(Len(<<"conf">>) > 1) /\ ~(Len(<<>>) > 1)
        BY Lengths
      <4>1. CASE C!HandleMade
        BY <4>1 DEF C!HandleMade
      <4>2. CASE C!NewFails
        BY <4>0, <4>2 DEF C!NewFails
      <4>3. CASE C!ConfRefused
        BY <2>1, <4>0, <4>3 DEF C!ConfRefused, C!handles
      <4>. QED  BY <2>5, <4>1, <4>2, <4>3 DEF MakeConsumer, C!initKafka
    <3>3. /\ used' \subseteq {"database", "topic_conf"}
          /\ "database" \in used' => "settings" \in failures'
          /\ "topic_conf" \in used' => consumer' \notin {"null", "uninitialised"}
      <4>1. Len(topic_conf') > 1 => consumer' \notin {"null", "uninitialised"}
        BY <3>2
      <4>. QED  BY <2>5, <4>1 DEF UsedAtStart
    <3>. QED  BY <2>1, <2>2, <2>3, <3>1, <3>2, <3>3
  <2>. QED  BY <1>1, <2>4, <2>5 DEF OnInitDialog
<1>2. CASE DoModalFails
  BY <1>2 DEF DoModalFails
<1>3. CASE ProduceStep \/ Library
  <2>1. UNCHANGED <<rk, rkt>> /\ UNCHANGED dialog
        /\ UNCHANGED <<consumer, topic, topics_list, topic_conf, loop, timeouts>>
    BY <1>3 DEF ProduceStep, Library, P!produce, P!Attempt, P!Settle, C!Arrive, C!handles,
               C!waiting
  <2>2. UNCHANGED things /\ phase' = phase /\ loop' = loop
    BY <2>1 DEF things
  <2>. QED  BY <2>2, HandlesUntouched
<1>4. CASE Exit \/ CloseDialog
  <2>1. CASE Exit
    <3>1. phase' = "ended" /\ failures \subseteq failures' /\ UNCHANGED <<object, used, rkt>>
          /\ UNCHANGED <<consumer, topic, timeouts, loop>>
      BY <2>1 DEF Exit
    <3>. QED  BY <3>1
  <2>2. CASE CloseDialog
    <3>1. phase = "up" /\ phase' = "closing" /\ UNCHANGED things /\ loop' = loop
      BY <2>2 DEF CloseDialog, Idle, things
    <3>. QED  BY <3>1 DEF things
  <2>. QED  BY <1>4, <2>1, <2>2
<1>5. CASE Produce
  <2>1. CASE Undefined("producer") /\ ~P!Usable
    BY <1>5, <2>1 DEF Produce, Undefined, Idle, P!Usable
  <2>2. CASE P!Call /\ UNCHANGED <<dialog, consumerVars>>
    <3>1. UNCHANGED things /\ phase' = phase /\ loop' = loop
      BY <2>2 DEF P!Call, things
    <3>. QED  BY <3>1, HandlesUntouched
  <2>. QED  BY <1>5, <2>1, <2>2 DEF Produce
<1>6. CASE \E l \in {"consume", "consume_clear"} : Read(l)
  <2>1. phase = "up" /\ loop = "none"
    BY <1>6 DEF Read, Idle
  <2>2. CASE NoConsumer /\ ~ConsumerUsable
    BY <2>1, <2>2, NoConsumerKeeps
  <2>3. CASE ConsumerUsable /\ \E l \in {"consume", "consume_clear"} : C!Enter(l)
             /\ UNCHANGED <<dialog, producerVars>>
    BY <2>1, <2>3 DEF ConsumerUsable, C!Usable, C!Enter, C!handles, C!waiting
  <2>. QED  BY <1>6, <2>2, <2>3 DEF Read
<1>7. CASE ReadStep
  <2>1. CASE (C!consume \/ C!consume_clear) /\ UNCHANGED <<dialog, producerVars>>
    <3>1. /\ UNCHANGED things /\ phase' = phase
          /\ loop # "wait" /\ loop' = "none"
      BY <2>1 DEF C!consume, C!consume_clear, C!handles, C!waiting, things
    <3>. QED  BY <3>1, HandlesUntouched
  <2>2. CASE C!SeeksNowhere /\ Undefined("topic")
    BY <2>2 DEF C!SeeksNowhere, Undefined
  <2>. QED  BY <1>7, <2>1, <2>2 DEF ReadStep
<1>8. CASE CloseStream
  <2>1. CASE Live("m_pTSAPIInterface")
    <3>1. phase = "closing" /\ phase' = "producer" /\ UNCHANGED things /\ loop' = loop
      BY <1>8, <2>1 DEF CloseStream, things
    <3>2. Ahead' => Ahead
      BY <3>1
    <3>. QED  BY <2>1, <3>1, <3>2 DEF things
  <2>2. CASE ~Live("m_pTSAPIInterface")
    <3>1. "dialog" \in failures /\ Undefined("m_pTSAPIInterface")
      BY <1>8, <2>2 DEF CloseStream
    <3>. QED  BY <3>1 DEF Undefined
  <2>. QED  BY <2>1, <2>2
<1>9. CASE DeleteInterface
  <2>1. CASE ~(rk = "live" /\ rkt = "live")
    <3>1. rkt \in {"uninitialised", "null"} /\ Undefined("producer")
      BY <1>9, <2>1 DEF DeleteInterface
    <3>. QED  BY <3>1 DEF Undefined
  <2>2. CASE P!FlushPoll /\ UNCHANGED <<dialog, consumerVars>>
    <3>1. UNCHANGED things /\ phase' = phase /\ loop' = loop
      BY <2>2 DEF P!FlushPoll, things
    <3>. QED  BY <3>1, HandlesUntouched
  <2>3. CASE rk = "live" /\ rkt = "live" /\ \E late \in BOOLEAN :
               /\ P!Destroy(late)
               /\ failures' = failures \cup (IF late THEN {"flush"} ELSE {})
               /\ object' = [object EXCEPT !.m_pTSAPIInterface = "dangling",
                                           !.m_pAgtObject = "dangling"]
               /\ phase' = "consumer"
               /\ UNCHANGED <<stream, used, consumerVars>>
    <3>1. object'["m_pConsumerObject"] = object["m_pConsumerObject"]
      BY <2>3 DEF TypeOK
    <3>2. phase = "producer" /\ phase' = "consumer" /\ loop # "wait" /\ failures \subseteq failures'
      BY <1>9, <2>3 DEF DeleteInterface, WaitsOK
    <3>. QED  BY <2>3, <3>1, <3>2
  <2>. QED  BY <1>9, <2>1, <2>2, <2>3 DEF DeleteInterface
<1>10. CASE DeleteConsumer
  <2>1. phase = "consumer" /\ loop = "none"
    BY <1>10 DEF DeleteConsumer
  <2>2. CASE NoConsumer /\ ~ConsumerUsable
    BY <2>1, <2>2, NoConsumerKeeps
  <2>3. CASE ConsumerUsable /\ C!Close /\ UNCHANGED <<dialog, producerVars>>
    BY <2>1, <2>3 DEF ConsumerUsable, C!Usable, C!Close
  <2>. QED  BY <1>10, <2>2, <2>3 DEF DeleteConsumer
<1>11. CASE WaitDestroyed
  <2>1. CASE C!TimesOut /\ UNCHANGED dialog
    <3>1. timeouts >= Tries - 1 => timeouts' >= Tries - 1
      <4>1. timeouts \in Nat /\ timeouts' = timeouts + 1 /\ Tries \in Nat
        BY <2>1 DEF C!TimesOut, WaitsOK, Sizes
      <4>. HIDE DEF HandlesOK, Ahead, DefinedUnlessFailed, Live
      <4>. QED  BY <4>1, OneMore
    <3>2. UNCHANGED <<rk, rkt, consumer, topic, topics_list, topic_conf>> /\ loop' = loop
      BY <1>11, <2>1 DEF WaitDestroyed, C!TimesOut, C!handles
    <3>3. phase = "consumer" /\ loop = "wait"
      BY <1>11, <2>1 DEF WaitDestroyed, C!TimesOut
    <3>. QED  BY <2>1, <3>1, <3>2, <3>3
  <2>2. CASE C!WaitEnds /\ phase' = "ended" /\ UNCHANGED <<stream, failures>>
             /\ used' = used \cup (IF dumped' THEN {"ended consumer"} ELSE {})
    <3>1. UNCHANGED <<rk, rkt, consumer, topic, topics_list, timeouts>> /\ loop' = "none"
      BY <1>11, <2>2 DEF WaitDestroyed, C!WaitEnds, C!handles
    <3>2. dumped' => timeouts' >= Tries - 1
      BY DEF WaitsOK, DumpedLate, C!DumpedLate
    <3>. QED  BY <2>2, <3>1, <3>2
  <2>. QED  BY <1>11, <2>1, <2>2 DEF WaitDestroyed
<1>12. CASE UNCHANGED vars
  <2>1. UNCHANGED things /\ phase' = phase /\ loop' = loop
    BY <1>12 DEF vars, things
  <2>. QED  BY <2>1, HandlesUntouched
<1>. QED
  BY <1>1, <1>2, <1>3, <1>4, <1>5, <1>6, <1>7, <1>8, <1>9, <1>10, <1>11, <1>12
  DEF Next, Destructors

\* The queue is empty when its handle goes, unless a failure has been noted
\* (KafkaProducer.cpp 30 to 36).
LEMMA SettledKept == ASSUME AcceptedIsSettled, [Next]_vars PROVE AcceptedIsSettled'
<1>. USE DEF AcceptedIsSettled, producerVars, dialog
<1>1. CASE OnInitDialog
  BY <1>1 DEF OnInitDialog, MakeInterface, P!KeepMessages, StreamRefused, NoSettings,
             StreamOpens
<1>2. CASE DoModalFails \/ CloseDialog \/ ReadStep
  BY <1>2 DEF DoModalFails, CloseDialog, ReadStep, Undefined
<1>3. CASE Produce
  BY <1>3 DEF Produce, Undefined, P!Call
<1>4. CASE ProduceStep
  BY <1>4 DEF ProduceStep, P!produce, P!Attempt
<1>5. CASE \E l \in {"consume", "consume_clear"} : Read(l)
  BY <1>5 DEF Read, NoConsumer, Undefined
<1>6. CASE Exit
  BY <1>6 DEF Exit
<1>7. CASE Library
  BY <1>7 DEF Library, P!Settle
<1>8. CASE CloseStream \/ DeleteConsumer \/ WaitDestroyed
  BY <1>8 DEF CloseStream, DeleteConsumer, NoConsumer, WaitDestroyed, Undefined
<1>9. CASE DeleteInterface
  BY <1>9 DEF DeleteInterface, Undefined, P!FlushPoll, P!Destroy, P!Flushed, P!Drop
<1>10. CASE UNCHANGED vars
  BY <1>10 DEF vars
<1>. QED
  BY <1>1, <1>2, <1>3, <1>4, <1>5, <1>6, <1>7, <1>8, <1>9, <1>10 DEF Next, Destructors

-----------------------------------------------------------------------------
(* Types, and the room in the queue.                                         *)

\* The size of a set is the same in the producer's module: a fact about the instance,
\* which has a Cardinality of its own.
LEMMA SameCardinality == \A S : P!Cardinality(S) = Cardinality(S)
BY DEF P!Cardinality, Cardinality

\* A message is added only where there is room (KafkaProducer.cpp 103 to 117).
LEMMA QueueKept ==
  ASSUME Sizes, MessagesOK, MessagesOK', MessageStep, Cardinality(queue \cup reports) <= QueueSize
  PROVE  Cardinality(queue' \cup reports') <= QueueSize
<1>. DEFINE All == queue \cup reports
<1>1. IsFiniteSet(All) /\ Cardinality(All) \in Nat
  <2>1. IsFiniteSet(1 .. produced)
    BY FS_Interval DEF Sizes, MessagesOK
  <2>2. All \subseteq 1 .. produced
    BY DEF MessagesOK
  <2>. QED  BY <2>1, <2>2, FS_Subset, FS_CardinalityType
<1>2. ASSUME NEW S \in SUBSET All  PROVE Cardinality(S) <= QueueSize
  <2>1. IsFiniteSet(S) /\ Cardinality(S) <= Cardinality(All)
    BY <1>1, FS_Subset
  <2>. QED  BY <1>1, <2>1, FS_CardinalityType DEF Sizes
<1>3. CASE queue' \cup reports' \in SUBSET All
  BY <1>2, <1>3
<1>4. CASE P!Enqueue
  <2>1. IsFiniteSet(queue) /\ Cardinality(queue) <= Cardinality(All)
    BY <1>1, FS_Subset
  <2>2. /\ IsFiniteSet(queue \cup {produced}) /\ Cardinality(queue) \in Nat
        /\ Cardinality(queue \cup {produced}) \in {Cardinality(queue), Cardinality(queue) + 1}
    BY <2>1, FS_AddElement, FS_CardinalityType
  <2>3. ~(Cardinality(All) >= QueueSize) /\ queue' \cup reports' = queue \cup {produced}
    <3>1. ~(Cardinality(All) >= QueueSize)
      <4>1. ~P!Full
        BY <1>4 DEF P!Enqueue
      <4>. QED  BY <4>1, SameCardinality DEF P!Full
    <3>2. queue' = queue \cup {produced} /\ reports' = {}
      BY <1>4 DEF P!Enqueue, P!Poll
    <3>. QED  BY <3>1, <3>2
  <2>. HIDE DEF All
  <2>. QED  BY <1>1, <2>1, <2>2, <2>3 DEF Sizes
<1>5. queue' \cup reports' \in SUBSET All \/ P!Enqueue
  BY DEF MessageStep, messages, P!Call, P!produce, P!Attempt, P!Retry, P!Refuse,
         P!NothingToSend, P!Poll, P!Settle, P!FlushPoll, P!Drop
<1>. QED  BY <1>3, <1>4, <1>5

\* Every step keeps the types (AvayaCtiUI.cpp 58 to 177).
LEMMA TypesKept ==
  ASSUME Sizes, LifeInv, [Next]_vars, MessagesOK', TopicOK', WaitsOK'
  PROVE  TypeOK'
<1>. USE DEF P!Handle, producerVars, consumerVars, dialog
<1>1. Cardinality(queue' \cup reports') <= QueueSize
  BY QueueKept, MessageSteps DEF LifeInv, TypeOK
<1>2. /\ run' \in -1 .. Tries
      /\ loop' \in {"none", "consume", "consume_clear", "wait"}
  BY DEF WaitsOK
<1>3. \A p \in Partitions : position'[p] \in 1 .. end'[p] + 1
  <2>. SUFFICES ASSUME NEW p \in Partitions  PROVE position'[p] \in 1 .. end'[p] + 1
    OBVIOUS
  <2>1. /\ end'[p] \in Nat /\ position'[p] \in Nat
        /\ 0 < position'[p] /\ position'[p] <= end'[p] + 1
    BY DEF TopicOK
  <2>. QED  BY <2>1
<1>. DEFINE Rest ==
       /\ phase \in {"start", "up", "closing", "producer", "consumer", "ended"}
       /\ object \in [{"m_pTSAPIInterface", "m_pAgtObject", "m_pConsumerObject"} -> P!Handle]
       /\ {rk, rkt, consumer, topic, topics_list} \subseteq P!Handle
       /\ calling => loop = "none" /\ phase = "up"
       /\ stream => phase \in {"up", "closing", "ended"}
<1>4. Rest
  BY DEF LifeInv, TypeOK
<1>. SUFFICES Rest'
  BY <1>1, <1>2, <1>3 DEF TypeOK
<1>5. CASE OnInitDialog
  <2>1. CASE StreamRefused
    BY <1>4, <1>5, <2>1 DEF OnInitDialog, MakeInterface, P!initKafka, P!KeepMessages,
                           StreamRefused, C!KeepReading
  <2>2. CASE (NoSettings \/ StreamOpens) /\ MakeConsumer /\ UsedAtStart
    BY <1>4, <1>5, <2>2 DEF OnInitDialog, MakeInterface, P!initKafka, P!KeepMessages,
         MakeConsumer, UsedAtStart, C!initKafka, C!ConfRefused, C!NewFails, C!HandleMade,
         C!handles, C!KeepReading
  <2>. QED  BY <1>5, <2>1, <2>2 DEF OnInitDialog
<1>6. CASE DoModalFails \/ CloseDialog \/ Exit
  BY <1>4, <1>6 DEF DoModalFails, CloseDialog, Exit, Idle, P!Drop
<1>7. CASE Produce
  BY <1>4, <1>7 DEF Produce, Undefined, Idle, P!Call
<1>8. CASE ProduceStep
  BY <1>4, <1>8 DEF ProduceStep, P!produce, P!Attempt, P!Enqueue, P!Retry, P!Refuse,
                   P!NothingToSend
<1>9. CASE \E l \in {"consume", "consume_clear"} : Read(l)
  BY <1>4, <1>9 DEF Read, NoConsumer, Undefined, Idle, C!Enter, C!handles
<1>10. CASE ReadStep
  BY <1>4, <1>10 DEF ReadStep, Undefined, C!consume, C!consume_clear, C!SeeksNowhere, C!handles
<1>11. CASE Library
  BY <1>4, <1>11 DEF Library, P!Settle, C!Arrive, C!handles
<1>12. CASE CloseStream
  BY <1>4, <1>12 DEF CloseStream, Undefined
<1>13. CASE DeleteInterface
  BY <1>4, <1>13 DEF DeleteInterface, Undefined, P!FlushPoll, P!Destroy, P!Drop
<1>14. CASE DeleteConsumer
  BY <1>4, <1>14 DEF DeleteConsumer, NoConsumer, Undefined, C!Close
<1>15. CASE WaitDestroyed
  <2>1. CASE C!TimesOut /\ UNCHANGED dialog /\ UNCHANGED producerVars
    BY <1>4, <2>1 DEF C!TimesOut, C!handles
  <2>2. CASE /\ C!WaitEnds /\ phase' = "ended" /\ phase = "consumer"
             /\ object' = [object EXCEPT !.m_pConsumerObject = "dangling"]
             /\ UNCHANGED <<stream, failures>> /\ UNCHANGED producerVars
    <3>1. loop = "wait" /\ loop' = "none" /\ UNCHANGED <<consumer, topic, topics_list>>
      BY <2>2 DEF C!WaitEnds, C!handles
    <3>. QED  BY <1>4, <2>2, <3>1
  <2>. QED  BY <1>15, <2>1, <2>2 DEF WaitDestroyed
<1>16. CASE UNCHANGED vars
  BY <1>4, <1>16 DEF vars
<1>. QED
  BY <1>5, <1>6, <1>7, <1>8, <1>9, <1>10, <1>11, <1>12, <1>13, <1>14, <1>15, <1>16
  DEF Next, Destructors

-----------------------------------------------------------------------------
(* The theorems.                                                             *)

\* Every step keeps the invariant (AvayaCtiUI.cpp 44 to 241).
LEMMA LifeKept == ASSUME Sizes, LifeInv, [Next]_vars PROVE LifeInv'
<1>1. MessagesOK' /\ TopicOK' /\ WaitsOK'
  BY MessageSteps, MessagesKept, TopicKept, WaitsKept DEF LifeInv
<1>2. HandlesOK' /\ AcceptedIsSettled'
  BY <1>1, HandlesKept, SettledKept DEF LifeInv
<1>3. TypeOK'
  BY <1>1, TypesKept
<1>. QED  BY <1>1, <1>2, <1>3 DEF LifeInv

\* The invariant holds all the time (AvayaCtiUI.cpp 44 to 241).
LEMMA LifeInvariant == ASSUME Sizes PROVE Spec => []LifeInv
<1>1. Init => LifeInv
  BY InitLife
<1>2. LifeInv /\ [Next]_vars => LifeInv'
  BY LifeKept
<1>. QED  BY <1>1, <1>2, PTL DEF Spec

\* Types, and no more messages in the library than its queue has room for.
THEOREM LifeTypeCorrect == ASSUME Sizes PROVE Spec => []TypeOK
<1>1. LifeInv => TypeOK
  BY DEF LifeInv
<1>. QED  BY <1>1, LifeInvariant, PTL

\* Whatever the dialog uses that is not there is accounted for, in every order of its
\* steps, by the one failure that goes with it; the topic configuration, used after it
\* was given away, goes with every consumer that is made (AvayaCtiUI.cpp 58 to 177).
THEOREM LifeDefined == ASSUME Sizes PROVE Spec => []DefinedUnlessFailed
<1>1. LifeInv => DefinedUnlessFailed
  BY DEF LifeInv, HandlesOK
<1>. QED  BY <1>1, LifeInvariant, PTL

\* A message produce has returned from was accepted once or refused
\* (KafkaProducer.cpp 103 to 117).
THEOREM MessagesProducedOnce == ASSUME Sizes PROVE Spec => []ProducedOnce
<1>1. LifeInv => ProducedOnce
  BY DEF LifeInv, MessagesOK
<1>. QED  BY <1>1, LifeInvariant, PTL

\* What was accepted is settled before the handle goes, unless the program ends by
\* exit or the flush runs out of time (KafkaProducer.cpp 33).
THEOREM MessagesSettled == ASSUME Sizes PROVE Spec => []AcceptedIsSettled
<1>1. LifeInv => AcceptedIsSettled
  BY DEF LifeInv
<1>. QED  BY <1>1, LifeInvariant, PTL

\* The handle is dumped after its end only when all waits but one have timed out
\* (KafkaConsumer.cpp 45 to 50).
THEOREM DumpIsLate == ASSUME Sizes PROVE Spec => []DumpedLate
<1>1. LifeInv => DumpedLate
  BY DEF LifeInv, WaitsOK
<1>. QED  BY <1>1, LifeInvariant, PTL

\* consume returns nothing of partition 0 that consume_clear has gone past, whatever
\* the number of partitions and of messages (KafkaConsumer.cpp 182 to 189).
THEOREM ClearingIsForGood == ASSUME Sizes PROVE Spec => ClearedForGood
<1>. DEFINE Later ==
       message' # message /\ message' # <<>> /\ message'[1] = 0 => message'[2] > cleared
<1>1. LifeInv /\ [Next]_vars => [Later]_(C!vars)
  <2>. SUFFICES ASSUME LifeInv, [Next]_vars  PROVE Later
    OBVIOUS
  <2>1. CASE C!consume
    <3>1. \/ message' = <<>>
          \/ \E p \in Partitions : message' = <<p, position[p]>>
      BY <2>1 DEF C!consume, C!Waiting
    <3>2. cleared < position[0] /\ cleared \in Nat /\ position[0] \in Nat
      BY PartitionsAssumption DEF LifeInv, TopicOK
    <3>. QED  BY <3>1, <3>2
  <2>2. CASE UNCHANGED message
    BY <2>2
  <2>. QED  BY <2>1, <2>2, TopicSteps DEF reading, C!Arrive, C!consume_clear
<1>. QED  BY <1>1, LifeInvariant, PTL DEF Spec, ClearedForGood, C!ClearedForGood
=============================================================================

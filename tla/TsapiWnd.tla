------------------------------ MODULE TsapiWnd ------------------------------
(* The pump of class CTsapiWnd (src/AvayaCtiService/Tsapi.cpp): one message   *)
(* is one event taken from the client library and passed on with SendMessage; *)
(* the window served may let other messages in, and with them the pump again. *)
EXTENDS Naturals, Sequences

CONSTANTS
  Window,      \* the windows ACS confirmations are for
  Controller,  \* m_TsapiController, which is none of them
  MaxEvents,   \* bound on the events that arrive
  MaxNested,   \* bound on windows served on top of each other
  MaxPosted    \* bound on WM_TSAPIMSG messages waiting

\* An event is what OnTsapiMsg looks at: who is to be served (nobody for a CSTA
\* event, see Addressee) and whether it is larger than the static buffer.
Event == [class : {"ACSUNSOLICITED", "ACSCONFIRMATION", "CSTAUNSOLICITED"},
          wnd : Window, big : BOOLEAN]

VARIABLES
  queue,     \* environment: the events the library holds
  arrived,   \* environment: how many have arrived
  posted,    \* the WM_TSAPIMSG messages waiting
  buffer,    \* m_EventBufPtr: "static", "null" or a block of the heap
  heap,      \* the blocks GlobalAllocPtr has given out and not got back
  serving,   \* per window being served, innermost last: numEvents > 0
  windows,   \* the windows that still exist; without the controller this one is gone
  failed     \* WM_TSAPIFAILURE has been posted to the controller

vars == <<queue, arrived, posted, buffer, heap, serving, windows, failed>>

Block == {"block", "other block"}
Alive == Controller \in windows

Init ==
  /\ queue = <<>> /\ arrived = 0 /\ posted = 0
  /\ buffer = "static" /\ heap = {}
  /\ serving = <<>> /\ windows = Window \cup {Controller} /\ failed = FALSE

\* The library posts a message when its queue is no longer empty, and perhaps
\* for every other event too.
Arrive(e) ==
  /\ Alive /\ arrived < MaxEvents
  /\ queue' = Append(queue, e) /\ arrived' = arrived + 1
  /\ \E n \in IF queue = <<>> THEN {1} ELSE {0, 1} :
       posted + n <= MaxPosted /\ posted' = posted + n
  /\ UNCHANGED <<buffer, heap, serving, windows, failed>>

CloseWindow(w) ==
  /\ Alive /\ w \in windows /\ windows' = windows \ {w}
  /\ UNCHANGED <<queue, arrived, posted, buffer, heap, serving, failed>>

HeapAfterFree == heap \ {buffer}
BufferAfterFree == IF buffer \in Block THEN "null" ELSE buffer

\* ~CTsapiWnd, when no window is being served: the buffer goes, and the stream.
Destroy ==
  /\ Alive /\ serving = <<>>
  /\ windows' = {} /\ heap' = HeapAfterFree
  /\ UNCHANGED <<queue, arrived, posted, buffer, serving, failed>>

-----------------------------------------------------------------------------
(* OnTsapiMsg.                                                               *)

\* The device records keep the values of the constructor: CreateDeviceRecord
\* compares an array with a null pointer, finds no free record and returns NULL.
\* GetDeviceRecord finds at most a record without a window, so an unsolicited
\* CSTA event reaches nobody; and nobody has a record to make a request with, so
\* there is no CSTA confirmation (its invoke ID would be the record).
Addressee(e) ==
  IF e.class = "ACSUNSOLICITED" THEN {Controller}
  ELSE IF e.class = "ACSCONFIRMATION" THEN {e.wnd} \cap windows ELSE {}

\* Mutant: the next message comes from the library.
NoRepost(more) == UNCHANGED posted
Repost(more) == posted' = IF more THEN posted + 1 ELSE posted

\* The event is taken out of the queue into the buffer and passed on.  When
\* nobody is to be served the function ends at once.
Dispatch ==
  LET more == Len(queue) > 1
  IN /\ queue' = Tail(queue)
     /\ IF Addressee(Head(queue)) = {}
        THEN /\ UNCHANGED serving
             /\ posted' = IF more THEN posted ELSE posted - 1
        ELSE /\ Len(serving) < MaxNested
             /\ serving' = Append(serving, more)
             /\ posted' = posted - 1
     /\ UNCHANGED failed

ReportFailure ==
  /\ failed' = TRUE /\ posted' = posted - 1
  /\ UNCHANGED <<queue, serving>>

\* acsGetEventPoll: nothing there, an error, the event in the static buffer, or
\* the static buffer too small.  In the last case the block may not be had, or
\* the second call may fail.
NothingThere ==
  /\ queue = <<>>
  /\ heap' = HeapAfterFree /\ buffer' = BufferAfterFree
  /\ posted' = posted - 1
  /\ UNCHANGED <<queue, serving, failed>>

PollFails ==
  /\ heap' = HeapAfterFree /\ buffer' = BufferAfterFree
  /\ ReportFailure

SmallEvent ==
  /\ queue # <<>> /\ ~Head(queue).big
  /\ heap' = HeapAfterFree /\ buffer' = "static"
  /\ Dispatch

BigEvent ==
  /\ queue # <<>> /\ Head(queue).big
  /\ \E b \in Block \ HeapAfterFree :
       buffer' = b /\ heap' = HeapAfterFree \cup {b}
  /\ Dispatch

\* Mutant: the block of the failed second call is not freed.
BigEventLeaks ==
  /\ queue # <<>> /\ Head(queue).big
  /\ \E b \in Block \ HeapAfterFree : heap' = HeapAfterFree \cup {b}
  /\ buffer' = "null"
  /\ ReportFailure

BigEventFails ==
  /\ queue # <<>> /\ Head(queue).big
  /\ heap' = HeapAfterFree /\ buffer' = "null"
  /\ ReportFailure

OnTsapiMsg ==
  /\ Alive /\ posted > 0
  /\ NothingThere \/ PollFails \/ SmallEvent \/ BigEvent \/ BigEventFails
  /\ UNCHANGED <<arrived, windows>>

\* The window served last returns, and OnTsapiMsg with it.
SendMessageReturns ==
  /\ serving # <<>>
  /\ Repost(serving[Len(serving)])
  /\ serving' = SubSeq(serving, 1, Len(serving) - 1)
  /\ UNCHANGED <<queue, arrived, buffer, heap, windows, failed>>

Next ==
  \/ \E e \in Event : Arrive(e)
  \/ \E w \in Window : CloseWindow(w)
  \/ Destroy
  \/ OnTsapiMsg \/ SendMessageReturns

Spec == Init /\ [][Next]_vars

\* The program pumps its messages, and a window that is served returns.
FairSpec == Spec /\ WF_vars(OnTsapiMsg) /\ WF_vars(SendMessageReturns)

-----------------------------------------------------------------------------
(* Properties.                                                               *)

\* No block is lost and none is freed twice, whatever fails and however deep the
\* pump is nested: what is allocated is what m_EventBufPtr points to, and nothing
\* after the destructor (Tsapi.cpp 287, 322, 354).
BufferOwned == heap = IF Alive THEN {buffer} \cap Block ELSE {}

\* Although a message takes one event, and the library need not post one for each,
\* every event is taken in the end, unless the controller has been told of a
\* failure (Tsapi.cpp 439).
EventsTaken ==
  \A n \in 1 .. MaxEvents :
    arrived >= n ~> (arrived - Len(queue) >= n \/ failed \/ ~Alive)
=============================================================================

------------------------------ MODULE MCTsapi -------------------------------
(* Instances for TLC of the two classes of src/AvayaCtiService/Tsapi.cpp: the *)
(* table of one device, and the pump.  Nothing connects them (no device       *)
(* record is ever given out), so a behaviour is one of the table or one of    *)
(* the pump.                                                                  *)
EXTENDS TsapiDevice

CONSTANTS Window, Controller, MaxEvents, MaxNested, MaxPosted
ASSUME ControllerAssumption == Controller \notin Window

VARIABLES queue, arrived, posted, buffer, heap, serving, windows, failed, part

W == INSTANCE TsapiWnd
pump == <<queue, arrived, posted, buffer, heap, serving, windows, failed>>

MCInit == Init /\ W!Init /\ part \in {"table", "pump"}
MCNext ==
  /\ \/ part = "table" /\ Next /\ UNCHANGED pump
     \/ part = "pump" /\ W!Next /\ UNCHANGED vars
  /\ UNCHANGED part
MCSpec ==
  /\ MCInit /\ [][MCNext]_<<vars, pump, part>>
  /\ WF_pump(W!OnTsapiMsg) /\ WF_pump(W!SendMessageReturns)

\* No block of the heap is lost or freed twice (TsapiWnd).
BufferOwned == W!BufferOwned

\* Every event is taken in the end, or the controller told of a failure (TsapiWnd).
EventsTaken == W!EventsTaken
=============================================================================

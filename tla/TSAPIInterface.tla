--------------------------- MODULE TSAPIInterface ---------------------------
(***************************************************************************)
(* The request side of class TSAPIInterface: how a request made in the     *)
(* dialog becomes a csta*() call with an application generated invoke ID,  *)
(* how the class remembers which operation and which extension the ID      *)
(* stands for, and what it files when the confirmation comes back.         *)
(*                                                                         *)
(* In comments, T n is line n of TSAPIInterface.cpp.                       *)
(*                                                                         *)
(* The program has one thread.  A request runs to its end before the next  *)
(* window message is handled, except where it opens a MessageBox: the box  *)
(* runs a message loop of its own, in which further requests and           *)
(* confirmations are handled before the interrupted function continues.    *)
(* Only AgentSetState still has work to do after its box (and              *)
(* TSAPIMessageHandler, which exits); those two leave a frame in `modal'.  *)
(*                                                                         *)
(* A std::map entry that does not exist reads as the empty string, so the  *)
(* maps are total functions with the value Empty.                          *)
(***************************************************************************)
EXTENDS Naturals, Sequences

CONSTANTS
  Device,       \* station extensions
  Agent,        \* agent IDs
  Call,         \* call IDs
  Ops,          \* the operations this instance uses
  AgtModes,     \* the agent modes they ask for in AgentSetState
  MaxInvokeID,  \* bound on m_ulInvokeID (an unsigned long in the code)
  MaxModal      \* bound on message boxes open on top of each other

Empty  == ""      \* what operator[] of a map<.., string> yields for a new key
Keep   == "keep"  \* "this operation does not assign that map"
AChar  == "a single character"  \* a string assigned from a number

ActNames ==
  { "AgentLogin", "AgentLogout", "AgentSetState", "AgentAnswerCall",
    "AgentClearConnection", "AgentDisconnectCall", "AgentMakeCall",
    "AgentHoldCall", "AgentRetrieveCall", "AgentConferenceCall",
    "AgentConsultationCall", "AgentDeflectCall", "AgentPickupCall",
    "AgentTransferCall", "AgentReconnectCall", "QueryAgentStatus",
    "AgentSnapshotDevice", "SingleStepConferenceCall",
    "AgentSingleStepTransferCall", "StartMonitor", "StopMonitor",
    "RouteRegister", "RouteRegisterCancel", "RouteSelectInv", "RouteEndInv" }

\* The requests of call routing.  The switch confirms the first two.
RouteActs == {"RouteRegister", "RouteRegisterCancel", "RouteSelectInv", "RouteEndInv"}

\* The operations that bind the invoke ID even when the client library has
\* refused the request, or when no confirmation exists, and so may leave an
\* entry nobody will ever erase.
LeakyActs ==
  {"AgentLogin", "AgentLogout", "AgentSetState", "AgentTransferCall"} \cup RouteActs

SetModes    == {"Ready", "Not Ready", "Busy", "unknown"}  \* agtMode strings

ASSUME OpsAssumption    == Ops \subseteq ActNames /\ AgtModes \subseteq SetModes
ASSUME BoundsAssumption == MaxInvokeID \in Nat \ {0} /\ MaxModal \in Nat
\* No extension is the empty text that stands for "no entry", or one character.
ASSUME DeviceAssumption == Empty \notin Device /\ AChar \notin Device

InvokeIDs   == 1..MaxInvokeID
ReturnCodes == {"ack", "nak"}             \* ACSPOSITIVE_ACK, or an error < 0
WorkModes   == {"known", "other"}         \* known: WM_AUTO_IN, WM_MANUAL_IN
AgentModes  == {"logIn", "logOut"} \cup SetModes
Talks       == {"csConnect", "csNull", "csInitiate", "csHold"}
Stations    == {"begin", "end", "hold", "unhold", "threeWay", "transfer", "group"}
Confs       == { "SET_AGENT_STATE", "ANSWER_CALL", "CLEAR_CONNECTION",
                 "MAKE_CALL", "HOLD_CALL", "RETRIEVE_CALL", "DEFLECT_CALL",
                 "PICKUP_CALL", "TRANSFER_CALL", "CONFERENCE_CALL",
                 "CONSULTATION_CALL", "RECONNECT_CALL", "QUERY_AGENT_STATE",
                 "SNAPSHOT_DEVICE", "ESCAPE_SVC", "MONITOR", "MONITOR_STOP",
                 "ROUTE_REGISTER_REQ", "ROUTE_REGISTER_CANCEL" }
Tables      == {"Agentsate", "Stationstate", "Callstate"}

VARIABLES
  stream,    \* the ACS stream: start, none, opening, open, deaf, ended
  invokeID,  \* m_ulInvokeID
  retCode,   \* m_nRetCode
  InvokeID2DeviceID, InvokeID2ActName,
  DeviceID2AgentID, DeviceID2AgentMode,
  DeviceID2CallID, DeviceID2TalkState, DeviceID2station,
  modal,     \* the functions suspended in a message box, innermost last
  wire,      \* environment: per invoke ID, the request TSAPI has to answer
  filed,     \* what the last step passed to StatusRecord::Request
  setBy      \* history: per device, the request that last assigned a map

maps == <<InvokeID2DeviceID, InvokeID2ActName>>
agentMaps == <<DeviceID2AgentID, DeviceID2AgentMode>>
callMaps == <<DeviceID2CallID, DeviceID2TalkState, DeviceID2station>>
vars == <<stream, invokeID, retCode, maps, agentMaps, callMaps, modal, wire,
          filed, setBy>>

\* A request as the switch sees it, with what its operation assigns to the
\* per-device maps (Keep where it assigns nothing).
Request ==
  [ act : ActNames, dev : Device, conf : Confs, work : WorkModes \cup {Keep},
    talk : Talks \cup {Keep}, station : Stations \cup {Keep},
    call : Call \cup {Keep}, mode : AgentModes \cup {Keep},
    agent : Agent \cup {Empty} ]
NoRequest == [act |-> Empty]

Record ==
  [ id : InvokeIDs, tables : SUBSET Tables, act : ActNames,
    dev : Device, agent : Agent \cup {Empty},
    mode : AgentModes \cup {Empty, "reported"},
    call : Call \cup {Empty, "reported"},
    talk : Talks \cup {Empty}, station : Stations \cup {Empty} ]
NoRecord == [tables |-> {}]

\* AgentSetState before its first test of agtMode, AgentSetState before it
\* binds the invoke ID, TSAPIMessageHandler before its exit(-1).
ExitFrame == [pc |-> "exit"]
Frame == { ExitFrame } \cup
  [ pc : {"flag", "bind"}, dev : Device, agent : Agent, mode : SetModes,
    work : WorkModes ]

Stamps == [ talk : [Device -> Nat], station : [Device -> Nat],
            call : [Device -> Nat], mode : [Device -> Nat] ]

TypeOK ==
  /\ stream \in {"start", "none", "opening", "open", "deaf", "ended"}
  /\ invokeID \in InvokeIDs
  /\ retCode \in ReturnCodes
  /\ InvokeID2DeviceID \in [InvokeIDs -> Device \cup {Empty, AChar}]
  /\ InvokeID2ActName \in [InvokeIDs -> ActNames \cup {Empty}]
  /\ DeviceID2AgentID \in [Device -> Agent \cup {Empty}]
  /\ DeviceID2AgentMode \in [Device -> AgentModes \cup {Empty}]
  /\ DeviceID2CallID \in [Device -> Call \cup {Empty}]
  /\ DeviceID2TalkState \in [Device -> Talks \cup {Empty}]
  /\ DeviceID2station \in [Device -> Stations \cup {Empty}]
  /\ modal \in Seq(Frame) /\ Len(modal) <= MaxModal
  /\ wire \in [InvokeIDs -> Request \cup {NoRequest}]
  /\ filed \in Record \cup {NoRecord}
  /\ setBy \in Stamps

InFlight(i) == wire[i] # NoRequest
Running == stream \notin {"start", "ended"}

Init ==
  /\ stream = "start" /\ invokeID = 1
  /\ retCode \in ReturnCodes      \* the constructor does not initialise it
  /\ InvokeID2DeviceID = [i \in InvokeIDs |-> Empty]
  /\ InvokeID2ActName = [i \in InvokeIDs |-> Empty]
  /\ DeviceID2AgentID = [d \in Device |-> Empty]
  /\ DeviceID2AgentMode = [d \in Device |-> Empty]
  /\ DeviceID2CallID = [d \in Device |-> Empty]
  /\ DeviceID2TalkState = [d \in Device |-> Empty]
  /\ DeviceID2station = [d \in Device |-> Empty]
  /\ modal = <<>>
  /\ wire = [i \in InvokeIDs |-> NoRequest]
  /\ filed = NoRecord
  /\ LET never == [d \in Device |-> 0]
     IN setBy = [talk |-> never, station |-> never, call |-> never, mode |-> never]

-----------------------------------------------------------------------------
(* The stream, and the end of the program. *)

\* OnInitDialog: without Settings.ini the stream is never opened; else
\* acsOpenStream may refuse, and acsEventNotify may refuse, after which the
\* stream exists but no event ever reaches the window.  The dialog comes up
\* in every case.
OpenStream ==
  /\ stream = "start"
  /\ \/ stream' = "none" /\ retCode' \in {retCode, "nak"}
     \/ stream' = "deaf" /\ retCode' = "nak"
     \/ stream' = "opening" /\ retCode' = "ack"
  /\ filed' = NoRecord
  /\ UNCHANGED <<invokeID, maps, agentMaps, callMaps, modal, wire, setBy>>

\* HandleACSConfirmation for the confirmation of invoke ID 1: accepted,
\* accepted with the wrong private data vendor (the program exits), or
\* refused.  The entries of the ID go away whatever they are by now.
HandleACSConfirmation ==
  /\ stream = "opening"
  /\ stream' \in {"open", "ended", "none"}
  /\ retCode' = "ack"
  /\ InvokeID2DeviceID' = [InvokeID2DeviceID EXCEPT ![1] = Empty]
  /\ InvokeID2ActName' = [InvokeID2ActName EXCEPT ![1] = Empty]
  /\ filed' = NoRecord
  /\ UNCHANGED <<invokeID, agentMaps, callMaps, modal, wire, setBy>>

\* ~AvayaCtiUI: the dialog object goes away after its last modal box.
CloseStream ==
  /\ Running /\ modal = <<>>
  /\ stream' = "ended" /\ retCode' \in ReturnCodes /\ filed' = NoRecord
  /\ UNCHANGED <<invokeID, maps, agentMaps, callMaps, modal, wire, setBy>>

\* SelectTSAPIInterface converts numbers with stoi: text that is no number
\* throws out of the window procedure before anything has been sent.
BadNumber ==
  /\ Running
  /\ stream' = "ended" /\ filed' = NoRecord
  /\ UNCHANGED <<invokeID, retCode, maps, agentMaps, callMaps, modal, wire, setBy>>

-----------------------------------------------------------------------------
(* What the operations have in common. *)

\* What the client library may answer to a call made now: every call on a
\* handle that was never opened is refused.
Returns == IF stream = "none" THEN {"nak"} ELSE ReturnCodes

\* Mutant: an ID that wraps around onto IDs in use.
NextIDWrapping == IF invokeID = MaxInvokeID THEN 2 ELSE invokeID + 1

\* ++m_ulInvokeID
NextID == invokeID + 1

\* In the history: no request, but later than all of them.
Nobody == MaxInvokeID + 1

\* Mutant: m_ulInvokeID++, the request goes out under the ID before.
InvokePostIncrement(req, rc) ==
  /\ NextID <= MaxInvokeID
  /\ invokeID' = NextID /\ retCode' = rc
  /\ wire' = IF rc = "ack" THEN [wire EXCEPT ![invokeID] = req] ELSE wire

\* csta*(handle, ++m_ulInvokeID, ...): an accepted request is on its way.
Invoke(req, rc) ==
  /\ NextID <= MaxInvokeID
  /\ invokeID' = NextID
  /\ retCode' = rc
  /\ wire' = IF rc = "ack" THEN [wire EXCEPT ![NextID] = req] ELSE wire

\* Mutant: the two maps swapped.
BindSwapped(id, act, d) ==
  /\ InvokeID2DeviceID' = [InvokeID2DeviceID EXCEPT ![id] = act]
  /\ InvokeID2ActName' = [InvokeID2ActName EXCEPT ![id] = d]

Bind(id, act, d) ==
  /\ InvokeID2DeviceID' = [InvokeID2DeviceID EXCEPT ![id] = d]
  /\ InvokeID2ActName' = [InvokeID2ActName EXCEPT ![id] = act]

\* Mutant: insert(), which leaves an entry that is there alone.
AssignFirst(map, d, value) ==
  IF value = Keep \/ map[d] # Empty THEN map ELSE [map EXCEPT ![d] = value]

Assign(map, d, value) == IF value = Keep THEN map ELSE [map EXCEPT ![d] = value]

\* The history beside it: the request that assigned the entry.
Stamp(map, d, value) == IF value = Keep THEN map ELSE [map EXCEPT ![d] = NextID]

AssignCallMaps(req, stationDev) ==
  /\ DeviceID2TalkState' = Assign(DeviceID2TalkState, req.dev, req.talk)
  /\ DeviceID2station' = Assign(DeviceID2station, stationDev, req.station)
  /\ DeviceID2CallID' = Assign(DeviceID2CallID, req.dev, req.call)
  /\ setBy' = [setBy EXCEPT !.talk = Stamp(@, req.dev, req.talk),
                            !.station = Stamp(@, stationDev, req.station),
                            !.call = Stamp(@, req.dev, req.call)]

Req(act, conf, d, talk, station, c) ==
  [ act |-> act, dev |-> d, conf |-> conf, work |-> Keep, talk |-> talk,
    station |-> station, call |-> c, mode |-> Keep, agent |-> Empty ]

\* The shape of most operations: one csta*() call, and only if it was
\* accepted the invoke ID is bound and the per-device maps are assigned.
SendOn(req, stationDev) ==
  /\ Running /\ req.act \in Ops
  /\ \E rc \in Returns :
       /\ Invoke(req, rc)
       /\ IF rc = "ack"
          THEN Bind(NextID, req.act, req.dev) /\ AssignCallMaps(req, stationDev)
          ELSE UNCHANGED <<maps, callMaps, setBy>>
  /\ filed' = NoRecord
  /\ UNCHANGED <<stream, agentMaps, modal>>

Send(req) == SendOn(req, req.dev)

\* An att*() call could not prepare the private data: nothing is sent.
PrivateDataRefused(act) ==
  /\ Running /\ act \in Ops
  /\ retCode' = "nak" /\ filed' = NoRecord
  /\ UNCHANGED <<stream, invokeID, maps, agentMaps, callMaps, modal, wire, setBy>>

-----------------------------------------------------------------------------
(* Call control. *)

AgentAnswerCall(d, c) ==
  Send(Req("AgentAnswerCall", "ANSWER_CALL", d, "csConnect", "begin", c))

AgentClearConnection(d, c) ==
  Send(Req("AgentClearConnection", "CLEAR_CONNECTION", d, "csNull", "end", c))

\* The error box at its end leaves nothing to do, so it leaves no frame; the
\* same goes for the boxes of QueryAgentStatus, StartMonitor and
\* SingleStepTransferCall.
AgentDisconnectCall(d, c) ==
  Send(Req("AgentDisconnectCall", "CLEAR_CONNECTION", d, "csNull", "end", c))

AgentMakeCall(d) ==
  Send(Req("AgentMakeCall", "MAKE_CALL", d, "csInitiate", Keep, Keep))

AgentHoldCall(d, c) ==
  Send(Req("AgentHoldCall", "HOLD_CALL", d, "csHold", "hold", c))

AgentRetrieveCall(d, c) ==
  Send(Req("AgentRetrieveCall", "RETRIEVE_CALL", d, "csConnect", "unhold", c))

AgentConferenceCall(d) ==
  Send(Req("AgentConferenceCall", "CONFERENCE_CALL", d, "csConnect", "threeWay", Keep))

AgentConsultationCall(d) ==
  Send(Req("AgentConsultationCall", "CONSULTATION_CALL", d, "csConnect", "hold", Keep))

AgentDeflectCall(d, c) ==
  Send(Req("AgentDeflectCall", "DEFLECT_CALL", d, "csNull", "transfer", c))

AgentPickupCall(d, c) ==
  Send(Req("AgentPickupCall", "PICKUP_CALL", d, "csNull", "transfer", c))

AgentReconnectCall(d, c) ==
  Send(Req("AgentReconnectCall", "RECONNECT_CALL", d, "csConnect", "threeWay", c))

\* Calls cstaReconnectCall, like AgentReconnectCall, and binds the invoke ID
\* before it looks at the return code.
AgentTransferCall(d) ==
  LET req == Req("AgentTransferCall", "RECONNECT_CALL", d, "csNull", "transfer", Keep)
  IN /\ Running /\ req.act \in Ops
     /\ \E rc \in Returns :
          /\ Invoke(req, rc)
          /\ Bind(NextID, req.act, d)
          /\ IF rc = "ack" THEN AssignCallMaps(req, d) ELSE UNCHANGED <<callMaps, setBy>>
     /\ filed' = NoRecord
     /\ UNCHANGED <<stream, agentMaps, modal>>

\* attSingleStepConferenceCall prepares the private data, and only then an
\* invoke ID is used.  The supervisor's device is bound and gets the talk
\* state, the checked device the station.
SingleStepConferenceCall(checked, d) ==
  \/ SendOn(Req("SingleStepConferenceCall", "ESCAPE_SVC", d, "csConnect", "group", Keep),
            checked)
  \/ PrivateDataRefused("SingleStepConferenceCall")

SingleStepTransferCall(checked) ==
  \/ Send(Req("AgentSingleStepTransferCall", "ESCAPE_SVC", checked, "csNull", "transfer", Keep))
  \/ PrivateDataRefused("AgentSingleStepTransferCall")

-----------------------------------------------------------------------------
(* Queries and monitors. *)

QueryAgentStatus(d) ==
  Send(Req("QueryAgentStatus", "QUERY_AGENT_STATE", d, Keep, Keep, Keep))

SnapshotDevice(d) ==
  Send(Req("AgentSnapshotDevice", "SNAPSHOT_DEVICE", d, Keep, Keep, Keep))

\* The monitor requests use an invoke ID and bind nothing to it.
SendUnbound(req) ==
  /\ Running /\ req.act \in Ops
  /\ \E rc \in Returns : Invoke(req, rc)
  /\ filed' = NoRecord
  /\ UNCHANGED <<stream, maps, agentMaps, callMaps, modal, setBy>>

StartMonitor(d) == SendUnbound(Req("StartMonitor", "MONITOR", d, Keep, Keep, Keep))

StopMonitor(d) == SendUnbound(Req("StopMonitor", "MONITOR_STOP", d, Keep, Keep, Keep))

-----------------------------------------------------------------------------
(* Call routing.  The four requests bind the ID whatever the return code is. *)

\* The map of extensions gets an extension, or what a string becomes that a
\* number is assigned to (T 2526, 2553).
BoundDevice(req) == IF req.act = "RouteRegisterCancel" THEN AChar ELSE req.dev

SendEager(req) ==
  /\ Running /\ req.act \in Ops
  /\ \E rc \in Returns : Invoke(req, rc)
  /\ Bind(NextID, req.act, BoundDevice(req))
  /\ filed' = NoRecord
  /\ UNCHANGED <<stream, agentMaps, callMaps, modal, setBy>>

RouteRegister(d) ==
  SendEager(Req("RouteRegister", "ROUTE_REGISTER_REQ", d, Keep, Keep, Keep))

\* (Without a registration of the extension stoi throws, as in BadNumber.)
RouteRegisterCancel(d) ==
  SendEager(Req("RouteRegisterCancel", "ROUTE_REGISTER_CANCEL", d, Keep, Keep, Keep))

\* Mutant: an answer to an event goes out under the ID in use.
RouteInvInUse(act, dev) ==
  /\ stream = "open" /\ act \in Ops /\ NextID <= MaxInvokeID
  /\ retCode' \in Returns /\ filed' = NoRecord
  /\ Bind(invokeID, act, dev)
  /\ UNCHANGED <<stream, invokeID, agentMaps, callMaps, modal, wire, setBy>>

\* What the handlers of the switch's own events send: it has no confirmation.
RouteInv(act, dev) ==
  /\ stream = "open" /\ act \in Ops /\ NextID <= MaxInvokeID
  /\ invokeID' = NextID /\ retCode' \in Returns /\ filed' = NoRecord
  /\ Bind(NextID, act, dev)
  /\ UNCHANGED <<stream, agentMaps, callMaps, modal, wire, setBy>>

\* A call of extension d that a list does not keep from being routed.
RouteRequestExtEvent(d) == RouteInv("RouteSelectInv", d)

\* CSTA_CONNECTION_CLEARED ends the routing dialog of the extension ...
ConnectionCleared == RouteInv("RouteEndInv", AChar)

\* ... and throws where it has none (T 1084: stoi of an empty text); a route
\* request for a number without a row reads past the end of a vector.
RoutingThrows ==
  /\ stream = "open"
  /\ stream' = "ended" /\ retCode' = "ack" /\ filed' = NoRecord
  /\ UNCHANGED <<invokeID, maps, agentMaps, callMaps, modal, wire, setBy>>

-----------------------------------------------------------------------------
(* Agent state. *)

AgentReq(act, d, mode, work, agent) ==
  [ act |-> act, dev |-> d, conf |-> "SET_AGENT_STATE", work |-> work,
    talk |-> Keep, station |-> Keep, call |-> Keep, mode |-> mode, agent |-> agent ]

\* Login and logout bind and assign whatever the return code is.
SetAgentLogin(req, rc) ==
  /\ Invoke(req, rc)
  /\ Bind(NextID, req.act, req.dev)
  /\ DeviceID2AgentID' = [DeviceID2AgentID EXCEPT ![req.dev] = req.agent]
  /\ DeviceID2AgentMode' = [DeviceID2AgentMode EXCEPT ![req.dev] = req.mode]
  /\ setBy' = [setBy EXCEPT !.mode[req.dev] = NextID]
  /\ filed' = NoRecord
  /\ UNCHANGED <<stream, callMaps, modal>>

\* attV6SetAgentState prepares the two known work modes; for any other work
\* mode m_nRetCode is still that of the call before.
AgentLogin(d, a, work) ==
  /\ Running /\ "AgentLogin" \in Ops
  /\ \/ /\ work = "known" \/ retCode = "ack"
        /\ \E rc \in Returns :
             SetAgentLogin(AgentReq("AgentLogin", d, "logIn", work, a), rc)
     \/ /\ work = "known" \/ retCode = "nak"
        /\ PrivateDataRefused("AgentLogin")

AgentLogout(d) ==
  /\ Running /\ "AgentLogout" \in Ops
  /\ \E rc \in Returns :
       SetAgentLogin(AgentReq("AgentLogout", d, "logOut", Keep, Empty), rc)

BindSetState(d, mode, id, stamp) ==
  /\ Bind(id, "AgentSetState", d)
  /\ DeviceID2AgentMode' = [DeviceID2AgentMode EXCEPT ![d] = mode]
  /\ setBy' = [setBy EXCEPT !.mode[d] = stamp]

\* cstaSetAgentState: a refusal opens a box, and the binding waits for it.
RequestSetState(d, a, mode, work, outer) ==
  \E rc \in Returns :
    /\ Invoke(AgentReq("AgentSetState", d, mode, work, a), rc)
    /\ IF rc = "ack"
       THEN BindSetState(d, mode, NextID, NextID) /\ modal' = outer
       ELSE /\ Len(outer) < MaxModal
            /\ modal' = Append(outer, [pc |-> "bind", dev |-> d, agent |-> a,
                                       mode |-> mode, work |-> work])
            /\ UNCHANGED <<maps, DeviceID2AgentMode, setBy>>

\* AgentSetState from the comparison of agtMode on, with m_nRetCode = rc:
\* either a request is made, or none is; the entries of the invoke ID in use
\* are written in both cases.
SendSetState(d, a, mode, work, rc, outer) ==
  \/ /\ \/ mode \in {"Not Ready", "Busy"}
        \/ mode = "Ready" /\ (work = "known" \/ rc = "ack")
     /\ RequestSetState(d, a, mode, work, outer)
  \/ /\ \/ mode = "unknown" /\ retCode' = rc
        \/ mode = "Ready" /\ (work = "known" \/ rc = "nak") /\ retCode' = "nak"
     /\ BindSetState(d, mode, invokeID, Nobody)
     /\ modal' = outer
     /\ UNCHANGED <<invokeID, wire>>

\* enablePending prepares the private data first; a failure opens a box and
\* the function goes on afterwards.
AgentSetState(d, a, mode, work, enablePending) ==
  /\ Running /\ "AgentSetState" \in Ops
  /\ \/ SendSetState(d, a, mode, work, IF enablePending THEN "ack" ELSE retCode, modal)
     \/ /\ enablePending /\ Len(modal) < MaxModal
        /\ retCode' = "nak"
        /\ modal' = Append(modal, [pc |-> "flag", dev |-> d, agent |-> a,
                                   mode |-> mode, work |-> work])
        /\ UNCHANGED <<invokeID, maps, DeviceID2AgentMode, wire, setBy>>
  /\ filed' = NoRecord
  /\ UNCHANGED <<stream, DeviceID2AgentID, callMaps>>

\* The user closes the innermost box and the function that opened it goes on,
\* with the members of the object as they are by then.
CloseMessageBox ==
  /\ Running /\ modal # <<>>
  /\ LET f     == modal[Len(modal)]
         outer == SubSeq(modal, 1, Len(modal) - 1)
     IN \/ /\ f.pc = "flag"
           /\ SendSetState(f.dev, f.agent, f.mode, f.work, retCode, outer)
           /\ UNCHANGED stream
        \/ /\ f.pc = "bind"
           /\ BindSetState(f.dev, f.mode, invokeID, Nobody)
           /\ modal' = outer
           /\ UNCHANGED <<stream, invokeID, retCode, wire>>
        \/ /\ f.pc = "exit"
           /\ stream' = "ended" /\ modal' = outer
           /\ UNCHANGED <<invokeID, retCode, maps, DeviceID2AgentMode, wire, setBy>>
  /\ filed' = NoRecord
  /\ UNCHANGED <<DeviceID2AgentID, callMaps>>

-----------------------------------------------------------------------------
(* Confirmations: TSAPIMessageHandler and HandleCSTAConfirmation.          *)
(* TSAPI answers the requests in any order; the window gets one message    *)
(* for each answer.                                                        *)

\* Mutant: the entries of the last request, not of the confirmed one.
MesOfLatest(i, tables, mode, call, talk, station) ==
  LET d == InvokeID2DeviceID[invokeID]
  IN [ id |-> i, tables |-> tables, act |-> InvokeID2ActName[invokeID], dev |-> d,
       agent |-> IF d = Empty THEN Empty ELSE DeviceID2AgentID[d],
       mode |-> mode, call |-> call, talk |-> talk, station |-> station ]

\* mes, with the entries every confirmation fills in and those of its case.
Mes(i, tables, mode, call, talk, station) ==
  LET d == InvokeID2DeviceID[i]
  IN [ id |-> i, tables |-> tables, act |-> InvokeID2ActName[i], dev |-> d,
       agent |-> DeviceID2AgentID[d],
       mode |-> mode, call |-> call, talk |-> talk, station |-> station ]

\* Filed if the name bound to the ID is one the case asks for.
FiledIf(i, names, mes) == IF InvokeID2ActName[i] \in names THEN mes ELSE NoRecord

SetAgentStateConf(i) ==
  FiledIf(i, {"AgentLogin", "AgentLogout", "AgentSetState"},
    Mes(i, {"Agentsate"}, DeviceID2AgentMode[InvokeID2DeviceID[i]], Empty, Empty, Empty))

\* Answer, clear, hold, retrieve, deflect, pickup: everything from the maps.
CallConf(i, name) ==
  LET d == InvokeID2DeviceID[i]
  IN FiledIf(i, {name},
       Mes(i, {"Stationstate", "Callstate"}, Empty,
           DeviceID2CallID[d], DeviceID2TalkState[d], DeviceID2station[d]))

\* Transfer, conference, consultation, single step: the call is the new one
\* in the event.
NewCallConf(i, names) ==
  LET d == InvokeID2DeviceID[i]
  IN FiledIf(i, names,
       Mes(i, {"Stationstate", "Callstate"}, Empty,
           "reported", DeviceID2TalkState[d], DeviceID2station[d]))

\* Mutant: the case copied from the one above it.
MakeCallConfCopied(i) ==
  FiledIf(i, {"AgentDisconnectCall"},
    Mes(i, {"Stationstate"}, Empty, Empty, DeviceID2TalkState[InvokeID2DeviceID[i]], Empty))

MakeCallConf(i) ==
  FiledIf(i, {"AgentMakeCall"},
    Mes(i, {"Stationstate"}, Empty, Empty, DeviceID2TalkState[InvokeID2DeviceID[i]], Empty))

\* The only case that does not look at the name.
QueryAgentStateConf(i) == Mes(i, {"Agentsate"}, "reported", Empty, Empty, Empty)

ConfirmedMes(i) ==
  CASE wire[i].conf = "SET_AGENT_STATE"   -> SetAgentStateConf(i)
    [] wire[i].conf = "ANSWER_CALL"       -> CallConf(i, "AgentAnswerCall")
    [] wire[i].conf = "CLEAR_CONNECTION"  -> CallConf(i, "AgentDisconnectCall")
    [] wire[i].conf = "MAKE_CALL"         -> MakeCallConf(i)
    [] wire[i].conf = "HOLD_CALL"         -> CallConf(i, "AgentHoldCall")
    [] wire[i].conf = "RETRIEVE_CALL"     -> CallConf(i, "AgentRetrieveCall")
    [] wire[i].conf = "DEFLECT_CALL"      -> CallConf(i, "AgentDeflectCall")
    [] wire[i].conf = "PICKUP_CALL"       -> CallConf(i, "AgentPickupCall")
    [] wire[i].conf = "TRANSFER_CALL"     -> NewCallConf(i, {"AgentTransferCall"})
    [] wire[i].conf = "CONFERENCE_CALL"   -> NewCallConf(i, {"AgentConferenceCall"})
    [] wire[i].conf = "CONSULTATION_CALL" -> NewCallConf(i, {"AgentConsultationCall"})
    [] wire[i].conf = "RECONNECT_CALL"    -> CallConf(i, "AgentReconnectCall")
    [] wire[i].conf = "QUERY_AGENT_STATE" -> QueryAgentStateConf(i)
    [] wire[i].conf = "ESCAPE_SVC"        ->
         NewCallConf(i, {"SingleStepConferenceCall", "AgentSingleStepTransferCall"})
    [] OTHER                              -> NoRecord

\* Mutant: only one of the two maps is cleaned up.
ReleaseDevice(i) ==
  InvokeID2DeviceID' = [InvokeID2DeviceID EXCEPT ![i] = Empty] /\ UNCHANGED InvokeID2ActName

\* The last two statements of the handler.
Release(i) ==
  /\ InvokeID2DeviceID' = [InvokeID2DeviceID EXCEPT ![i] = Empty]
  /\ InvokeID2ActName' = [InvokeID2ActName EXCEPT ![i] = Empty]

Answered(i) ==
  /\ stream = "open" /\ InFlight(i)
  /\ wire' = [wire EXCEPT ![i] = NoRequest]
  /\ retCode' = "ack"                     \* acsGetEventBlock
  /\ Release(i)
  /\ UNCHANGED <<invokeID, agentMaps, callMaps, modal, setBy>>

HandleCSTAConfirmation(i) ==
  /\ Answered(i)
  /\ filed' = ConfirmedMes(i)
  /\ UNCHANGED stream

\* A snapshot of a device without calls: the handler follows a null pointer
\* and does not get to its end.
SnapshotOfIdleDevice(i) ==
  /\ stream = "open" /\ InFlight(i)
  /\ wire[i].conf = "SNAPSHOT_DEVICE" /\ InvokeID2ActName[i] = "AgentSnapshotDevice"
  /\ stream' = "ended" /\ retCode' = "ack" /\ filed' = NoRecord
  /\ UNCHANGED <<invokeID, maps, agentMaps, callMaps, modal, wire, setBy>>

\* Mutant: an early return on failure, before the clean-up.
FailureKeepsBinding(i) ==
  /\ stream = "open" /\ InFlight(i)
  /\ wire' = [wire EXCEPT ![i] = NoRequest]
  /\ retCode' = "ack" /\ filed' = NoRecord
  /\ UNCHANGED <<stream, invokeID, maps, agentMaps, callMaps, modal, setBy>>

\* The request failed: the error is shown and nothing the request assigned
\* is taken back.
UniversalFailureConf(i) == Answered(i) /\ filed' = NoRecord /\ UNCHANGED stream

\* Every other event leaves this state alone but for the return code; so does
\* a route request for a number on the black list.
OtherEvent ==
  /\ stream = "open"
  /\ retCode' = "ack" /\ filed' = NoRecord
  /\ UNCHANGED <<stream, invokeID, maps, agentMaps, callMaps, modal, wire, setBy>>

\* acsGetEventBlock fails: a box, and after it exit(-1).
ReceiveError ==
  /\ stream \in {"opening", "open"} /\ Len(modal) < MaxModal
  /\ retCode' = "nak" /\ filed' = NoRecord
  /\ modal' = Append(modal, ExitFrame)
  /\ UNCHANGED <<stream, invokeID, maps, agentMaps, callMaps, wire, setBy>>

-----------------------------------------------------------------------------
\* The dispatcher of the dialog.
SelectTSAPIInterface ==
  \E d \in Device :
    \/ \E a \in Agent, work \in WorkModes :
         \/ AgentLogin(d, a, work)
         \/ \E mode \in AgtModes, enablePending \in BOOLEAN :
              AgentSetState(d, a, mode, work, enablePending)
    \/ AgentLogout(d)
    \/ \E c \in Call : \/ AgentAnswerCall(d, c)     \/ AgentClearConnection(d, c)
                       \/ AgentDisconnectCall(d, c) \/ AgentHoldCall(d, c)
                       \/ AgentRetrieveCall(d, c)   \/ AgentDeflectCall(d, c)
                       \/ AgentPickupCall(d, c)     \/ AgentReconnectCall(d, c)
    \/ AgentMakeCall(d) \/ AgentConferenceCall(d) \/ AgentConsultationCall(d)
    \/ AgentTransferCall(d) \/ SingleStepTransferCall(d)
    \/ \E e \in Device : SingleStepConferenceCall(e, d)
    \/ QueryAgentStatus(d) \/ SnapshotDevice(d) \/ StartMonitor(d) \/ StopMonitor(d)

\* The two buttons of the dialog for routing.
RoutingButtons == \E d \in Device : RouteRegister(d) \/ RouteRegisterCancel(d)

TSAPIMessageHandler ==
  \/ HandleACSConfirmation
  \/ \E i \in InvokeIDs : \/ HandleCSTAConfirmation(i)
                          \/ SnapshotOfIdleDevice(i)
                          \/ UniversalFailureConf(i)
  \/ \E d \in Device : RouteRequestExtEvent(d)
  \/ ConnectionCleared \/ RoutingThrows
  \/ OtherEvent \/ ReceiveError

Next == OpenStream \/ CloseStream \/ BadNumber \/ CloseMessageBox
          \/ SelectTSAPIInterface \/ RoutingButtons \/ TSAPIMessageHandler

Spec == Init /\ [][Next]_vars

\* TSAPI answers every request it has accepted, with a confirmation or a
\* universal failure, and the window gets the message; message boxes pump
\* messages too, so no box keeps an answer from being handled.
Fairness == \A i \in InvokeIDs : WF_vars(HandleCSTAConfirmation(i) \/ UniversalFailureConf(i))
FairSpec == Spec /\ Fairness
-----------------------------------------------------------------------------
(* Properties. *)

Unbound == {"StartMonitor", "StopMonitor"}

\* The maps of T 1584, 1623, 1746, 1789 and so on mean what the switch was
\* asked: as long as a request is unanswered, its entry names the operation
\* and the extension of the request, unless AgentSetState has written over it.
\* (RouteRegisterCancel never names the extension: BoundDevice.)
BindingFaithful ==
  \A i \in InvokeIDs :
    InFlight(i) /\ InvokeID2ActName[i] # "AgentSetState" =>
      IF wire[i].act \in Unbound
      THEN InvokeID2ActName[i] = Empty /\ InvokeID2DeviceID[i] = Empty
      ELSE InvokeID2ActName[i] = wire[i].act /\ InvokeID2DeviceID[i] = BoundDevice(wire[i])

\* An entry without a request under way is one of the operations that bind the
\* ID without a look at the return code (T 1586, 1625, 1750, 2191, 2554, 2583),
\* two of them without any confirmation to come (T 2527, 2617): the other fifteen
\* that bind never leave an entry that no confirmation will ever erase.
LeftoversAreLeaky ==
  \A i \in InvokeIDs :
    InvokeID2ActName[i] # Empty /\ ~InFlight(i) => InvokeID2ActName[i] \in LeakyActs

Kept(stamp, map, d, value, i) ==
  value # Keep => stamp[d] >= i /\ (stamp[d] = i => map[d] = value)

\* What the maps and their history say of request r, sent as number i.
KeptAll(r, i) ==
  /\ Kept(setBy.talk, DeviceID2TalkState, r.dev, r.talk, i)
  /\ Kept(setBy.call, DeviceID2CallID, r.dev, r.call, i)
  /\ Kept(setBy.mode, DeviceID2AgentMode, r.dev, r.mode, i)
  /\ r.act # "SingleStepConferenceCall" =>
       Kept(setBy.station, DeviceID2station, r.dev, r.station, i)

\* The per-device maps have one entry per extension, and a confirmation reads
\* them long after the request wrote them.  They still hold what the request
\* assigned unless a later operation on the extension has assigned them; no
\* older one can have.  (SingleStepConferenceCall assigns the station of the
\* checked device but its confirmation reads that of the joining one.)
LatestKept == \A i \in InvokeIDs : InFlight(i) => KeptAll(wire[i], i)

\* A confirmation is filed if its operation files at all: the name under which
\* the operation is bound is the one the case of its confirmation asks for.
\* (AgentTransferCall is the exception: it is confirmed as a reconnect, whose
\* case asks for another name, so a transfer is never filed.)
FilingActs == ActNames \ (Unbound \cup RouteActs \cup
                {"AgentClearConnection", "AgentSnapshotDevice", "AgentTransferCall"})
ConfirmationIsFiled ==
  \A i \in InvokeIDs :
    InFlight(i) /\ InvokeID2ActName[i] = wire[i].act /\ wire[i].act \in FilingActs
      => ConfirmedMes(i) # NoRecord

\* What is filed of a confirmation is about the request that was confirmed:
\* its operation and its extension and, unless a later operation on the
\* extension has assigned the maps since, its talk state, station, call and
\* agent mode.
Reports(rec, r, i) ==
  /\ rec.act = r.act /\ rec.dev = r.dev
  /\ r.talk # Keep /\ setBy.talk[r.dev] <= i => rec.talk = r.talk
  /\ r.call # Keep /\ setBy.call[r.dev] <= i => rec.call = r.call
  /\ r.mode # Keep /\ setBy.mode[r.dev] <= i => rec.mode = r.mode
  /\ r.station # Keep /\ r.act # "SingleStepConferenceCall"
       /\ setBy.station[r.dev] <= i => rec.station = r.station

RecordStep ==
  filed' # NoRecord /\ filed'.act # "AgentSetState" =>
    /\ InFlight(filed'.id) /\ wire'[filed'.id] = NoRequest
    /\ Reports(filed', wire[filed'.id], filed'.id)
RecordFaithful == [][RecordStep]_vars

\* An invoke ID is used for one request: while the request is unanswered no
\* other takes its ID, and IDs above the counter are unused.
FreshStep ==
  \A i \in InvokeIDs :
    /\ InFlight(i) => wire'[i] \in {wire[i], NoRequest}
    /\ ~InFlight(i) /\ InFlight(i)' => i > invokeID
IDsAreFresh == [][FreshStep]_vars

\* Every entry of an operation that binds after a look at the return code is
\* erased in the end, or the stream is not (or no longer) delivering answers.
BindingReleased ==
  \A i \in InvokeIDs :
    InvokeID2ActName[i] \notin LeakyActs \cup {Empty}
      ~> InvokeID2ActName[i] = Empty \/ stream # "open"

\* T 1745: "invokeID's are generated by the Application, using this invokeID
\* for checking the correct Agent State", and TSAPIInterface.h 147, which says
\* the map binds a request's ID and the extension of that request.
BindingStable ==
  \A i \in InvokeIDs :
    InFlight(i) /\ InvokeID2DeviceID[i] # Empty => InvokeID2DeviceID[i] = wire[i].dev

\* What each operation leaves for its own confirmation to report.
FieldsFit(r) ==
  /\ r.conf # "SET_AGENT_STATE" => r.mode = Keep
  /\ r.conf \in {"SET_AGENT_STATE", "QUERY_AGENT_STATE"} =>
       r.talk = Keep /\ r.station = Keep /\ r.call = Keep
  /\ r.conf = "QUERY_AGENT_STATE" => r.act = "QueryAgentStatus"
  /\ r.conf = "MAKE_CALL" => r.station = Keep /\ r.call = Keep
  /\ r.conf \in {"TRANSFER_CALL", "CONFERENCE_CALL", "CONSULTATION_CALL", "ESCAPE_SVC"} =>
       r.call = Keep

\* The state of one invoke ID: both maps have an entry or none has; nothing is
\* in use above the counter; without a request only the operations that bind
\* too eagerly leave an entry; and the entry of a request is its own.
EntryOK(i) ==
  LET act == InvokeID2ActName[i]
      dev == InvokeID2DeviceID[i]
  IN /\ act = Empty <=> dev = Empty
     /\ dev = AChar => act \in {"RouteRegisterCancel", "RouteEndInv"}
     /\ i > invokeID => act = Empty /\ ~InFlight(i)
     /\ act # Empty /\ ~InFlight(i) => act \in LeakyActs
     /\ InFlight(i) =>
          /\ i # 1 /\ FieldsFit(wire[i])
          /\ act # "AgentSetState" =>
               IF wire[i].act \in Unbound
               THEN act = Empty /\ dev = Empty
               ELSE act = wire[i].act /\ dev = BoundDevice(wire[i])

\* The inductive invariant of the proofs: it holds the safety properties above
\* together from any state, not only from those that TLC reaches.
Inductive ==
  /\ TypeOK
  /\ \A i \in InvokeIDs : EntryOK(i) /\ (InFlight(i) => KeptAll(wire[i], i))

\* Without AgentSetState the two maps keep their promise.
RC == INSTANCE RequestCorrelation WITH
        Device   <- Device \cup {AChar},
        Act      <- ActNames,
        last     <- invokeID,
        pending  <- [i \in InvokeIDs |->
                       IF InFlight(i) /\ InvokeID2ActName[i] # Empty
                       THEN [act |-> InvokeID2ActName[i], dev |-> InvokeID2DeviceID[i]]
                       ELSE [act |-> ""]],
        reported <- IF filed = NoRecord THEN [id |-> 0]
                    ELSE [id |-> filed.id, act |-> filed.act, dev |-> filed.dev]
Correlates == RC!Spec
=============================================================================

------------------------ MODULE TSAPIInterface_steps ------------------------
(***************************************************************************)
(* The action properties of TSAPIInterface, from its inductive invariant:  *)
(* an invoke ID is used for one request, and what is filed of an answer is *)
(* about the request that was answered.                                    *)
(***************************************************************************)
EXTENDS TSAPIInterface_proofs

\* The confirmation that TSAPI sends for the csta*() call of an operation is one
\* whose case asks for the name under which the operation binds its invoke ID.
FitsItsCase(r) ==
  r.act \in FilingActs =>
    \/ r.conf = "SET_AGENT_STATE" /\ r.act \in {"AgentLogin", "AgentLogout", "AgentSetState"}
    \/ r.conf = "ANSWER_CALL" /\ r.act = "AgentAnswerCall"
    \/ r.conf = "CLEAR_CONNECTION" /\ r.act = "AgentDisconnectCall"
    \/ r.conf = "MAKE_CALL" /\ r.act = "AgentMakeCall"
    \/ r.conf = "HOLD_CALL" /\ r.act = "AgentHoldCall"
    \/ r.conf = "RETRIEVE_CALL" /\ r.act = "AgentRetrieveCall"
    \/ r.conf = "DEFLECT_CALL" /\ r.act = "AgentDeflectCall"
    \/ r.conf = "PICKUP_CALL" /\ r.act = "AgentPickupCall"
    \/ r.conf = "CONFERENCE_CALL" /\ r.act = "AgentConferenceCall"
    \/ r.conf = "CONSULTATION_CALL" /\ r.act = "AgentConsultationCall"
    \/ r.conf = "RECONNECT_CALL" /\ r.act = "AgentReconnectCall"
    \/ r.conf = "QUERY_AGENT_STATE" /\ r.act = "QueryAgentStatus"
    \/ r.conf = "ESCAPE_SVC"
         /\ r.act \in {"SingleStepConferenceCall", "AgentSingleStepTransferCall"}

\* What a step of the dispatcher does to the requests under way: nothing, or
\* it sends one under the next invoke ID.  It files nothing.
SentStep ==
  /\ \/ UNCHANGED wire
     \/ \E req : FitsItsCase(req) /\ wire' = [wire EXCEPT ![NextID] = req]
  /\ filed' = NoRecord

-----------------------------------------------------------------------------
(* What the steps do to the requests under way and to what is filed. *)

\* Every operation of the dialog calls the csta*() function whose confirmation
\* files it (the calls of T 1551 to 2300 beside the cases of T 362 to 855).
LEMMA ReqFits ==
  ASSUME NEW act, NEW conf, NEW d, NEW talk, NEW station, NEW c,
         << act, conf >> \in
           { <<"AgentAnswerCall", "ANSWER_CALL">>, <<"AgentClearConnection", "CLEAR_CONNECTION">>,
             <<"AgentDisconnectCall", "CLEAR_CONNECTION">>, <<"AgentHoldCall", "HOLD_CALL">>,
             <<"AgentRetrieveCall", "RETRIEVE_CALL">>, <<"AgentDeflectCall", "DEFLECT_CALL">>,
             <<"AgentPickupCall", "PICKUP_CALL">>, <<"AgentReconnectCall", "RECONNECT_CALL">>,
             <<"AgentTransferCall", "RECONNECT_CALL">>, <<"AgentMakeCall", "MAKE_CALL">>,
             <<"AgentConferenceCall", "CONFERENCE_CALL">>,
             <<"AgentConsultationCall", "CONSULTATION_CALL">>,
             <<"SingleStepConferenceCall", "ESCAPE_SVC">>,
             <<"AgentSingleStepTransferCall", "ESCAPE_SVC">>,
             <<"QueryAgentStatus", "QUERY_AGENT_STATE">>,
             <<"AgentSnapshotDevice", "SNAPSHOT_DEVICE">>,
             <<"StartMonitor", "MONITOR">>, <<"StopMonitor", "MONITOR_STOP">>,
             <<"RouteRegister", "ROUTE_REGISTER_REQ">>,
             <<"RouteRegisterCancel", "ROUTE_REGISTER_CANCEL">> }
  PROVE  FitsItsCase(Req(act, conf, d, talk, station, c))
<1>. DEFINE r == Req(act, conf, d, talk, station, c)
<1>1. r.act = act /\ r.conf = conf
  BY DEF Req
<1>. QED  BY <1>1 DEF FitsItsCase, FilingActs, Unbound, RouteActs

\* So do login, logout and the new agent state.
LEMMA AgentReqFits ==
  ASSUME NEW act \in {"AgentLogin", "AgentLogout", "AgentSetState"},
         NEW d, NEW mode, NEW work, NEW a
  PROVE  FitsItsCase(AgentReq(act, d, mode, work, a))
<1>. DEFINE r == AgentReq(act, d, mode, work, a)
<1>1. r.act = act /\ r.conf = "SET_AGENT_STATE"
  BY DEF AgentReq
<1>. QED  BY <1>1 DEF FitsItsCase

\* A call of the library sends under the next ID and files nothing.
LEMMA InvokeSends ==
  ASSUME NEW req, NEW rc, Invoke(req, rc), FitsItsCase(req), filed' = NoRecord
  PROVE  SentStep
BY DEF Invoke, SentStep

\* So does an operation that binds the ID if the library has accepted it.
LEMMA SendOnSends ==
  ASSUME NEW req, NEW stationDev, SendOn(req, stationDev), FitsItsCase(req)
  PROVE  SentStep
<1>1. PICK rc \in Returns : Invoke(req, rc)
  BY DEF SendOn
<1>2. filed' = NoRecord
  BY DEF SendOn
<1>. QED  BY <1>1, <1>2, InvokeSends

\* Private data that are refused send nothing.
LEMMA PrivateDataRefusedSends ==
  ASSUME NEW act, PrivateDataRefused(act)
  PROVE  SentStep
BY DEF PrivateDataRefused, SentStep

\* A monitor request sends under the next ID and binds nothing.
LEMMA SendUnboundSends ==
  ASSUME NEW req, SendUnbound(req), FitsItsCase(req)
  PROVE  SentStep
<1>1. PICK rc \in Returns : Invoke(req, rc)
  BY DEF SendUnbound
<1>2. filed' = NoRecord
  BY DEF SendUnbound
<1>. QED  BY <1>1, <1>2, InvokeSends

\* A new agent state sends at most one request.
LEMMA SendSetStateSends ==
  ASSUME NEW d, NEW a, NEW mode, NEW work, NEW rc, NEW outer,
         SendSetState(d, a, mode, work, rc, outer), filed' = NoRecord
  PROVE  SentStep
<1>1. CASE RequestSetState(d, a, mode, work, outer)
  <2>1. PICK r \in Returns : Invoke(AgentReq("AgentSetState", d, mode, work, a), r)
    BY <1>1 DEF RequestSetState
  <2>. QED  BY <2>1, InvokeSends, AgentReqFits
<1>2. CASE UNCHANGED wire
  BY <1>2 DEF SentStep
<1>. QED  BY <1>1, <1>2 DEF SendSetState

\* Login and logout send at most one request.
LEMMA LoginSends ==
  ASSUME NEW d, NEW a, NEW work, AgentLogin(d, a, work) \/ AgentLogout(d)
  PROVE  SentStep
<1>1. CASE PrivateDataRefused("AgentLogin")
  BY <1>1, PrivateDataRefusedSends
<1>2. CASE \E req, rc : FitsItsCase(req) /\ SetAgentLogin(req, rc)
  <2>1. PICK req, rc : FitsItsCase(req) /\ Invoke(req, rc) /\ filed' = NoRecord
    BY <1>2 DEF SetAgentLogin
  <2>. QED  BY <2>1, InvokeSends
<1>. QED  BY <1>1, <1>2, AgentReqFits DEF AgentLogin, AgentLogout

\* Set state sends at most one request before its message box.
LEMMA AgentSetStateSends ==
  ASSUME NEW d, NEW a, NEW mode, NEW work, NEW enablePending,
         AgentSetState(d, a, mode, work, enablePending)
  PROVE  SentStep
<1>1. filed' = NoRecord
  BY DEF AgentSetState
<1>2. CASE SendSetState(d, a, mode, work, IF enablePending THEN "ack" ELSE retCode, modal)
  BY <1>1, <1>2, SendSetStateSends
<1>3. CASE UNCHANGED wire
  BY <1>1, <1>3 DEF SentStep
<1>. QED  BY <1>2, <1>3 DEF AgentSetState

\* A transfer sends one request under the next ID.
LEMMA TransferSends ==
  ASSUME NEW d, AgentTransferCall(d)
  PROVE  SentStep
<1>1. PICK rc \in Returns :
        Invoke(Req("AgentTransferCall", "RECONNECT_CALL", d, "csNull", "transfer", Keep), rc)
  BY DEF AgentTransferCall
<1>2. filed' = NoRecord
  BY DEF AgentTransferCall
<1>. QED  BY <1>1, <1>2, InvokeSends, ReqFits

\* The buttons of routing send one request under the next ID.
LEMMA RoutingButtonsSend ==
  ASSUME RoutingButtons
  PROVE  SentStep
<1>1. ASSUME NEW req, SendEager(req), FitsItsCase(req)
      PROVE  SentStep
  <2>1. PICK rc \in Returns : Invoke(req, rc)
    BY <1>1 DEF SendEager
  <2>2. filed' = NoRecord
    BY <1>1 DEF SendEager
  <2>. QED  BY <1>1, <2>1, <2>2, InvokeSends
<1>. QED  BY <1>1, ReqFits DEF RoutingButtons, RouteRegister, RouteRegisterCancel

\* Every operation sends at most one request.
LEMMA OperationSends ==
  ASSUME NEW d,
         \/ \E c \in Call : \/ AgentAnswerCall(d, c)     \/ AgentClearConnection(d, c)
                            \/ AgentDisconnectCall(d, c) \/ AgentHoldCall(d, c)
                            \/ AgentRetrieveCall(d, c)   \/ AgentDeflectCall(d, c)
                            \/ AgentPickupCall(d, c)     \/ AgentReconnectCall(d, c)
         \/ AgentMakeCall(d) \/ AgentConferenceCall(d) \/ AgentConsultationCall(d)
         \/ SingleStepTransferCall(d) \/ \E e \in Device : SingleStepConferenceCall(e, d)
         \/ QueryAgentStatus(d) \/ SnapshotDevice(d) \/ StartMonitor(d) \/ StopMonitor(d)
  PROVE  SentStep
<1>1. CASE \E req, stationDev : FitsItsCase(req) /\ SendOn(req, stationDev)
  BY <1>1, SendOnSends
<1>2. CASE \E act : PrivateDataRefused(act)
  BY <1>2, PrivateDataRefusedSends
<1>3. CASE \E req : FitsItsCase(req) /\ SendUnbound(req)
  BY <1>3, SendUnboundSends
<1>4. CASE \E c \in Call : \/ AgentAnswerCall(d, c)     \/ AgentClearConnection(d, c)
                           \/ AgentDisconnectCall(d, c) \/ AgentHoldCall(d, c)
                           \/ AgentRetrieveCall(d, c)   \/ AgentDeflectCall(d, c)
                           \/ AgentPickupCall(d, c)     \/ AgentReconnectCall(d, c)
  BY <1>1, <1>4, ReqFits DEF Send, AgentAnswerCall, AgentClearConnection, AgentDisconnectCall,
     AgentHoldCall, AgentRetrieveCall, AgentDeflectCall, AgentPickupCall, AgentReconnectCall
<1>5. CASE \/ AgentMakeCall(d) \/ AgentConferenceCall(d) \/ AgentConsultationCall(d)
           \/ QueryAgentStatus(d) \/ SnapshotDevice(d)
  BY <1>1, <1>5, ReqFits DEF Send, AgentMakeCall, AgentConferenceCall, AgentConsultationCall,
     QueryAgentStatus, SnapshotDevice
<1>6. CASE SingleStepTransferCall(d) \/ \E e \in Device : SingleStepConferenceCall(e, d)
  BY <1>1, <1>2, <1>6, ReqFits DEF Send, SingleStepTransferCall, SingleStepConferenceCall
<1>7. CASE StartMonitor(d) \/ StopMonitor(d)
  BY <1>3, <1>7, ReqFits DEF StartMonitor, StopMonitor
<1>. QED  BY <1>4, <1>5, <1>6, <1>7

\* So does every message of the dispatcher.
LEMMA DispatchSends ==
  ASSUME SelectTSAPIInterface
  PROVE  SentStep
BY LoginSends, AgentSetStateSends, TransferSends, OperationSends DEF SelectTSAPIInterface

\* What follows a closed message box sends nothing, or one request.
LEMMA CloseMessageBoxSends ==
  ASSUME CloseMessageBox
  PROVE  SentStep
<1>. DEFINE f     == modal[Len(modal)]
            outer == SubSeq(modal, 1, Len(modal) - 1)
<1>1. filed' = NoRecord
  BY DEF CloseMessageBox
<1>2. CASE SendSetState(f.dev, f.agent, f.mode, f.work, retCode, outer)
  BY <1>1, <1>2, SendSetStateSends
<1>3. CASE UNCHANGED wire
  BY <1>1, <1>3 DEF SentStep
<1>. QED  BY <1>2, <1>3 DEF CloseMessageBox

\* A step sends, or answers one request, of which only a confirmation files.
LEMMA StepKinds ==
  ASSUME Next
  PROVE  \/ SentStep
         \/ \E i \in InvokeIDs : HandleCSTAConfirmation(i) \/ UniversalFailureConf(i)
<1>1. CASE OpenStream \/ CloseStream \/ BadNumber
  BY <1>1 DEF OpenStream, CloseStream, BadNumber, SentStep
<1>2. CASE \/ HandleACSConfirmation \/ OtherEvent \/ ReceiveError
           \/ \E i \in InvokeIDs : SnapshotOfIdleDevice(i)
  BY <1>2 DEF HandleACSConfirmation, OtherEvent, ReceiveError, SnapshotOfIdleDevice, SentStep
<1>3. CASE \/ \E d \in Device : RouteRequestExtEvent(d)
           \/ ConnectionCleared \/ RoutingThrows
  BY <1>3 DEF RouteRequestExtEvent, ConnectionCleared, RouteInv, RoutingThrows, SentStep
<1>. QED  BY <1>1, <1>2, <1>3, DispatchSends, RoutingButtonsSend, CloseMessageBoxSends
          DEF Next, TSAPIMessageHandler

-----------------------------------------------------------------------------
(* Invoke IDs. *)

\* Nothing is in use above the counter, so that a sent request has an ID of its own.
LEMMA SentIsFresh ==
  ASSUME Inductive, SentStep
  PROVE  FreshStep
<1>1. TypeOK /\ invokeID \in Nat /\ NextID > invokeID
  BY DEF Inductive, TypeOK, InvokeIDs, NextID
<1>2. CASE UNCHANGED wire
  BY <1>2 DEF FreshStep, InFlight
<1>3. CASE \E req : wire' = [wire EXCEPT ![NextID] = req]
  <2>1. PICK req : wire' = [wire EXCEPT ![NextID] = req]
    BY <1>3
  <2>2. SUFFICES ASSUME NEW i \in InvokeIDs
                 PROVE  /\ InFlight(i) => wire'[i] \in {wire[i], NoRequest}
                        /\ ~InFlight(i) /\ InFlight(i)' => i > invokeID
    BY DEF FreshStep
  <2>3. CASE i = NextID
    <3>1. ~InFlight(i)
      BY <1>1, <2>3 DEF Inductive, EntryOK
    <3>. QED  BY <1>1, <2>3, <3>1
  <2>4. CASE i # NextID
    <3>1. wire'[i] = wire[i]
      BY <1>1, <2>1, <2>4 DEF TypeOK
    <3>. QED  BY <3>1 DEF InFlight
  <2>. QED  BY <2>3, <2>4
<1>. QED  BY <1>2, <1>3 DEF SentStep

\* An answer takes a request away and gives out no ID.
LEMMA AnswerIsFresh ==
  ASSUME Inductive, NEW k \in InvokeIDs, HandleCSTAConfirmation(k) \/ UniversalFailureConf(k)
  PROVE  FreshStep
<1>1. wire' = [wire EXCEPT ![k] = NoRequest]
  BY DEF HandleCSTAConfirmation, UniversalFailureConf, Answered
<1>2. \A i \in InvokeIDs : wire'[i] = IF i = k THEN NoRequest ELSE wire[i]
  BY <1>1 DEF Inductive, TypeOK
<1>. QED  BY <1>2 DEF FreshStep, InFlight

\* ++m_ulInvokeID (T 1573 and the other requests) never takes an ID that an
\* unanswered request has, and no unanswered request changes under its ID.
THEOREM FreshIDs == Spec => IDsAreFresh
<1>1. Inductive /\ [Next]_vars => [FreshStep]_vars
  <2>. SUFFICES ASSUME Inductive, Next  PROVE FreshStep
    OBVIOUS
  <2>. QED  BY StepKinds, SentIsFresh, AnswerIsFresh
<1>. QED  BY <1>1, InductiveInvariant, PTL DEF Spec, IDsAreFresh

-----------------------------------------------------------------------------
(* What is filed. *)

\* A record whose fields are the entries of the maps reports the request, as far
\* as no later operation has assigned them.
LEMMA EntriesReport ==
  ASSUME TypeOK, NEW r \in Request, NEW i \in InvokeIDs, NEW rec, KeptAll(r, i),
         rec.act = r.act, rec.dev = r.dev,
         r.talk # Keep => rec.talk = DeviceID2TalkState[r.dev],
         r.call # Keep => rec.call = DeviceID2CallID[r.dev],
         r.mode # Keep => rec.mode = DeviceID2AgentMode[r.dev],
         r.station # Keep => rec.station = DeviceID2station[r.dev]
  PROVE  Reports(rec, r, i)
<1>1. /\ r.dev \in Device /\ i \in Nat
      /\ setBy.talk[r.dev] \in Nat /\ setBy.call[r.dev] \in Nat
      /\ setBy.mode[r.dev] \in Nat /\ setBy.station[r.dev] \in Nat
  BY DEF TypeOK, Stamps, Request, InvokeIDs
<1>. QED  BY <1>1 DEF KeptAll, Kept, Reports

\* The fields of the record the handler builds.
LEMMA MesFields ==
  ASSUME NEW i, NEW tables, NEW mode, NEW c, NEW talk, NEW station
  PROVE  LET rec == Mes(i, tables, mode, c, talk, station)
         IN /\ rec.id = i /\ rec.act = InvokeID2ActName[i] /\ rec.dev = InvokeID2DeviceID[i]
            /\ rec.mode = mode /\ rec.call = c /\ rec.talk = talk /\ rec.station = station
BY DEF Mes

\* The entry of a request under way names its operation and its extension, unless
\* AgentSetState has written over it or the request is one of routing.
LEMMA OwnEntry ==
  ASSUME Inductive, NEW i \in InvokeIDs, InFlight(i),
         InvokeID2ActName[i] \notin {Empty, "AgentSetState"} \cup RouteActs
  PROVE  InvokeID2ActName[i] = wire[i].act /\ InvokeID2DeviceID[i] = wire[i].dev
<1>1. EntryOK(i)
  BY DEF Inductive
<1>. QED  BY <1>1 DEF EntryOK, BoundDevice, RouteActs

\* What a confirmation files is what the request it answers was about, but for
\* AgentSetState (T 328 to 850).
LEMMA ConfirmedReports ==
  ASSUME Inductive, NEW i \in InvokeIDs, InFlight(i), ConfirmedMes(i) # NoRecord,
         ConfirmedMes(i).act # "AgentSetState"
  PROVE  ConfirmedMes(i).id = i /\ Reports(ConfirmedMes(i), wire[i], i)
<1>. DEFINE act == InvokeID2ActName[i]
            d   == InvokeID2DeviceID[i]
            r   == wire[i]
            rec == ConfirmedMes(i)
<1>1. TypeOK /\ EntryOK(i) /\ KeptAll(r, i) /\ FieldsFit(r) /\ r \in Request
  BY DEF Inductive, EntryOK, InFlight, TypeOK
<1>2. /\ rec.id = i /\ rec.act = act /\ rec.dev = d /\ act \notin {Empty} \cup RouteActs
      /\ r.talk # Keep => rec.talk = DeviceID2TalkState[d]
      /\ r.call # Keep => rec.call = DeviceID2CallID[d]
      /\ r.mode # Keep => rec.mode = DeviceID2AgentMode[d]
      /\ r.station # Keep => rec.station = DeviceID2station[d]
  <2>. DEFINE Fits(x) ==
         /\ x.id = i /\ x.act = act /\ x.dev = d /\ act \notin {Empty} \cup RouteActs
         /\ r.talk # Keep => x.talk = DeviceID2TalkState[d]
         /\ r.call # Keep => x.call = DeviceID2CallID[d]
         /\ r.mode # Keep => x.mode = DeviceID2AgentMode[d]
         /\ r.station # Keep => x.station = DeviceID2station[d]
  <2>1. ASSUME r.conf = "SET_AGENT_STATE", SetAgentStateConf(i) # NoRecord
        PROVE  Fits(SetAgentStateConf(i))
    <3>1. /\ SetAgentStateConf(i)
               = Mes(i, {"Agentsate"}, DeviceID2AgentMode[d], Empty, Empty, Empty)
          /\ act \in {"AgentLogin", "AgentLogout", "AgentSetState"}
      BY <2>1 DEF SetAgentStateConf, FiledIf
    <3>2. r.talk = Keep /\ r.station = Keep /\ r.call = Keep /\ act \notin {Empty} \cup RouteActs
      BY <1>1, <2>1, <3>1 DEF FieldsFit, Empty, RouteActs
    <3>. QED  BY <3>1, <3>2, MesFields
  <2>2. ASSUME NEW name \in ActNames \ RouteActs, CallConf(i, name) # NoRecord, r.conf # "SET_AGENT_STATE"
        PROVE  Fits(CallConf(i, name))
    <3>1. /\ CallConf(i, name) = Mes(i, {"Stationstate", "Callstate"}, Empty, DeviceID2CallID[d],
                                     DeviceID2TalkState[d], DeviceID2station[d])
          /\ act = name
      BY <2>2 DEF CallConf, FiledIf
    <3>2. r.mode = Keep /\ act \notin {Empty} \cup RouteActs
      BY <1>1, <2>2, <3>1 DEF FieldsFit, Empty, ActNames
    <3>. QED  BY <3>1, <3>2, MesFields
  <2>3. ASSUME NEW names \in SUBSET (ActNames \ RouteActs), NewCallConf(i, names) # NoRecord,
               r.conf \in {"TRANSFER_CALL", "CONFERENCE_CALL", "CONSULTATION_CALL", "ESCAPE_SVC"}
        PROVE  Fits(NewCallConf(i, names))
    <3>1. /\ NewCallConf(i, names) = Mes(i, {"Stationstate", "Callstate"}, Empty, "reported",
                                         DeviceID2TalkState[d], DeviceID2station[d])
          /\ act \in names
      BY <2>3 DEF NewCallConf, FiledIf
    <3>2. r.mode = Keep /\ r.call = Keep /\ act \notin {Empty} \cup RouteActs
      BY <1>1, <2>3, <3>1 DEF FieldsFit, Empty, ActNames
    <3>. QED  BY <3>1, <3>2, MesFields
  <2>4. ASSUME r.conf = "MAKE_CALL", MakeCallConf(i) # NoRecord
        PROVE  Fits(MakeCallConf(i))
    <3>1. /\ MakeCallConf(i) = Mes(i, {"Stationstate"}, Empty, Empty, DeviceID2TalkState[d], Empty)
          /\ act = "AgentMakeCall"
      BY <2>4 DEF MakeCallConf, FiledIf
    <3>2. r.mode = Keep /\ r.call = Keep /\ r.station = Keep /\ act \notin {Empty} \cup RouteActs
      BY <1>1, <2>4, <3>1 DEF FieldsFit, Empty, RouteActs
    <3>. QED  BY <3>1, <3>2, MesFields
  <2>5. ASSUME r.conf = "QUERY_AGENT_STATE"
        PROVE  Fits(QueryAgentStateConf(i))
    <3>1. /\ r.mode = Keep /\ r.call = Keep /\ r.station = Keep /\ r.talk = Keep
          /\ r.act = "QueryAgentStatus"
      BY <1>1, <2>5 DEF FieldsFit
    <3>2. act \notin {Empty} \cup RouteActs
      BY <1>1, <3>1 DEF EntryOK, Unbound, Empty, RouteActs
    <3>. QED  BY <3>1, <3>2, MesFields DEF QueryAgentStateConf
  <2>. HIDE DEF Fits
  <2>6. Fits(rec)
    <3>1. /\ \A name \in ActNames \ RouteActs : CallConf(i, name) # NoRecord /\ r.conf # "SET_AGENT_STATE"
                                      => Fits(CallConf(i, name))
          /\ \A names \in SUBSET (ActNames \ RouteActs) :
               NewCallConf(i, names) # NoRecord
                 /\ r.conf \in {"TRANSFER_CALL", "CONFERENCE_CALL", "CONSULTATION_CALL", "ESCAPE_SVC"}
                 => Fits(NewCallConf(i, names))
      BY <2>2, <2>3
    <3>2. /\ {"AgentAnswerCall", "AgentDisconnectCall", "AgentHoldCall", "AgentRetrieveCall",
              "AgentDeflectCall", "AgentPickupCall", "AgentReconnectCall"} \subseteq ActNames \ RouteActs
          /\ {"AgentTransferCall"} \in SUBSET (ActNames \ RouteActs)
          /\ {"AgentConferenceCall"} \in SUBSET (ActNames \ RouteActs)
          /\ {"AgentConsultationCall"} \in SUBSET (ActNames \ RouteActs)
          /\ {"SingleStepConferenceCall", "AgentSingleStepTransferCall"} \in SUBSET (ActNames \ RouteActs)
      BY DEF ActNames, RouteActs
    <3>. QED  BY <2>1, <2>4, <2>5, <3>1, <3>2 DEF ConfirmedMes
  <2>. QED  BY <2>6 DEF Fits
<1>3. act = r.act /\ d = r.dev
  BY <1>2, OwnEntry
<1>. QED  BY <1>1, <1>2, <1>3, EntriesReport

\* What HandleCSTAConfirmation files (T 362 to 855) is about the request that was
\* confirmed, in whatever order requests and confirmations come, unless the
\* operation filed is AgentSetState.
THEOREM RecordsFaithful == Spec => RecordFaithful
<1>1. Inductive /\ [Next]_vars => [RecordStep]_vars
  <2>. SUFFICES ASSUME Inductive, Next, filed' # NoRecord, filed'.act # "AgentSetState"
                PROVE  /\ InFlight(filed'.id) /\ wire'[filed'.id] = NoRequest
                       /\ Reports(filed', wire[filed'.id], filed'.id)
    BY DEF RecordStep
  <2>1. PICK i \in InvokeIDs : HandleCSTAConfirmation(i)
    BY StepKinds DEF SentStep, UniversalFailureConf
  <2>2. InFlight(i) /\ wire' = [wire EXCEPT ![i] = NoRequest] /\ filed' = ConfirmedMes(i)
    BY <2>1 DEF HandleCSTAConfirmation, Answered
  <2>3. filed'.id = i /\ Reports(filed', wire[i], i)
    BY <2>2, ConfirmedReports
  <2>4. wire'[i] = NoRequest
    BY <2>2 DEF Inductive, TypeOK
  <2>. QED  BY <2>2, <2>3, <2>4
<1>. QED  BY <1>1, InductiveInvariant, PTL DEF Spec, RecordFaithful

-----------------------------------------------------------------------------
(* Which confirmations are filed. *)

\* Every request under way will be confirmed in the case made for it.
AllFit == \A i \in InvokeIDs : InFlight(i) => FitsItsCase(wire[i])

\* A record that the handler builds is not the empty one.
LEMMA MesIsFiled ==
  ASSUME NEW i, NEW tables, tables # {}, NEW mode, NEW c, NEW talk, NEW station
  PROVE  Mes(i, tables, mode, c, talk, station) # NoRecord
<1>1. Mes(i, tables, mode, c, talk, station).tables = tables
  BY DEF Mes
<1>2. NoRecord.tables = {}
  BY DEF NoRecord
<1>. QED  BY <1>1, <1>2

\* The case of the confirmation (T 362 to 855) finds the name it asks for.
LEMMA FittingIsFiled ==
  ASSUME NEW i \in InvokeIDs, FitsItsCase(wire[i]), wire[i].act \in FilingActs,
         InvokeID2ActName[i] = wire[i].act
  PROVE  ConfirmedMes(i) # NoRecord
<1>. DEFINE d == InvokeID2DeviceID[i]
<1>1. ASSUME NEW names, NEW mes, wire[i].act \in names
      PROVE  FiledIf(i, names, mes) = mes
  BY <1>1 DEF FiledIf
<1>2. ASSUME wire[i].act \in {"AgentLogin", "AgentLogout", "AgentSetState"}
      PROVE  SetAgentStateConf(i) # NoRecord
  BY <1>1, <1>2, MesIsFiled DEF SetAgentStateConf
<1>3. ASSUME NEW name, wire[i].act = name
      PROVE  CallConf(i, name) # NoRecord
  BY <1>1, <1>3, MesIsFiled DEF CallConf
<1>4. ASSUME NEW names, wire[i].act \in names
      PROVE  NewCallConf(i, names) # NoRecord
  BY <1>1, <1>4, MesIsFiled DEF NewCallConf
<1>5. ASSUME wire[i].act = "AgentMakeCall"
      PROVE  MakeCallConf(i) # NoRecord
  BY <1>1, <1>5, MesIsFiled DEF MakeCallConf
<1>6. QueryAgentStateConf(i) # NoRecord
  BY MesIsFiled DEF QueryAgentStateConf
<1>. QED  BY <1>2, <1>3, <1>4, <1>5, <1>6 DEF FitsItsCase, ConfirmedMes

\* A step sends a request that fits, or none, and an answer takes one away.
LEMMA AllFitStep ==
  ASSUME Inductive, AllFit, Next
  PROVE  AllFit'
<1>1. TypeOK
  BY DEF Inductive
<1>2. CASE UNCHANGED wire
  BY <1>2 DEF AllFit, InFlight
<1>3. CASE \E req : FitsItsCase(req) /\ wire' = [wire EXCEPT ![NextID] = req]
  <2>1. PICK req : FitsItsCase(req) /\ wire' = [wire EXCEPT ![NextID] = req]
    BY <1>3
  <2>2. \A i \in InvokeIDs : wire'[i] = IF i = NextID THEN req ELSE wire[i]
    BY <1>1, <2>1 DEF TypeOK
  <2>. QED  BY <2>1, <2>2 DEF AllFit, InFlight
<1>4. CASE \E k \in InvokeIDs : wire' = [wire EXCEPT ![k] = NoRequest]
  <2>1. PICK k \in InvokeIDs : wire' = [wire EXCEPT ![k] = NoRequest]
    BY <1>4
  <2>2. \A i \in InvokeIDs : wire'[i] = IF i = k THEN NoRequest ELSE wire[i]
    BY <1>1, <2>1 DEF TypeOK
  <2>. QED  BY <2>2 DEF AllFit, InFlight
<1>. QED  BY <1>2, <1>3, <1>4, StepKinds
          DEF SentStep, HandleCSTAConfirmation, UniversalFailureConf, Answered

\* HandleCSTAConfirmation (T 362 to 855) files the confirmation of every operation
\* that has a case of its own, whatever the operation, the extension and the order
\* of the answers: the name asked for there is the one bound in the request.
THEOREM Filed == Spec => []ConfirmationIsFiled
<1>1. Init => AllFit
  BY DEF Init, AllFit, InFlight
<1>2. Inductive /\ AllFit /\ [Next]_vars => AllFit'
  <2>1. CASE UNCHANGED vars
    BY <2>1 DEF vars, AllFit, InFlight
  <2>. QED  BY <2>1, AllFitStep
<1>3. AllFit => ConfirmationIsFiled
  BY FittingIsFiled DEF AllFit, ConfirmationIsFiled
<1>. QED  BY <1>1, <1>2, <1>3, InductiveInvariant, PTL DEF Spec

-----------------------------------------------------------------------------
(* The maps keep the promise of RequestCorrelation, as long as nobody asks *)
(* for a new agent state: AgentSetState binds the ID in use, not the one   *)
(* it has just taken.                                                      *)

\* What the maps say of one invoke ID, and what was reported of the last answer:
\* the terms by which RC replaces pending and reported.
Entry(i) ==
  IF InFlight(i) /\ InvokeID2ActName[i] # Empty
  THEN [act |-> InvokeID2ActName[i], dev |-> InvokeID2DeviceID[i]]
  ELSE [act |-> ""]
Entries == [i \in InvokeIDs |-> Entry(i)]
Reported ==
  IF filed = NoRecord THEN [id |-> 0]
  ELSE [id |-> filed.id, act |-> filed.act, dev |-> filed.dev]

\* The five steps of the abstraction, in these terms.
AbstractStep ==
  LET taken == invokeID < MaxInvokeID /\ invokeID' = invokeID + 1 /\ Reported' = [id |-> 0]
  IN \/ \E m \in [act : ActNames, dev : Device \cup {AChar}] :
          taken /\ Entries' = [Entries EXCEPT ![invokeID + 1] = m]
     \/ taken /\ Entries' = Entries
     \/ \E i \in InvokeIDs :
          /\ Entry(i) # [act |-> ""]
          /\ Entries' = [Entries EXCEPT ![i] = [act |-> ""]]
          /\ Reported' \in { [id |-> 0],
                             [id |-> i, act |-> Entry(i).act, dev |-> Entry(i).dev] }
          /\ invokeID' = invokeID
     \/ Reported' = [id |-> 0] /\ invokeID' = invokeID /\ Entries' = Entries

\* The initial states are initial states of the abstraction: nothing is under way.
LEMMA InitCorrelates == Init => RC!Init
BY DEF Init, RC!Init, RC!None, RC!NoReport, RC!InvokeIDs, InvokeIDs, InFlight

\* AbstractStep is the next-state relation of the abstraction.
LEMMA AbstractSteps == AbstractStep => RC!Next
BY DEF AbstractStep, Entries, Entry, Reported, RC!Next, RC!Submit, RC!Refuse, RC!Complete,
   RC!Ignore, RC!TakeID, RC!Meaning, RC!None, RC!NoReport, RC!InvokeIDs, InvokeIDs

\* What the inductive invariant says of one invoke ID.
LEMMA EntryFacts ==
  ASSUME Inductive
  PROVE  /\ invokeID \in Nat /\ invokeID \in InvokeIDs
         /\ NextID \in InvokeIDs => Entry(NextID) = [act |-> ""]
         /\ NextID \in InvokeIDs => InvokeID2ActName[NextID] = Empty
         /\ DOMAIN wire = InvokeIDs
         /\ DOMAIN InvokeID2ActName = InvokeIDs /\ DOMAIN InvokeID2DeviceID = InvokeIDs
<1>1. TypeOK /\ \A i \in InvokeIDs : EntryOK(i)
  BY DEF Inductive
<1>2. invokeID \in Nat /\ NextID > invokeID
  BY <1>1 DEF TypeOK, InvokeIDs, NextID
<1>. QED  BY <1>1, <1>2 DEF TypeOK, EntryOK, Entry

\* A step that leaves the counter, the requests and the two maps alone, or erases
\* entries of an ID without a request, is an answer nobody asked to keep apart.
LEMMA QuietCorrelates ==
  ASSUME filed' = NoRecord, invokeID' = invokeID, \A i \in InvokeIDs : Entry(i)' = Entry(i)
  PROVE  AbstractStep
BY DEF AbstractStep, Entries, Reported, InvokeIDs

\* A csta*() call takes the next ID.  The request stands for its operation and its
\* extension if it was accepted and bound (T 1782), and for nothing if it was not.
LEMMA InvokeCorrelates ==
  ASSUME Inductive, NEW req, req.act \in ActNames, NEW d \in Device \cup {AChar}, NEW rc,
         Invoke(req, rc), Bind(NextID, req.act, d) \/ UNCHANGED maps, filed' = NoRecord
  PROVE  AbstractStep
<1>. DEFINE m == [act |-> req.act, dev |-> d]
<1>1. NextID \in InvokeIDs /\ invokeID < MaxInvokeID
  <2>1. NextID <= MaxInvokeID
    BY DEF Invoke
  <2>2. invokeID \in Nat
    BY EntryFacts
  <2>. QED  BY <2>1, <2>2, BoundsAssumption DEF NextID, InvokeIDs
<1>2. PICK n \in InvokeIDs : n = NextID
  BY <1>1
<1>3. /\ invokeID' = invokeID + 1 /\ Reported' = [id |-> 0] /\ n = invokeID + 1
      /\ wire' \in {wire, [wire EXCEPT ![n] = req]}
      /\ Bind(n, req.act, d) \/ UNCHANGED maps
  BY <1>2 DEF Reported, Invoke, NextID
<1>4. Entry(n) = [act |-> ""] /\ InvokeID2ActName[n] = Empty
  BY <1>1, <1>2, EntryFacts
<1>5. \A i \in InvokeIDs : i # n => Entry(i)' = Entry(i)
  <2>. SUFFICES ASSUME NEW i \in InvokeIDs, i # n
                PROVE  Entry(i)' = Entry(i)
    OBVIOUS
  <2>1. wire'[i] = wire[i]
    BY <1>3, EntryFacts
  <2>2. /\ InvokeID2ActName'[i] = InvokeID2ActName[i]
        /\ InvokeID2DeviceID'[i] = InvokeID2DeviceID[i]
    BY <1>3, EntryFacts DEF Bind, maps
  <2>. QED  BY <2>1, <2>2 DEF Entry, InFlight
<1>6. Entry(n)' \in {m, [act |-> ""]}
  <2>1. CASE UNCHANGED maps
    <3>1. InvokeID2ActName'[n] = Empty
      BY <1>4, <2>1 DEF maps
    <3>. QED  BY <3>1 DEF Entry
  <2>2. CASE Bind(n, req.act, d)
    <3>1. InvokeID2ActName'[n] = req.act /\ InvokeID2DeviceID'[n] = d
      BY <2>2, EntryFacts DEF Bind
    <3>. QED  BY <3>1 DEF Entry
  <2>. QED  BY <1>3, <2>1, <2>2
<1>7. CASE Entry(n)' = m
  <2>1. Entries' = [Entries EXCEPT ![n] = m]
    BY <1>5, <1>7 DEF Entries, InvokeIDs
  <2>2. m \in [act : ActNames, dev : Device \cup {AChar}]
    OBVIOUS
  <2>. QED  BY <1>1, <1>3, <2>1, <2>2 DEF AbstractStep
<1>8. CASE Entry(n)' = [act |-> ""]
  <2>1. \A i \in InvokeIDs : Entry(i)' = Entry(i)
    BY <1>4, <1>5, <1>8
  <2>2. Entries' = Entries
    BY <2>1 DEF Entries, InvokeIDs
  <2>. QED  BY <1>1, <1>3, <2>2 DEF AbstractStep
<1>. QED  BY <1>6, <1>7, <1>8

\* An operation that binds the ID if the library has accepted the request, one
\* that binds none, and private data that are refused.
LEMMA SendCorrelates ==
  ASSUME Inductive, NEW req, req.act \in ActNames, req.dev \in Device, NEW stationDev,
         SendOn(req, stationDev) \/ SendUnbound(req) \/ PrivateDataRefused(req.act)
  PROVE  AbstractStep
<1>1. CASE SendOn(req, stationDev)
  <2>1. PICK rc \in Returns :
          Invoke(req, rc) /\ (Bind(NextID, req.act, req.dev) \/ UNCHANGED maps)
    BY <1>1 DEF SendOn
  <2>2. filed' = NoRecord
    BY <1>1 DEF SendOn
  <2>. QED  BY <2>1, <2>2, InvokeCorrelates
<1>2. CASE SendUnbound(req)
  <2>1. PICK rc \in Returns : Invoke(req, rc)
    BY <1>2 DEF SendUnbound
  <2>2. UNCHANGED maps /\ filed' = NoRecord
    BY <1>2 DEF SendUnbound
  <2>. QED  BY <2>1, <2>2, InvokeCorrelates
<1>3. CASE PrivateDataRefused(req.act)
  BY <1>3, QuietCorrelates DEF PrivateDataRefused, Entry, InFlight, maps
<1>. QED  BY <1>1, <1>2, <1>3

\* Login, logout and the transfer bind the ID before they look at the return code:
\* the entry of a refused request stands for nothing all the same.
LEMMA EagerCorrelates ==
  ASSUME Inductive, NEW d \in Device,
         \/ \E a \in Agent, work \in WorkModes : AgentLogin(d, a, work)
         \/ AgentLogout(d) \/ AgentTransferCall(d)
  PROVE  AbstractStep
<1>1. ASSUME NEW act \in ActNames, NEW mode, NEW w, NEW ag, NEW rc,
             SetAgentLogin(AgentReq(act, d, mode, w, ag), rc)
      PROVE  AbstractStep
  <2>. DEFINE req == AgentReq(act, d, mode, w, ag)
  <2>1. req.act = act /\ req.dev = d
    BY DEF AgentReq
  <2>2. Invoke(req, rc) /\ Bind(NextID, req.act, req.dev) /\ filed' = NoRecord
    BY <1>1 DEF SetAgentLogin
  <2>. HIDE DEF req
  <2>. QED  BY <2>1, <2>2, InvokeCorrelates
<1>2. CASE PrivateDataRefused("AgentLogin")
  BY <1>2, QuietCorrelates DEF PrivateDataRefused, Entry, InFlight, maps
<1>3. CASE AgentTransferCall(d)
  <2>. DEFINE req == Req("AgentTransferCall", "RECONNECT_CALL", d, "csNull", "transfer", Keep)
  <2>1. req.act = "AgentTransferCall" /\ req.dev = d
    BY DEF Req
  <2>2. PICK rc \in Returns : Invoke(req, rc) /\ Bind(NextID, req.act, d)
    BY <1>3 DEF AgentTransferCall
  <2>3. filed' = NoRecord
    BY <1>3 DEF AgentTransferCall
  <2>. HIDE DEF req
  <2>. QED  BY <2>1, <2>2, <2>3, InvokeCorrelates DEF ActNames
<1>. QED  BY <1>1, <1>2, <1>3 DEF AgentLogin, AgentLogout, ActNames

\* So do the buttons of routing.  What the handlers of the switch's events send
\* takes an ID too, and no answer will come to it.
LEMMA RoutingCorrelates ==
  ASSUME Inductive,
         \/ RoutingButtons \/ ConnectionCleared
         \/ \E d \in Device : RouteRequestExtEvent(d)
  PROVE  AbstractStep
<1>1. ASSUME NEW act \in ActNames, NEW conf, NEW d \in Device,
             SendEager(Req(act, conf, d, Keep, Keep, Keep))
      PROVE  AbstractStep
  <2>. DEFINE req == Req(act, conf, d, Keep, Keep, Keep)
  <2>1. req.act = act /\ BoundDevice(req) \in Device \cup {AChar}
    BY DEF Req, BoundDevice
  <2>. HIDE DEF req
  <2>2. PICK rc \in Returns : Invoke(req, rc)
    BY <1>1 DEF SendEager, req
  <2>3. Bind(NextID, req.act, BoundDevice(req)) /\ filed' = NoRecord
    BY <1>1 DEF SendEager, req
  <2>. QED  BY <2>1, <2>2, <2>3, InvokeCorrelates
<1>2. ASSUME NEW act, NEW d, RouteInv(act, d)
      PROVE  AbstractStep
  <2>1. /\ NextID \in InvokeIDs /\ ~InFlight(NextID)
        /\ invokeID < MaxInvokeID /\ invokeID' = invokeID + 1
    <3>1. invokeID \in Nat /\ NextID <= MaxInvokeID /\ invokeID' = NextID
      BY <1>2, EntryFacts DEF RouteInv
    <3>2. NextID \in InvokeIDs /\ NextID > invokeID
      BY <3>1, BoundsAssumption DEF NextID, InvokeIDs
    <3>3. ~InFlight(NextID)
      BY <3>2 DEF Inductive, EntryOK
    <3>. QED  BY <3>1, <3>2, <3>3, BoundsAssumption DEF NextID
  <2>2. wire' = wire /\ Reported' = [id |-> 0] /\ Bind(NextID, act, d)
    BY <1>2 DEF RouteInv, Reported
  <2>3. ASSUME NEW i \in InvokeIDs  PROVE Entry(i)' = Entry(i)
    <3>1. CASE i = NextID
      BY <2>1, <2>2, <3>1 DEF Entry, InFlight
    <3>2. CASE i # NextID
      <4>1. /\ InvokeID2ActName'[i] = InvokeID2ActName[i]
            /\ InvokeID2DeviceID'[i] = InvokeID2DeviceID[i]
        BY <2>2, <3>2, EntryFacts DEF Bind
      <4>. QED  BY <2>2, <4>1 DEF Entry, InFlight
    <3>. QED  BY <3>1, <3>2
  <2>4. Entries' = Entries
    BY <2>3 DEF Entries, InvokeIDs
  <2>. QED  BY <2>1, <2>2, <2>4 DEF AbstractStep
<1>. QED  BY <1>1, <1>2 DEF RoutingButtons, RouteRegister, RouteRegisterCancel,
     RouteRequestExtEvent, ConnectionCleared, ActNames

\* The other operations of the dialog.
LEMMA OperationCorrelates ==
  ASSUME Inductive, NEW d \in Device,
         \/ \E c \in Call : \/ AgentAnswerCall(d, c)     \/ AgentClearConnection(d, c)
                            \/ AgentDisconnectCall(d, c) \/ AgentHoldCall(d, c)
                            \/ AgentRetrieveCall(d, c)   \/ AgentDeflectCall(d, c)
                            \/ AgentPickupCall(d, c)     \/ AgentReconnectCall(d, c)
         \/ AgentMakeCall(d) \/ AgentConferenceCall(d) \/ AgentConsultationCall(d)
         \/ SingleStepTransferCall(d) \/ \E e \in Device : SingleStepConferenceCall(e, d)
         \/ QueryAgentStatus(d) \/ SnapshotDevice(d) \/ StartMonitor(d) \/ StopMonitor(d)
  PROVE  AbstractStep
<1>1. ASSUME NEW act \in ActNames, NEW conf, NEW talk, NEW station, NEW c, NEW stationDev,
             \/ SendOn(Req(act, conf, d, talk, station, c), stationDev)
             \/ Send(Req(act, conf, d, talk, station, c))
             \/ SendUnbound(Req(act, conf, d, talk, station, c))
             \/ PrivateDataRefused(act)
      PROVE  AbstractStep
  <2>1. Req(act, conf, d, talk, station, c).act = act /\ Req(act, conf, d, talk, station, c).dev = d
    BY DEF Req
  <2>. QED  BY <1>1, <2>1, SendCorrelates DEF Send
<1>2. CASE \E c \in Call : \/ AgentAnswerCall(d, c)     \/ AgentClearConnection(d, c)
                           \/ AgentDisconnectCall(d, c) \/ AgentHoldCall(d, c)
                           \/ AgentRetrieveCall(d, c)   \/ AgentDeflectCall(d, c)
                           \/ AgentPickupCall(d, c)     \/ AgentReconnectCall(d, c)
  BY <1>1, <1>2 DEF ActNames, AgentAnswerCall, AgentClearConnection, AgentDisconnectCall,
     AgentHoldCall, AgentRetrieveCall, AgentDeflectCall, AgentPickupCall, AgentReconnectCall
<1>3. CASE \/ AgentMakeCall(d) \/ AgentConferenceCall(d) \/ AgentConsultationCall(d)
           \/ QueryAgentStatus(d) \/ SnapshotDevice(d)
  BY <1>1, <1>3 DEF ActNames, AgentMakeCall, AgentConferenceCall, AgentConsultationCall,
     QueryAgentStatus, SnapshotDevice
<1>4. CASE SingleStepTransferCall(d) \/ \E e \in Device : SingleStepConferenceCall(e, d)
  BY <1>1, <1>4 DEF ActNames, SingleStepTransferCall, SingleStepConferenceCall
<1>5. CASE StartMonitor(d) \/ StopMonitor(d)
  BY <1>1, <1>5 DEF ActNames, StartMonitor, StopMonitor
<1>. QED  BY <1>2, <1>3, <1>4, <1>5

\* What is filed of a confirmation is the entry of its ID, which is not empty.
LEMMA FiledIsEntry ==
  ASSUME Inductive, NEW i \in InvokeIDs, InFlight(i), ConfirmedMes(i) # NoRecord
  PROVE  /\ ConfirmedMes(i).id = i /\ ConfirmedMes(i).act = InvokeID2ActName[i]
         /\ ConfirmedMes(i).dev = InvokeID2DeviceID[i] /\ InvokeID2ActName[i] # Empty
<1>. DEFINE Fits(x) == /\ x.id = i /\ x.act = InvokeID2ActName[i]
                       /\ x.dev = InvokeID2DeviceID[i]
<1>1. \A tables, mode, c, talk, station : Fits(Mes(i, tables, mode, c, talk, station))
  BY MesFields
<1>. HIDE DEF Fits
<1>2. Fits(ConfirmedMes(i))
  <2>. DEFINE Good(x) == x # NoRecord => Fits(x)
  <2>1. \A names, tables, mode, c, talk, station :
          Good(FiledIf(i, names, Mes(i, tables, mode, c, talk, station)))
    BY <1>1 DEF FiledIf
  <2>. HIDE DEF Good
  <2>2. /\ Good(SetAgentStateConf(i)) /\ Good(MakeCallConf(i))
        /\ \A name : Good(CallConf(i, name))
        /\ \A names : Good(NewCallConf(i, names))
    BY <2>1 DEF SetAgentStateConf, MakeCallConf, CallConf, NewCallConf
  <2>3. Good(QueryAgentStateConf(i)) /\ Good(NoRecord)
    BY <1>1 DEF QueryAgentStateConf, Good
  <2>4. Good(ConfirmedMes(i))
    BY <2>2, <2>3 DEF ConfirmedMes
  <2>. QED  BY <2>4 DEF Good
<1>3. ConfirmedMes(i) \in Record
  BY ConfirmedMesType
<1>4. InvokeID2ActName[i] \in ActNames
  <2>1. ConfirmedMes(i).act \in ActNames
    BY <1>3 DEF Record
  <2>. QED  BY <1>2, <2>1 DEF Fits
<1>. QED  BY <1>2, <1>4 DEF Fits, ActNames, Empty

\* The answer to a request under way: its entry goes, and what is filed of it, if
\* anything, is what the entry stood for (T 933, and mes of T 323 to 347).
LEMMA AnswerCorrelates ==
  ASSUME Inductive, NEW i \in InvokeIDs, HandleCSTAConfirmation(i) \/ UniversalFailureConf(i)
  PROVE  AbstractStep
<1>1. /\ InFlight(i) /\ wire' = [wire EXCEPT ![i] = NoRequest] /\ Release(i)
      /\ invokeID' = invokeID
      /\ filed' = NoRecord \/ filed' = ConfirmedMes(i)
  BY DEF HandleCSTAConfirmation, UniversalFailureConf, Answered
<1>2. \A j \in InvokeIDs : j # i => Entry(j)' = Entry(j)
  <2>. SUFFICES ASSUME NEW j \in InvokeIDs, j # i
                PROVE  Entry(j)' = Entry(j)
    OBVIOUS
  <2>1. wire'[j] = wire[j]
    BY <1>1, EntryFacts
  <2>2. /\ InvokeID2ActName'[j] = InvokeID2ActName[j]
        /\ InvokeID2DeviceID'[j] = InvokeID2DeviceID[j]
    BY <1>1, EntryFacts DEF Release
  <2>. QED  BY <2>1, <2>2 DEF Entry, InFlight
<1>3. Entry(i)' = [act |-> ""]
  <2>1. wire'[i] = NoRequest
    BY <1>1, EntryFacts
  <2>. QED  BY <2>1 DEF Entry, InFlight
<1>4. Entries' = [Entries EXCEPT ![i] = [act |-> ""]]
  BY <1>2, <1>3 DEF Entries, InvokeIDs
<1>5. CASE filed' = NoRecord
  <2>1. Reported' = [id |-> 0]
    BY <1>5 DEF Reported
  <2>2. CASE Entry(i) = [act |-> ""]
    <3>1. \A j \in InvokeIDs : Entry(j)' = Entry(j)
      BY <1>2, <1>3, <2>2
    <3>. QED  BY <1>1, <1>5, <3>1, QuietCorrelates
  <2>3. CASE Entry(i) # [act |-> ""]
    BY <1>1, <1>4, <2>1, <2>3 DEF AbstractStep
  <2>. QED  BY <2>2, <2>3
<1>6. CASE filed' = ConfirmedMes(i) /\ filed' # NoRecord
  <2>1. /\ filed'.id = i /\ filed'.act = InvokeID2ActName[i]
        /\ filed'.dev = InvokeID2DeviceID[i] /\ InvokeID2ActName[i] # Empty
    BY <1>1, <1>6, FiledIsEntry
  <2>2. /\ Entry(i).act = InvokeID2ActName[i] /\ Entry(i).dev = InvokeID2DeviceID[i]
        /\ Entry(i) # [act |-> ""]
    BY <1>1, <2>1 DEF Entry, Empty
  <2>3. Reported' = [id |-> i, act |-> Entry(i).act, dev |-> Entry(i).dev]
    BY <1>6, <2>1, <2>2 DEF Reported
  <2>. QED  BY <1>1, <1>4, <2>2, <2>3 DEF AbstractStep
<1>. QED  BY <1>1, <1>5, <1>6

\* The steps that touch neither requests nor entries, and the confirmation of
\* acsOpenStream, whose ID is never a request's.
LEMMA OtherStepsCorrelate ==
  ASSUME Inductive,
         \/ OpenStream \/ CloseStream \/ BadNumber \/ OtherEvent \/ ReceiveError
         \/ HandleACSConfirmation \/ RoutingThrows
         \/ \E i \in InvokeIDs : SnapshotOfIdleDevice(i)
  PROVE  AbstractStep
<1>1. CASE HandleACSConfirmation
  <2>1. filed' = NoRecord /\ invokeID' = invokeID /\ wire' = wire
    BY <1>1 DEF HandleACSConfirmation
  <2>2. 1 \in InvokeIDs /\ wire[1] = NoRequest
    BY BoundsAssumption DEF InvokeIDs, Inductive, EntryOK, InFlight
  <2>3. ASSUME NEW i \in InvokeIDs  PROVE Entry(i)' = Entry(i)
    <3>1. CASE i = 1
      BY <2>1, <2>2, <3>1 DEF Entry, InFlight
    <3>2. CASE i # 1
      <4>1. /\ InvokeID2ActName'[i] = InvokeID2ActName[i]
            /\ InvokeID2DeviceID'[i] = InvokeID2DeviceID[i]
        BY <1>1, <3>2, EntryFacts DEF HandleACSConfirmation
      <4>. QED  BY <2>1, <4>1 DEF Entry, InFlight
    <3>. QED  BY <3>1, <3>2
  <2>. QED  BY <2>1, <2>3, QuietCorrelates
<1>2. CASE \/ OpenStream \/ CloseStream \/ BadNumber \/ OtherEvent \/ ReceiveError
           \/ RoutingThrows \/ \E i \in InvokeIDs : SnapshotOfIdleDevice(i)
  <2>1. filed' = NoRecord /\ UNCHANGED <<invokeID, maps, wire>>
    BY <1>2 DEF OpenStream, CloseStream, BadNumber, OtherEvent, ReceiveError,
       SnapshotOfIdleDevice, RoutingThrows
  <2>. QED  BY <2>1, QuietCorrelates DEF Entry, InFlight, maps
<1>. QED  BY <1>1, <1>2

\* The users of the instance do not ask for a new agent state.
NoSetState == AgtModes = {} \/ "AgentSetState" \notin Ops

\* Then no box but that of TSAPIMessageHandler is ever open.
OnlyExitBoxes == modal \in Seq({ExitFrame})

\* Only AgentSetState opens a box after which it has work to do (T 1664 to 1752).
LEMMA OperationKeepsBoxes ==
  ASSUME NoSetState, SelectTSAPIInterface
  PROVE  UNCHANGED modal
<1>1. ASSUME NEW req, NEW stationDev, SendOn(req, stationDev) \/ Send(req) \/ SendUnbound(req)
      PROVE  UNCHANGED modal
  BY <1>1 DEF SendOn, Send, SendUnbound
<1>2. ASSUME NEW act, PrivateDataRefused(act)
      PROVE  UNCHANGED modal
  BY <1>2 DEF PrivateDataRefused
<1>3. PICK d \in Device :
        \/ \E a \in Agent, work \in WorkModes :
             \/ AgentLogin(d, a, work)
             \/ \E mode \in AgtModes, enablePending \in BOOLEAN :
                  AgentSetState(d, a, mode, work, enablePending)
        \/ AgentLogout(d)
        \/ \E c \in Call : \/ AgentAnswerCall(d, c)     \/ AgentClearConnection(d, c)
                           \/ AgentDisconnectCall(d, c) \/ AgentHoldCall(d, c)
                           \/ AgentRetrieveCall(d, c)   \/ AgentDeflectCall(d, c)
                           \/ AgentPickupCall(d, c)     \/ AgentReconnectCall(d, c)
        \/ AgentMakeCall(d) \/ AgentConferenceCall(d) \/ AgentConsultationCall(d)
        \/ AgentTransferCall(d) \/ SingleStepTransferCall(d)
        \/ \E e \in Device : SingleStepConferenceCall(e, d)
        \/ QueryAgentStatus(d) \/ SnapshotDevice(d) \/ StartMonitor(d) \/ StopMonitor(d)
  BY DEF SelectTSAPIInterface
<1>4. CASE \E a \in Agent, work \in WorkModes : AgentLogin(d, a, work)
  BY <1>2, <1>4 DEF AgentLogin, SetAgentLogin
<1>5. CASE AgentLogout(d)
  BY <1>5 DEF AgentLogout, SetAgentLogin
<1>6. CASE AgentTransferCall(d)
  BY <1>6 DEF AgentTransferCall
<1>7. CASE \E c \in Call : \/ AgentAnswerCall(d, c)     \/ AgentClearConnection(d, c)
                           \/ AgentDisconnectCall(d, c) \/ AgentHoldCall(d, c)
                           \/ AgentRetrieveCall(d, c)   \/ AgentDeflectCall(d, c)
                           \/ AgentPickupCall(d, c)     \/ AgentReconnectCall(d, c)
  BY <1>1, <1>7 DEF AgentAnswerCall, AgentClearConnection, AgentDisconnectCall,
     AgentHoldCall, AgentRetrieveCall, AgentDeflectCall, AgentPickupCall, AgentReconnectCall
<1>8. CASE \/ AgentMakeCall(d) \/ AgentConferenceCall(d) \/ AgentConsultationCall(d)
           \/ QueryAgentStatus(d) \/ SnapshotDevice(d) \/ StartMonitor(d) \/ StopMonitor(d)
  BY <1>1, <1>8 DEF AgentMakeCall, AgentConferenceCall, AgentConsultationCall,
     QueryAgentStatus, SnapshotDevice, StartMonitor, StopMonitor
<1>9. CASE SingleStepTransferCall(d) \/ \E e \in Device : SingleStepConferenceCall(e, d)
  BY <1>1, <1>2, <1>9 DEF SingleStepTransferCall, SingleStepConferenceCall
<1>10. CASE \E a \in Agent, work \in WorkModes, mode \in AgtModes, enablePending \in BOOLEAN :
              AgentSetState(d, a, mode, work, enablePending)
  BY <1>10 DEF NoSetState, AgentSetState
<1>. QED  BY <1>3, <1>4, <1>5, <1>6, <1>7, <1>8, <1>9, <1>10

\* The innermost of such boxes ends the program when it is closed, and takes nothing
\* from the maps.
LEMMA ExitBoxCloses ==
  ASSUME OnlyExitBoxes, CloseMessageBox
  PROVE  /\ UNCHANGED <<invokeID, maps, wire>> /\ filed' = NoRecord
         /\ OnlyExitBoxes'
<1>. DEFINE f     == modal[Len(modal)]
            outer == SubSeq(modal, 1, Len(modal) - 1)
<1>1. modal \in Seq({ExitFrame}) /\ modal # <<>>
  BY DEF OnlyExitBoxes, CloseMessageBox
<1>2. f = ExitFrame /\ outer \in Seq({ExitFrame})
  <2>. HIDE DEF ExitFrame
  <2>1. Len(modal) \in DOMAIN modal
    BY <1>1
  <2>. QED  BY <1>1, <2>1
<1>3. f.pc = "exit"
  BY <1>2 DEF ExitFrame
<1>. HIDE DEF f, outer
<1>4. modal' = outer /\ UNCHANGED <<invokeID, maps, wire>> /\ filed' = NoRecord
  BY <1>3 DEF CloseMessageBox, f, outer
<1>. QED  BY <1>2, <1>4 DEF OnlyExitBoxes

\* No step opens another box than that.
LEMMA BoxesStep ==
  ASSUME NoSetState, OnlyExitBoxes, Next
  PROVE  OnlyExitBoxes'
<1>1. CASE SelectTSAPIInterface
  BY <1>1, OperationKeepsBoxes DEF OnlyExitBoxes
<1>2. CASE CloseMessageBox
  BY <1>2, ExitBoxCloses
<1>3. CASE ReceiveError
  <2>1. modal' = Append(modal, ExitFrame)
    BY <1>3 DEF ReceiveError
  <2>. QED  BY <2>1, AppendProperties DEF OnlyExitBoxes
<1>4. CASE \/ OpenStream \/ CloseStream \/ BadNumber \/ OtherEvent \/ HandleACSConfirmation
           \/ \E i \in InvokeIDs : \/ HandleCSTAConfirmation(i) \/ SnapshotOfIdleDevice(i)
                                   \/ UniversalFailureConf(i)
           \/ RoutingButtons \/ ConnectionCleared \/ RoutingThrows
           \/ \E d \in Device : RouteRequestExtEvent(d)
  BY <1>4 DEF OnlyExitBoxes, OpenStream, CloseStream, BadNumber, OtherEvent,
     HandleACSConfirmation, HandleCSTAConfirmation, SnapshotOfIdleDevice,
     UniversalFailureConf, Answered, RoutingButtons, RouteRegister, RouteRegisterCancel,
     SendEager, ConnectionCleared, RouteRequestExtEvent, RouteInv, RoutingThrows
<1>. QED  BY <1>1, <1>2, <1>3, <1>4 DEF Next, TSAPIMessageHandler

\* Every step is a step of the abstraction.
LEMMA NextCorrelates ==
  ASSUME NoSetState, Inductive, OnlyExitBoxes, Next
  PROVE  AbstractStep
<1>1. CASE SelectTSAPIInterface
  <2>1. \A d \in Device, a \in Agent, mode \in AgtModes, work \in WorkModes, pend \in BOOLEAN :
          ~AgentSetState(d, a, mode, work, pend)
    BY DEF NoSetState, AgentSetState
  <2>. QED  BY <1>1, <2>1, EagerCorrelates, OperationCorrelates DEF SelectTSAPIInterface
<1>2. CASE CloseMessageBox
  <2>1. UNCHANGED <<invokeID, maps, wire>> /\ filed' = NoRecord
    BY <1>2, ExitBoxCloses
  <2>. QED  BY <2>1, QuietCorrelates DEF Entry, InFlight, maps
<1>. QED  BY <1>1, <1>2, OtherStepsCorrelate, RoutingCorrelates, AnswerCorrelates DEF Next, TSAPIMessageHandler

\* m_InvokeID2DeviceID and m_InvokeID2ActName (TSAPIInterface.h 147) do what they are
\* there for as long as AgentSetState is not used: a request that TSAPI has accepted
\* stands for one operation on one extension until it is answered, once, and what is
\* reported of the answer names them.
THEOREM Implements ==
  ASSUME NoSetState
  PROVE  Spec => Correlates
<1>1. Init => OnlyExitBoxes /\ RC!Init
  BY InitCorrelates DEF Init, OnlyExitBoxes
<1>2. Inductive /\ OnlyExitBoxes /\ [Next]_vars => OnlyExitBoxes'
  <2>1. CASE UNCHANGED vars
    BY <2>1 DEF vars, OnlyExitBoxes
  <2>. QED  BY <2>1, BoxesStep
<1>3. Inductive /\ OnlyExitBoxes /\ [Next]_vars => [RC!Next]_(RC!vars)
  <2>1. CASE UNCHANGED vars
    BY <2>1 DEF vars, maps, RC!vars, InFlight
  <2>. QED  BY <2>1, NextCorrelates, AbstractSteps
<1>. QED  BY <1>1, <1>2, <1>3, InductiveInvariant, PTL DEF Spec, Correlates, RC!Spec
=============================================================================

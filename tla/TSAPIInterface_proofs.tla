----------------------- MODULE TSAPIInterface_proofs -----------------------
(***************************************************************************)
(* Proofs about TSAPIInterface, for all sets of extensions, agents, calls  *)
(* and operations and all bounds.                                          *)
(***************************************************************************)
EXTENDS TSAPIInterface, TLAPS, SequenceTheorems

-----------------------------------------------------------------------------
(* The requests that the operations make. *)

\* What Req builds is a request, and its fields are its arguments.
LEMMA ReqIsRequest ==
  ASSUME NEW act \in ActNames, NEW conf \in Confs, NEW d \in Device,
         NEW talk \in Talks \cup {Keep}, NEW station \in Stations \cup {Keep},
         NEW c \in Call \cup {Keep}
  PROVE  LET r == Req(act, conf, d, talk, station, c)
         IN /\ r \in Request
            /\ r.act = act /\ r.conf = conf /\ r.dev = d
            /\ r.talk = talk /\ r.station = station /\ r.call = c /\ r.mode = Keep
BY DEF Req, Request

\* The requests of an agent are requests (T 1551 to 1755).
LEMMA AgentReqIsRequest ==
  ASSUME NEW act \in ActNames, NEW d \in Device, NEW mode \in AgentModes,
         NEW work \in WorkModes \cup {Keep}, NEW a \in Agent \cup {Empty}
  PROVE  LET r == AgentReq(act, d, mode, work, a)
         IN /\ r \in Request
            /\ r.act = act /\ r.conf = "SET_AGENT_STATE" /\ r.dev = d
            /\ r.talk = Keep /\ r.station = Keep /\ r.call = Keep
            /\ r.mode = mode /\ r.agent = a
BY DEF AgentReq, Request, Confs

\* A request is never the sign for "none".
LEMMA RequestIsNotNone ==
  ASSUME NEW r \in Request
  PROVE  r # NoRequest
<1>1. r.act \in ActNames
  BY DEF Request
<1>2. NoRequest.act \notin ActNames
  BY DEF NoRequest, ActNames, Empty
<1>. QED  BY <1>1, <1>2

\* What a request leaves in the map of extensions: never the sign for "none", and
\* one character only where a number is assigned to the string (T 2553).
LEMMA BoundDeviceOf ==
  ASSUME NEW r \in Request
  PROVE  /\ BoundDevice(r) \in Device \cup {AChar} /\ BoundDevice(r) # Empty
         /\ BoundDevice(r) = AChar => r.act = "RouteRegisterCancel"
         /\ r.act # "RouteRegisterCancel" => BoundDevice(r) = r.dev
<1>1. r.dev \in Device /\ AChar # Empty
  BY DEF Request, AChar, Empty
<1>. QED  BY <1>1, DeviceAssumption DEF BoundDevice

-----------------------------------------------------------------------------
(* The per-device maps and their history. *)

\* One map and its history: assigning one extension keeps the types, leaves
\* every older request on any extension kept, and keeps the new one.
LEMMA AssignTypes ==
  ASSUME NEW S, NEW map \in [Device -> S \cup {Empty}], NEW stamp \in [Device -> Nat],
         NEW d \in Device, NEW v \in S \cup {Keep}, invokeID \in Nat
  PROVE  Assign(map, d, v) \in [Device -> S \cup {Empty}] /\ Stamp(stamp, d, v) \in [Device -> Nat]
BY DEF Assign, Stamp, NextID

\* An assignment under a new number leaves what older requests assigned, or hides it
\* behind its own stamp (m_talkState and the other maps by extension).
LEMMA AssignKeepsOlder ==
  ASSUME NEW map, DOMAIN map = Device, NEW stamp \in [Device -> Nat],
         NEW d \in Device, NEW v, NEW e \in Device, NEW w, NEW i \in Nat,
         invokeID \in Nat, i < NextID,
         Kept(stamp, map, e, w, i)
  PROVE  Kept(Stamp(stamp, d, v), Assign(map, d, v), e, w, i)
BY DEF Kept, Assign, Stamp, NextID

\* An assignment under a new number holds what its own request assigned.
LEMMA AssignKeepsNew ==
  ASSUME NEW map, DOMAIN map = Device, NEW stamp \in [Device -> Nat],
         NEW d \in Device, NEW v, invokeID \in Nat
  PROVE  Kept(Stamp(stamp, d, v), Assign(map, d, v), d, v, NextID)
BY DEF Kept, Assign, Stamp, NextID

\* All the maps of call control together.
LEMMA CallMapTypes ==
  ASSUME TypeOK, NEW req \in Request, NEW stationDev \in Device,
         AssignCallMaps(req, stationDev)
  PROVE  /\ DeviceID2TalkState' \in [Device -> Talks \cup {Empty}]
         /\ DeviceID2CallID' \in [Device -> Call \cup {Empty}]
         /\ DeviceID2station' \in [Device -> Stations \cup {Empty}]
         /\ setBy' \in Stamps
<1>1. /\ req.talk \in Talks \cup {Keep} /\ req.call \in Call \cup {Keep}
      /\ req.station \in Stations \cup {Keep} /\ req.dev \in Device
  BY DEF Request
<1>2. invokeID \in Nat
  BY DEF TypeOK, InvokeIDs
<1>. QED  BY <1>1, <1>2, AssignTypes DEF TypeOK, AssignCallMaps, Stamps

\* What a request assigns to the maps of calls is in them, and they hold what the others
\* assigned, or hide it behind a later stamp.
LEMMA CallMapsKeep ==
  ASSUME TypeOK, NEW req \in Request, NEW stationDev \in Device,
         AssignCallMaps(req, stationDev), UNCHANGED DeviceID2AgentMode,
         req.act # "SingleStepConferenceCall" => stationDev = req.dev, req.mode = Keep
  PROVE  /\ \A n : n = NextID => KeptAll(req, n)'
         /\ \A r \in Request, i \in Nat : i < NextID /\ KeptAll(r, i) => KeptAll(r, i)'
<1>1. /\ DeviceID2TalkState' = Assign(DeviceID2TalkState, req.dev, req.talk)
      /\ DeviceID2CallID' = Assign(DeviceID2CallID, req.dev, req.call)
      /\ DeviceID2station' = Assign(DeviceID2station, stationDev, req.station)
      /\ DeviceID2AgentMode' = DeviceID2AgentMode
      /\ setBy'.talk = Stamp(setBy.talk, req.dev, req.talk)
      /\ setBy'.call = Stamp(setBy.call, req.dev, req.call)
      /\ setBy'.station = Stamp(setBy.station, stationDev, req.station)
      /\ setBy'.mode = setBy.mode
  BY DEF AssignCallMaps, TypeOK, Stamps
<1>2. /\ setBy.talk \in [Device -> Nat] /\ setBy.call \in [Device -> Nat]
      /\ setBy.station \in [Device -> Nat] /\ invokeID \in Nat
      /\ DOMAIN DeviceID2TalkState = Device /\ DOMAIN DeviceID2CallID = Device
      /\ DOMAIN DeviceID2station = Device /\ req.dev \in Device
  BY DEF TypeOK, Stamps, InvokeIDs, Request
<1>3. ASSUME NEW n, n = NextID  PROVE KeptAll(req, n)'
  <2>1. Kept(setBy'.talk, DeviceID2TalkState', req.dev, req.talk, n)
    BY <1>1, <1>2, <1>3, AssignKeepsNew
  <2>2. Kept(setBy'.call, DeviceID2CallID', req.dev, req.call, n)
    BY <1>1, <1>2, <1>3, AssignKeepsNew
  <2>3. req.act # "SingleStepConferenceCall" =>
          Kept(setBy'.station, DeviceID2station', req.dev, req.station, n)
    BY <1>1, <1>2, <1>3, AssignKeepsNew
  <2>. QED  BY <2>1, <2>2, <2>3 DEF KeptAll, Kept
<1>4. ASSUME NEW r \in Request, NEW i \in Nat, i < NextID, KeptAll(r, i)
      PROVE  KeptAll(r, i)'
  <2>. r.dev \in Device
    BY DEF Request
  <2>1. Kept(setBy'.talk, DeviceID2TalkState', r.dev, r.talk, i)
    BY <1>1, <1>2, <1>4, AssignKeepsOlder DEF KeptAll
  <2>2. Kept(setBy'.call, DeviceID2CallID', r.dev, r.call, i)
    BY <1>1, <1>2, <1>4, AssignKeepsOlder DEF KeptAll
  <2>3. r.act # "SingleStepConferenceCall" =>
          Kept(setBy'.station, DeviceID2station', r.dev, r.station, i)
    BY <1>1, <1>2, <1>4, AssignKeepsOlder DEF KeptAll
  <2>. QED  BY <1>1, <1>4, <2>1, <2>2, <2>3 DEF KeptAll, Kept
<1>. QED  BY <1>3, <1>4

\* The agent mode, assigned in the name of request n (or of Nobody).
LEMMA ModeKeeps ==
  ASSUME TypeOK, NEW d \in Device, NEW mode, NEW n \in Nat, UNCHANGED callMaps,
         DeviceID2AgentMode' = [DeviceID2AgentMode EXCEPT ![d] = mode],
         setBy' = [setBy EXCEPT !.mode[d] = n]
  PROVE  /\ \A r \in Request : r.dev = d /\ r.mode = mode /\ r.talk = Keep
              /\ r.station = Keep /\ r.call = Keep => KeptAll(r, n)'
         /\ \A r \in Request, i \in Nat : i < n /\ KeptAll(r, i) => KeptAll(r, i)'
<1>1. /\ setBy'.talk = setBy.talk /\ setBy'.call = setBy.call /\ setBy'.station = setBy.station
      /\ setBy'.mode = [setBy.mode EXCEPT ![d] = n]
      /\ setBy.mode \in [Device -> Nat] /\ DOMAIN DeviceID2AgentMode = Device
  BY DEF TypeOK, Stamps
<1>2. ASSUME NEW r \in Request, r.dev = d, r.mode = mode, r.talk = Keep, r.station = Keep, r.call = Keep
      PROVE  KeptAll(r, n)'
  BY <1>1, <1>2 DEF KeptAll, Kept
<1>3. ASSUME NEW r \in Request, NEW i \in Nat, i < n, KeptAll(r, i)
      PROVE  KeptAll(r, i)'
  <2>. r.dev \in Device
    BY DEF Request
  <2>. QED  BY <1>1, <1>3 DEF KeptAll, Kept, callMaps
<1>. QED  BY <1>2, <1>3

-----------------------------------------------------------------------------
(* The inductive invariant: what the steps have in common. *)

\* The constructor leaves the maps as the invariant wants them (T 15 to 38).
LEMMA InitInductive == Init => Inductive
<1>. SUFFICES ASSUME Init  PROVE Inductive
  OBVIOUS
<1>1. TypeOK
  BY BoundsAssumption, EmptySeq
     DEF Init, TypeOK, InvokeIDs, NoRequest, NoRecord, ReturnCodes, Stamps
<1>2. ASSUME NEW i \in InvokeIDs  PROVE EntryOK(i) /\ ~InFlight(i)
  <2>1. Empty # AChar
    BY DEF Empty, AChar
  <2>. QED  BY <2>1 DEF Init, EntryOK, InFlight
<1>. QED  BY <1>1, <1>2 DEF Inductive

\* A step after which the maps and the requests are as they were.
LEMMA QuietStep ==
  ASSUME Inductive, TypeOK', invokeID' \in {invokeID, NextID},
         UNCHANGED <<maps, callMaps, DeviceID2AgentMode, wire, setBy>>
  PROVE  Inductive'
<1>1. ASSUME NEW i \in InvokeIDs
      PROVE  EntryOK(i)' /\ (InFlight(i) => KeptAll(wire[i], i))'
  <2>1. EntryOK(i) /\ (InFlight(i) => KeptAll(wire[i], i))
    BY DEF Inductive
  <2>2. i > invokeID' => i > invokeID
    BY DEF Inductive, TypeOK, InvokeIDs, NextID
  <2>. QED  BY <2>1, <2>2 DEF EntryOK, InFlight, KeptAll, Kept, maps, callMaps, FieldsFit
<1>. QED  BY <1>1 DEF Inductive, InvokeIDs

\* A step that erases the entries of an invoke ID and forgets its request.
LEMMA ReleaseStep ==
  ASSUME Inductive, TypeOK', NEW k \in InvokeIDs, Release(k),
         \A j \in InvokeIDs : wire'[j] = IF j = k THEN NoRequest ELSE wire[j],
         UNCHANGED <<invokeID, callMaps, DeviceID2AgentMode, setBy>>
  PROVE  Inductive'
<1>1. ASSUME NEW i \in InvokeIDs
      PROVE  EntryOK(i)' /\ (InFlight(i) => KeptAll(wire[i], i))'
  <2>1. EntryOK(i) /\ (InFlight(i) => KeptAll(wire[i], i))
    BY DEF Inductive
  <2>2. /\ InvokeID2DeviceID'[i] = IF i = k THEN Empty ELSE InvokeID2DeviceID[i]
        /\ InvokeID2ActName'[i] = IF i = k THEN Empty ELSE InvokeID2ActName[i]
    BY DEF Release, Inductive, TypeOK
  <2>3. Empty # AChar
    BY DEF Empty, AChar
  <2>4. CASE i = k
    BY <2>1, <2>2, <2>3, <2>4 DEF EntryOK, InFlight
  <2>5. CASE i # k
    BY <2>1, <2>2, <2>5 DEF EntryOK, InFlight, KeptAll, Kept, callMaps, FieldsFit
  <2>. QED  BY <2>4, <2>5
<1>. QED  BY <1>1 DEF Inductive, InvokeIDs

\* Invoke takes an ID that nothing uses.
LEMMA FreshID ==
  ASSUME TypeOK, NextID <= MaxInvokeID
  PROVE  NextID \in InvokeIDs /\ NextID > invokeID /\ NextID # 1 /\ invokeID \in Nat
BY BoundsAssumption DEF TypeOK, InvokeIDs, NextID

\* A step that sends a request and binds it, if it is of a kind to be bound.
LEMMA SubmitStep ==
  ASSUME Inductive, TypeOK', NEW req \in Request, FieldsFit(req),
         NextID <= MaxInvokeID, invokeID' = NextID,
         wire' = [wire EXCEPT ![NextID] = req],
         IF req.act \in Unbound THEN UNCHANGED maps ELSE Bind(NextID, req.act, BoundDevice(req)),
         \A n : n = NextID => KeptAll(req, n)',
         \A r \in Request, i \in Nat : i < NextID /\ KeptAll(r, i) => KeptAll(r, i)'
  PROVE  Inductive'
<1>. req # NoRequest /\ req.dev \in Device /\ req.act \in ActNames
  BY RequestIsNotNone DEF Request
<1>1. /\ BoundDevice(req) # Empty /\ req.act # Empty
      /\ BoundDevice(req) = AChar => req.act \in {"RouteRegisterCancel", "RouteEndInv"}
      /\ BoundDevice(req)' = BoundDevice(req) /\ Empty # AChar
  BY BoundDeviceOf DEF ActNames, Empty, AChar, BoundDevice
<1>2. NextID \in InvokeIDs /\ NextID > invokeID /\ NextID # 1 /\ invokeID \in Nat
  BY FreshID DEF Inductive
<1>3. ASSUME NEW i \in InvokeIDs
      PROVE  EntryOK(i)' /\ (InFlight(i) => KeptAll(wire[i], i))'
  <2>1. EntryOK(i) /\ (InFlight(i) => KeptAll(wire[i], i))
    BY DEF Inductive
  <2>2. wire'[i] = IF i = NextID THEN req ELSE wire[i]
    BY DEF Inductive, TypeOK
  <2>3. CASE i = NextID
    <3>1. InvokeID2ActName[i] = Empty /\ InvokeID2DeviceID[i] = Empty
      BY <1>2, <2>1, <2>3 DEF EntryOK
    <3>2. IF req.act \in Unbound
          THEN InvokeID2ActName'[i] = Empty /\ InvokeID2DeviceID'[i] = Empty
          ELSE InvokeID2ActName'[i] = req.act /\ InvokeID2DeviceID'[i] = BoundDevice(req)
      BY <2>3, <3>1 DEF Bind, maps, Inductive, TypeOK
    <3>3. /\ FieldsFit(wire[i])' /\ InFlight(i)' /\ wire'[i] = req
          /\ BoundDevice(wire[i])' = BoundDevice(req)
      BY <2>2, <2>3 DEF FieldsFit, InFlight, BoundDevice
    <3>4. ~(i > invokeID')
      BY <1>2, <2>3 DEF InvokeIDs
    <3>5. EntryOK(i)'
      BY <1>1, <1>2, <2>3, <3>2, <3>3, <3>4 DEF EntryOK
    <3>. QED  BY <2>3, <3>3, <3>5 DEF KeptAll, Kept
  <2>4. CASE i # NextID
    <3>1. /\ InvokeID2ActName'[i] = InvokeID2ActName[i]
          /\ InvokeID2DeviceID'[i] = InvokeID2DeviceID[i] /\ wire'[i] = wire[i]
      BY <2>2, <2>4 DEF Bind, maps, Inductive, TypeOK
    <3>2. i > NextID => i > invokeID
      BY <1>2 DEF InvokeIDs
    <3>3. EntryOK(i)'
      BY <2>1, <3>1, <3>2 DEF EntryOK, InFlight, FieldsFit, BoundDevice
    <3>4. ASSUME InFlight(i)  PROVE wire[i] \in Request /\ i \in Nat /\ i < NextID
      <4>1. wire[i] \in Request
        BY <3>4 DEF Inductive, TypeOK, InFlight
      <4>2. ~(i > invokeID)
        BY <2>1, <3>4 DEF EntryOK
      <4>3. i \in Nat /\ NextID = invokeID + 1
        BY DEF InvokeIDs, NextID
      <4>. QED  BY <1>2, <4>1, <4>2, <4>3
    <3>5. ASSUME InFlight(i)  PROVE KeptAll(wire[i], i)'
      <4>1. PICK r \in Request : r = wire[i]
        BY <3>4, <3>5
      <4>2. KeptAll(r, i)'
        BY <2>1, <3>4, <3>5, <4>1
      <4>3. wire'[i] = r
        BY <3>1, <4>1
      <4>. QED  BY <4>2, <4>3 DEF KeptAll, Kept
    <3>6. InFlight(i)' => InFlight(i)
      BY <3>1 DEF InFlight
    <3>. QED  BY <3>3, <3>5, <3>6
  <2>. QED  BY <2>3, <2>4
<1>. QED  BY <1>3 DEF Inductive, InvokeIDs

\* A step that binds an invoke ID without a request going out under it.
LEMMA BindStep ==
  ASSUME Inductive, TypeOK', NEW id \in InvokeIDs, NEW act \in LeakyActs, NEW d \in Device \cup {AChar},
         d = AChar => act \in {"RouteRegisterCancel", "RouteEndInv"},
         id = NextID \/ (id = invokeID /\ act = "AgentSetState"),
         invokeID' = id, wire' = wire, Bind(id, act, d),
         \A r \in Request, i \in Nat : i < NextID /\ KeptAll(r, i) => KeptAll(r, i)'
  PROVE  Inductive'
<1>0. d # Empty
  BY DeviceAssumption DEF AChar, Empty
<1>1. d # Empty /\ act # Empty /\ invokeID \in Nat /\ id \in Nat
  <2>1. act # Empty
    BY DEF LeakyActs, RouteActs, Empty
  <2>2. invokeID \in Nat /\ id \in Nat
    BY DEF Inductive, TypeOK, InvokeIDs
  <2>. QED  BY <1>0, <2>1, <2>2
<1>2. ASSUME NEW i \in InvokeIDs
      PROVE  EntryOK(i)' /\ (InFlight(i) => KeptAll(wire[i], i))'
  <2>1. EntryOK(i) /\ (InFlight(i) => KeptAll(wire[i], i))
    BY DEF Inductive
  <2>2. /\ InvokeID2ActName'[i] = IF i = id THEN act ELSE InvokeID2ActName[i]
        /\ InvokeID2DeviceID'[i] = IF i = id THEN d ELSE InvokeID2DeviceID[i]
    BY DEF Bind, Inductive, TypeOK
  <2>3. i > id => i > invokeID
    BY <1>1 DEF NextID, InvokeIDs
  <2>4. i = NextID => ~InFlight(i)
    BY <1>1, <2>1 DEF EntryOK, NextID
  <2>5. EntryOK(i)'
    BY <1>1, <2>1, <2>2, <2>3, <2>4 DEF EntryOK, InFlight, FieldsFit, InvokeIDs, BoundDevice
  <2>6. ASSUME InFlight(i)  PROVE wire[i] \in Request /\ i \in Nat /\ i < NextID
    BY <1>1, <2>1, <2>6 DEF EntryOK, InFlight, Inductive, TypeOK, InvokeIDs, NextID
  <2>. QED  BY <2>1, <2>5, <2>6 DEF InFlight, KeptAll, Kept
<1>. QED  BY <1>2 DEF Inductive, InvokeIDs

-----------------------------------------------------------------------------
(* The inductive invariant: call control, queries and monitors. *)

\* A request with the shape of most operations: bound, and the per-device maps
\* assigned, only if it was accepted.
LEMMA SendOnInductive ==
  ASSUME Inductive, NEW req \in Request, NEW stationDev \in Device,
         req.act \notin Unbound \cup RouteActs, FieldsFit(req), req.mode = Keep,
         req.act # "SingleStepConferenceCall" => stationDev = req.dev,
         SendOn(req, stationDev)
  PROVE  Inductive'
<1>1. PICK rc \in ReturnCodes :
        /\ Invoke(req, rc)
        /\ IF rc = "ack"
           THEN Bind(NextID, req.act, req.dev) /\ AssignCallMaps(req, stationDev)
           ELSE UNCHANGED <<maps, callMaps, setBy>>
  BY DEF SendOn, Returns, ReturnCodes
<1>2. filed' = NoRecord /\ UNCHANGED <<stream, agentMaps, modal>>
  BY DEF SendOn
<1>3. NextID <= MaxInvokeID /\ NextID \in InvokeIDs /\ invokeID' = NextID /\ retCode' = rc
  BY <1>1, FreshID DEF Invoke, Inductive
<1>4. CASE rc = "nak"
  <2>1. wire' = wire /\ UNCHANGED <<maps, callMaps, setBy>>
    BY <1>1, <1>4 DEF Invoke
  <2>2. TypeOK'
    BY <1>2, <1>3, <2>1 DEF Inductive, TypeOK, maps, callMaps, agentMaps
  <2>. QED  BY <1>2, <1>3, <2>1, <2>2, QuietStep DEF agentMaps
<1>5. CASE rc = "ack"
  <2>1. /\ wire' = [wire EXCEPT ![NextID] = req]
        /\ Bind(NextID, req.act, req.dev) /\ AssignCallMaps(req, stationDev)
    BY <1>1, <1>5 DEF Invoke
  <2>2. TypeOK'
    <3>1. /\ DeviceID2TalkState' \in [Device -> Talks \cup {Empty}]
          /\ DeviceID2CallID' \in [Device -> Call \cup {Empty}]
          /\ DeviceID2station' \in [Device -> Stations \cup {Empty}]
          /\ setBy' \in Stamps
      BY <2>1, CallMapTypes DEF Inductive
    <3>2. /\ wire' \in [InvokeIDs -> Request \cup {NoRequest}]
          /\ InvokeID2DeviceID' \in [InvokeIDs -> Device \cup {Empty, AChar}]
          /\ InvokeID2ActName' \in [InvokeIDs -> ActNames \cup {Empty}]
      BY <1>3, <2>1 DEF Bind, Inductive, TypeOK, Request, Empty, AChar
    <3>. QED  BY <1>2, <1>3, <3>1, <3>2 DEF Inductive, TypeOK, agentMaps
  <2>3. /\ \A n : n = NextID => KeptAll(req, n)'
        /\ \A r \in Request, i \in Nat : i < NextID /\ KeptAll(r, i) => KeptAll(r, i)'
    BY <1>2, <2>1, CallMapsKeep DEF Inductive, agentMaps
  <2>4. BoundDevice(req) = req.dev
    BY BoundDeviceOf DEF RouteActs
  <2>. QED  BY <1>3, <2>1, <2>2, <2>3, <2>4, SubmitStep
<1>. QED  BY <1>1, <1>4, <1>5 DEF ReturnCodes

\* A transfer binds its ID whatever the library answers (T 2184).
LEMMA TransferInductive ==
  ASSUME Inductive, NEW d \in Device, AgentTransferCall(d)
  PROVE  Inductive'
<1>. DEFINE req == Req("AgentTransferCall", "RECONNECT_CALL", d, "csNull", "transfer", Keep)
<1>1. /\ req \in Request /\ req.act = "AgentTransferCall" /\ req.dev = d
      /\ req.mode = Keep /\ FieldsFit(req)
  <2>1. /\ "AgentTransferCall" \in ActNames /\ "RECONNECT_CALL" \in Confs
        /\ "csNull" \in Talks \cup {Keep} /\ "transfer" \in Stations \cup {Keep}
        /\ Keep \in Call \cup {Keep}
    BY DEF ActNames, Confs, Talks, Stations
  <2>2. /\ req \in Request /\ req.act = "AgentTransferCall" /\ req.dev = d
        /\ req.mode = Keep /\ req.conf = "RECONNECT_CALL"
    BY <2>1, ReqIsRequest
  <2>. QED  BY <2>2 DEF FieldsFit
<1>1a. \E rc \in Returns :
        /\ Invoke(req, rc) /\ Bind(NextID, req.act, d)
        /\ IF rc = "ack" THEN AssignCallMaps(req, d) ELSE UNCHANGED <<callMaps, setBy>>
  BY DEF AgentTransferCall
<1>. HIDE DEF req
<1>2. PICK rc \in ReturnCodes :
        /\ Invoke(req, rc) /\ Bind(NextID, "AgentTransferCall", d)
        /\ IF rc = "ack" THEN AssignCallMaps(req, d) ELSE UNCHANGED <<callMaps, setBy>>
  BY <1>1, <1>1a DEF Returns, ReturnCodes
<1>3. filed' = NoRecord /\ UNCHANGED <<stream, agentMaps, modal>>
  BY DEF AgentTransferCall
<1>4. NextID <= MaxInvokeID /\ NextID \in InvokeIDs /\ invokeID' = NextID /\ retCode' = rc
  BY <1>2, FreshID DEF Invoke, Inductive
<1>5. /\ InvokeID2DeviceID' \in [InvokeIDs -> Device \cup {Empty, AChar}]
      /\ InvokeID2ActName' \in [InvokeIDs -> ActNames \cup {Empty}]
  BY <1>2, <1>4 DEF Bind, Inductive, TypeOK, ActNames
<1>6. CASE rc = "nak"
  <2>1. wire' = wire /\ UNCHANGED <<callMaps, setBy>>
    BY <1>2, <1>6 DEF Invoke
  <2>2. TypeOK'
    BY <1>3, <1>4, <1>5, <2>1 DEF Inductive, TypeOK, callMaps, agentMaps
  <2>3. \A r \in Request, i \in Nat : i < NextID /\ KeptAll(r, i) => KeptAll(r, i)'
    BY <1>3, <2>1 DEF KeptAll, Kept, callMaps, agentMaps
  <2>4. "AgentTransferCall" \in LeakyActs /\ d # AChar
    BY DeviceAssumption DEF LeakyActs
  <2>. QED  BY <1>2, <1>4, <2>1, <2>2, <2>3, <2>4, BindStep
<1>7. CASE rc = "ack"
  <2>1. wire' = [wire EXCEPT ![NextID] = req] /\ AssignCallMaps(req, d)
    BY <1>2, <1>7 DEF Invoke
  <2>2. TypeOK'
    <3>1. /\ DeviceID2TalkState' \in [Device -> Talks \cup {Empty}]
          /\ DeviceID2CallID' \in [Device -> Call \cup {Empty}]
          /\ DeviceID2station' \in [Device -> Stations \cup {Empty}]
          /\ setBy' \in Stamps
      BY <1>1, <2>1, CallMapTypes DEF Inductive
    <3>2. wire' \in [InvokeIDs -> Request \cup {NoRequest}]
      BY <1>1, <1>4, <2>1 DEF Inductive, TypeOK
    <3>. QED  BY <1>3, <1>4, <1>5, <3>1, <3>2 DEF Inductive, TypeOK, agentMaps
  <2>3. /\ \A n : n = NextID => KeptAll(req, n)'
        /\ \A r \in Request, i \in Nat : i < NextID /\ KeptAll(r, i) => KeptAll(r, i)'
    BY <1>1, <1>3, <2>1, CallMapsKeep DEF Inductive, agentMaps
  <2>4. req.act \notin Unbound /\ BoundDevice(req) = d
    BY <1>1, BoundDeviceOf DEF Unbound
  <2>. QED  BY <1>1, <1>2, <1>4, <2>1, <2>2, <2>3, <2>4, SubmitStep
<1>. QED  BY <1>2, <1>6, <1>7 DEF ReturnCodes

\* Private data that are refused leave a request unsent (T 1570 to 1584).
LEMMA PrivateDataRefusedInductive ==
  ASSUME Inductive, NEW act, PrivateDataRefused(act)
  PROVE  Inductive'
<1>1. TypeOK'
  BY DEF PrivateDataRefused, Inductive, TypeOK, ReturnCodes, maps, agentMaps, callMaps
<1>. QED  BY <1>1, QuietStep DEF PrivateDataRefused, agentMaps

\* The monitors: a request goes out, and nothing is bound.
LEMMA SendUnboundInductive ==
  ASSUME Inductive, NEW d \in Device,
         SendUnbound(Req("StartMonitor", "MONITOR", d, Keep, Keep, Keep))
           \/ SendUnbound(Req("StopMonitor", "MONITOR_STOP", d, Keep, Keep, Keep))
  PROVE  Inductive'
<1>1. PICK req \in Request :
        /\ req.act \in Unbound /\ FieldsFit(req) /\ SendUnbound(req)
        /\ req.talk = Keep /\ req.call = Keep /\ req.station = Keep /\ req.mode = Keep
  <2>1. CASE SendUnbound(Req("StartMonitor", "MONITOR", d, Keep, Keep, Keep))
    <3>. DEFINE q == Req("StartMonitor", "MONITOR", d, Keep, Keep, Keep)
    <3>1. /\ q \in Request /\ q.act = "StartMonitor" /\ q.conf = "MONITOR"
          /\ q.talk = Keep /\ q.call = Keep /\ q.station = Keep /\ q.mode = Keep
      BY DEF Req, Request, ActNames, Confs
    <3>. HIDE DEF q
    <3>2. FieldsFit(q) /\ q.act \in Unbound
      BY <3>1 DEF FieldsFit, Unbound
    <3>. QED  BY <2>1, <3>1, <3>2 DEF q
  <2>2. CASE SendUnbound(Req("StopMonitor", "MONITOR_STOP", d, Keep, Keep, Keep))
    <3>. DEFINE q == Req("StopMonitor", "MONITOR_STOP", d, Keep, Keep, Keep)
    <3>1. /\ q \in Request /\ q.act = "StopMonitor" /\ q.conf = "MONITOR_STOP"
          /\ q.talk = Keep /\ q.call = Keep /\ q.station = Keep /\ q.mode = Keep
      BY DEF Req, Request, ActNames, Confs
    <3>. HIDE DEF q
    <3>2. FieldsFit(q) /\ q.act \in Unbound
      BY <3>1 DEF FieldsFit, Unbound
    <3>. QED  BY <2>2, <3>1, <3>2 DEF q
  <2>. QED  BY <2>1, <2>2
<1>2. PICK rc \in ReturnCodes : Invoke(req, rc)
  BY <1>1 DEF SendUnbound, Returns, ReturnCodes
<1>3. filed' = NoRecord /\ UNCHANGED <<stream, maps, agentMaps, callMaps, modal, setBy>>
  BY <1>1 DEF SendUnbound
<1>4. NextID <= MaxInvokeID /\ NextID \in InvokeIDs /\ invokeID' = NextID /\ retCode' = rc
  BY <1>2, FreshID DEF Invoke, Inductive
<1>5. CASE rc = "nak"
  <2>1. wire' = wire
    BY <1>2, <1>5 DEF Invoke
  <2>2. TypeOK'
    BY <1>3, <1>4, <2>1 DEF Inductive, TypeOK, maps, callMaps, agentMaps
  <2>. QED  BY <1>3, <1>4, <2>1, <2>2, QuietStep DEF agentMaps
<1>6. CASE rc = "ack"
  <2>1. wire' = [wire EXCEPT ![NextID] = req]
    BY <1>2, <1>6 DEF Invoke
  <2>2. TypeOK'
    BY <1>3, <1>4, <2>1 DEF Inductive, TypeOK, maps, callMaps, agentMaps
  <2>3. /\ \A n : n = NextID => KeptAll(req, n)'
        /\ \A r \in Request, i \in Nat : i < NextID /\ KeptAll(r, i) => KeptAll(r, i)'
    BY <1>1, <1>3 DEF KeptAll, Kept, callMaps, agentMaps
  <2>. QED  BY <1>1, <1>3, <1>4, <2>1, <2>2, <2>3, SubmitStep
<1>. QED  BY <1>2, <1>5, <1>6 DEF ReturnCodes

-----------------------------------------------------------------------------
(* The inductive invariant: agent state. *)

\* The call of the library in login and logout, which binds whatever it answers.
LEMMA SetAgentLoginInductive ==
  ASSUME Inductive, NEW req \in Request, NEW rc \in ReturnCodes,
         req.act \in {"AgentLogin", "AgentLogout"}, req.conf = "SET_AGENT_STATE",
         req.talk = Keep, req.station = Keep, req.call = Keep,
         req.mode \in AgentModes, SetAgentLogin(req, rc)
  PROVE  Inductive'
<1>1. /\ NextID <= MaxInvokeID /\ NextID \in InvokeIDs /\ NextID \in Nat
      /\ invokeID' = NextID /\ retCode' = rc
  BY FreshID DEF SetAgentLogin, Invoke, Inductive, InvokeIDs
<1>2. /\ req.dev \in Device /\ req.agent \in Agent \cup {Empty}
      /\ req.act \in LeakyActs /\ req.act \in ActNames /\ req.act \notin Unbound /\ FieldsFit(req)
      /\ BoundDevice(req) = req.dev /\ req.dev # AChar
  BY BoundDeviceOf, DeviceAssumption DEF Request, LeakyActs, ActNames, Unbound, FieldsFit
<1>3. /\ Bind(NextID, req.act, req.dev)
      /\ DeviceID2AgentMode' = [DeviceID2AgentMode EXCEPT ![req.dev] = req.mode]
      /\ setBy' = [setBy EXCEPT !.mode[req.dev] = NextID]
      /\ UNCHANGED callMaps
  BY DEF SetAgentLogin
<1>4. TypeOK'
  <2>1. /\ InvokeID2DeviceID' \in [InvokeIDs -> Device \cup {Empty, AChar}]
        /\ InvokeID2ActName' \in [InvokeIDs -> ActNames \cup {Empty}]
    BY <1>1, <1>2, <1>3 DEF Bind, Inductive, TypeOK
  <2>2. /\ DeviceID2AgentID' \in [Device -> Agent \cup {Empty}]
        /\ DeviceID2AgentMode' \in [Device -> AgentModes \cup {Empty}]
    BY <1>2 DEF SetAgentLogin, Inductive, TypeOK
  <2>3. setBy' \in Stamps
    BY <1>1, <1>2, <1>3 DEF Inductive, TypeOK, Stamps
  <2>4. wire' \in [InvokeIDs -> Request \cup {NoRequest}]
    BY <1>1 DEF SetAgentLogin, Invoke, Inductive, TypeOK
  <2>. QED  BY <1>1, <2>1, <2>2, <2>3, <2>4 DEF SetAgentLogin, Inductive, TypeOK, callMaps
<1>5. /\ \A r \in Request : r.dev = req.dev /\ r.mode = req.mode /\ r.talk = Keep
           /\ r.station = Keep /\ r.call = Keep => \A n : n = NextID => KeptAll(r, n)'
      /\ \A r \in Request, i \in Nat : i < NextID /\ KeptAll(r, i) => KeptAll(r, i)'
  BY <1>1, <1>2, <1>3, ModeKeeps DEF Inductive
<1>6. CASE rc = "nak"
  <2>1. wire' = wire
    BY <1>6 DEF SetAgentLogin, Invoke
  <2>. QED  BY <1>1, <1>2, <1>3, <1>4, <1>5, <2>1, BindStep
<1>7. CASE rc = "ack"
  <2>1. wire' = [wire EXCEPT ![NextID] = req]
    BY <1>7 DEF SetAgentLogin, Invoke
  <2>2. \A n : n = NextID => KeptAll(req, n)'
    BY <1>5
  <2>. QED  BY <1>1, <1>2, <1>3, <1>4, <1>5, <2>1, <2>2, SubmitStep
<1>. QED  BY <1>6, <1>7 DEF ReturnCodes

\* Login keeps the invariant, with every work mode (T 1551).
LEMMA LoginInductive ==
  ASSUME Inductive, NEW d \in Device, NEW a \in Agent, NEW work \in WorkModes,
         AgentLogin(d, a, work)
  PROVE  Inductive'
<1>1. CASE PrivateDataRefused("AgentLogin")
  BY <1>1, PrivateDataRefusedInductive
<1>2. CASE \E rc \in Returns :
             SetAgentLogin(AgentReq("AgentLogin", d, "logIn", work, a), rc)
  <2>. DEFINE req == AgentReq("AgentLogin", d, "logIn", work, a)
  <2>1. /\ req \in Request /\ req.act = "AgentLogin" /\ req.conf = "SET_AGENT_STATE"
        /\ req.talk = Keep /\ req.station = Keep /\ req.call = Keep /\ req.mode = "logIn"
    <3>1. "AgentLogin" \in ActNames /\ "logIn" \in AgentModes
      BY DEF ActNames, AgentModes
    <3>. QED  BY <3>1, AgentReqIsRequest
  <2>2. req.mode \in AgentModes
    BY <2>1 DEF AgentModes
  <2>. HIDE DEF req
  <2>3. PICK rc \in ReturnCodes : SetAgentLogin(req, rc)
    BY <1>2 DEF Returns, ReturnCodes, req
  <2>. QED  BY <2>1, <2>2, <2>3, SetAgentLoginInductive
<1>. QED  BY <1>1, <1>2 DEF AgentLogin

\* Logout keeps the invariant (T 1617).
LEMMA LogoutInductive ==
  ASSUME Inductive, NEW d \in Device, AgentLogout(d)
  PROVE  Inductive'
<1>. DEFINE req == AgentReq("AgentLogout", d, "logOut", Keep, Empty)
<1>1. /\ req \in Request /\ req.act = "AgentLogout" /\ req.conf = "SET_AGENT_STATE"
      /\ req.talk = Keep /\ req.station = Keep /\ req.call = Keep /\ req.mode = "logOut"
  <2>1. /\ "AgentLogout" \in ActNames /\ "logOut" \in AgentModes
        /\ Keep \in WorkModes \cup {Keep} /\ Empty \in Agent \cup {Empty}
    BY DEF ActNames, AgentModes
  <2>. QED  BY <2>1, AgentReqIsRequest
<1>2. req.mode \in AgentModes
  BY <1>1 DEF AgentModes
<1>. HIDE DEF req
<1>3. PICK rc \in ReturnCodes : SetAgentLogin(req, rc)
  BY DEF AgentLogout, Returns, ReturnCodes, req
<1>. QED  BY <1>1, <1>2, <1>3, SetAgentLoginInductive

\* The end of AgentSetState without a request of its own: the entries of the
\* invoke ID in use become those of AgentSetState.
LEMMA RebindInductive ==
  ASSUME Inductive, NEW d \in Device, NEW mode \in SetModes,
         BindSetState(d, mode, invokeID, Nobody),
         modal' \in Seq(Frame), Len(modal') <= MaxModal, retCode' \in ReturnCodes,
         filed' = NoRecord,
         UNCHANGED <<stream, invokeID, DeviceID2AgentID, callMaps, wire>>
  PROVE  Inductive'
<1>1. /\ invokeID \in InvokeIDs /\ invokeID \in Nat /\ Nobody \in Nat /\ NextID <= Nobody
      /\ mode \in AgentModes
  BY BoundsAssumption DEF Inductive, TypeOK, InvokeIDs, Nobody, NextID, AgentModes
<1>2. "AgentSetState" \in LeakyActs /\ "AgentSetState" \in ActNames /\ d # AChar
  BY DeviceAssumption DEF LeakyActs, ActNames
<1>3. /\ Bind(invokeID, "AgentSetState", d)
      /\ DeviceID2AgentMode' = [DeviceID2AgentMode EXCEPT ![d] = mode]
      /\ setBy' = [setBy EXCEPT !.mode[d] = Nobody]
  BY DEF BindSetState
<1>4. TypeOK'
  <2>1. /\ InvokeID2DeviceID' \in [InvokeIDs -> Device \cup {Empty, AChar}]
        /\ InvokeID2ActName' \in [InvokeIDs -> ActNames \cup {Empty}]
    BY <1>1, <1>2, <1>3 DEF Bind, Inductive, TypeOK
  <2>2. DeviceID2AgentMode' \in [Device -> AgentModes \cup {Empty}] /\ setBy' \in Stamps
    BY <1>1, <1>3 DEF Inductive, TypeOK, Stamps
  <2>. QED  BY <2>1, <2>2 DEF Inductive, TypeOK, callMaps
<1>5. \A r \in Request, i \in Nat : i < NextID /\ KeptAll(r, i) => KeptAll(r, i)'
  <2>1. \A r \in Request, i \in Nat : i < Nobody /\ KeptAll(r, i) => KeptAll(r, i)'
    BY <1>1, <1>3, ModeKeeps DEF Inductive
  <2>2. NextID \in Nat /\ \A i \in Nat : i < NextID => i < Nobody
    BY <1>1 DEF NextID
  <2>. QED  BY <2>1, <2>2
<1>. QED  BY <1>1, <1>2, <1>3, <1>4, <1>5, BindStep

\* AgentSetState with a request that was accepted.
LEMMA AcceptedSetStateInductive ==
  ASSUME Inductive, NEW req \in Request, NEW mode \in SetModes,
         req.act = "AgentSetState", req.conf = "SET_AGENT_STATE", req.mode = mode,
         req.talk = Keep, req.station = Keep, req.call = Keep,
         Invoke(req, "ack"), BindSetState(req.dev, mode, NextID, NextID),
         modal' \in Seq(Frame), Len(modal') <= MaxModal, filed' = NoRecord,
         UNCHANGED <<stream, DeviceID2AgentID, callMaps>>
  PROVE  Inductive'
<1>1. /\ NextID <= MaxInvokeID /\ NextID \in InvokeIDs /\ NextID \in Nat
      /\ invokeID' = NextID /\ retCode' = "ack" /\ wire' = [wire EXCEPT ![NextID] = req]
  BY FreshID DEF Invoke, Inductive, InvokeIDs
<1>2. /\ req.dev \in Device /\ mode \in AgentModes /\ FieldsFit(req)
      /\ req.act \in ActNames /\ req.act \notin Unbound /\ BoundDevice(req) = req.dev
  BY BoundDeviceOf DEF Request, AgentModes, FieldsFit, ActNames, Unbound
<1>3. /\ Bind(NextID, req.act, req.dev)
      /\ DeviceID2AgentMode' = [DeviceID2AgentMode EXCEPT ![req.dev] = mode]
      /\ setBy' = [setBy EXCEPT !.mode[req.dev] = NextID]
  BY DEF BindSetState
<1>4. TypeOK'
  <2>1. /\ InvokeID2DeviceID' \in [InvokeIDs -> Device \cup {Empty, AChar}]
        /\ InvokeID2ActName' \in [InvokeIDs -> ActNames \cup {Empty}]
        /\ wire' \in [InvokeIDs -> Request \cup {NoRequest}]
    BY <1>1, <1>2, <1>3 DEF Bind, Inductive, TypeOK
  <2>2. DeviceID2AgentMode' \in [Device -> AgentModes \cup {Empty}] /\ setBy' \in Stamps
    BY <1>1, <1>2, <1>3 DEF Inductive, TypeOK, Stamps
  <2>. QED  BY <1>1, <2>1, <2>2 DEF Inductive, TypeOK, callMaps, ReturnCodes
<1>5. /\ \A r \in Request : r.dev = req.dev /\ r.mode = mode /\ r.talk = Keep
           /\ r.station = Keep /\ r.call = Keep => \A n : n = NextID => KeptAll(r, n)'
      /\ \A r \in Request, i \in Nat : i < NextID /\ KeptAll(r, i) => KeptAll(r, i)'
  BY <1>1, <1>2, <1>3, ModeKeeps DEF Inductive
<1>6. \A n : n = NextID => KeptAll(req, n)'
  BY <1>5
<1>. QED  BY <1>1, <1>2, <1>3, <1>4, <1>5, <1>6, SubmitStep

\* A step of AgentSetState that only opens a box.
LEMMA BoxInductive ==
  ASSUME Inductive, NEW outer \in Seq(Frame), Len(outer) < MaxModal, NEW f \in Frame,
         modal' = Append(outer, f), retCode' = "nak", filed' = NoRecord,
         invokeID' \in {invokeID, NextID}, invokeID' \in InvokeIDs,
         UNCHANGED <<stream, maps, agentMaps, callMaps, wire, setBy>>
  PROVE  Inductive'
<1>1. modal' \in Seq(Frame) /\ Len(modal') <= MaxModal
  <2>1. Append(outer, f) \in Seq(Frame) /\ Len(Append(outer, f)) = Len(outer) + 1 /\ Len(outer) \in Nat
    BY AppendProperties, LenProperties
  <2>. QED  BY <2>1, BoundsAssumption
<1>2. TypeOK'
  BY <1>1 DEF Inductive, TypeOK, maps, agentMaps, callMaps, ReturnCodes
<1>. QED  BY <1>2, QuietStep DEF agentMaps

\* Sending a new agent state keeps the invariant (T 1664).
LEMMA SendSetStateInductive ==
  ASSUME Inductive, NEW d \in Device, NEW a \in Agent, NEW mode \in SetModes,
         NEW work \in WorkModes, NEW rc \in ReturnCodes,
         NEW outer \in Seq(Frame), Len(outer) <= MaxModal,
         SendSetState(d, a, mode, work, rc, outer), filed' = NoRecord,
         UNCHANGED <<stream, DeviceID2AgentID, callMaps>>
  PROVE  Inductive'
<1>1. CASE RequestSetState(d, a, mode, work, outer)
  <2>. DEFINE req == AgentReq("AgentSetState", d, mode, work, a)
              box == [pc |-> "bind", dev |-> d, agent |-> a, mode |-> mode, work |-> work]
  <2>1. /\ req \in Request /\ req.act = "AgentSetState" /\ req.conf = "SET_AGENT_STATE"
        /\ req.talk = Keep /\ req.station = Keep /\ req.call = Keep
        /\ req.mode = mode /\ req.dev = d
    <3>1. "AgentSetState" \in ActNames /\ mode \in AgentModes
      BY DEF ActNames, AgentModes
    <3>. QED  BY <3>1, AgentReqIsRequest
  <2>2. box \in Frame
    BY DEF Frame
  <2>. HIDE DEF req, box
  <2>3. PICK r \in ReturnCodes :
          /\ Invoke(req, r)
          /\ IF r = "ack"
             THEN BindSetState(d, mode, NextID, NextID) /\ modal' = outer
             ELSE /\ Len(outer) < MaxModal /\ modal' = Append(outer, box)
                  /\ UNCHANGED <<maps, DeviceID2AgentMode, setBy>>
    BY <1>1 DEF RequestSetState, Returns, ReturnCodes, req, box
  <2>4. CASE r = "ack"
    BY <2>1, <2>3, <2>4, AcceptedSetStateInductive
  <2>5. CASE r = "nak"
    <3>1. /\ invokeID' = NextID /\ NextID \in InvokeIDs /\ retCode' = "nak" /\ wire' = wire
          /\ UNCHANGED <<maps, DeviceID2AgentMode, setBy>>
          /\ Len(outer) < MaxModal /\ modal' = Append(outer, box)
      BY <2>3, <2>5, FreshID DEF Invoke, Inductive
    <3>. QED  BY <2>2, <3>1, BoxInductive DEF agentMaps
  <2>. QED  BY <2>3, <2>4, <2>5 DEF ReturnCodes
<1>2. CASE /\ retCode' \in ReturnCodes
           /\ BindSetState(d, mode, invokeID, Nobody) /\ modal' = outer
           /\ UNCHANGED <<invokeID, wire>>
  BY <1>2, RebindInductive
<1>. QED  BY <1>1, <1>2 DEF SendSetState, ReturnCodes

\* Set state keeps it, whether or not it stops in a message box (T 1740).
LEMMA AgentSetStateInductive ==
  ASSUME Inductive, NEW d \in Device, NEW a \in Agent, NEW mode \in SetModes,
         NEW work \in WorkModes, NEW enablePending \in BOOLEAN,
         AgentSetState(d, a, mode, work, enablePending)
  PROVE  Inductive'
<1>. /\ filed' = NoRecord /\ UNCHANGED <<stream, DeviceID2AgentID, callMaps>>
     /\ modal \in Seq(Frame) /\ Len(modal) <= MaxModal /\ retCode \in ReturnCodes
  BY DEF AgentSetState, Inductive, TypeOK
<1>. DEFINE rc == IF enablePending THEN "ack" ELSE retCode
            box == [pc |-> "flag", dev |-> d, agent |-> a, mode |-> mode, work |-> work]
<1>1. rc \in ReturnCodes /\ box \in Frame
  BY DEF ReturnCodes, Frame
<1>. HIDE DEF rc, box
<1>2. CASE SendSetState(d, a, mode, work, rc, modal)
  BY <1>1, <1>2, SendSetStateInductive
<1>3. CASE /\ Len(modal) < MaxModal /\ retCode' = "nak" /\ modal' = Append(modal, box)
           /\ UNCHANGED <<invokeID, maps, DeviceID2AgentMode, wire, setBy>>
  <2>1. invokeID' \in InvokeIDs
    BY <1>3 DEF Inductive, TypeOK
  <2>. QED  BY <1>1, <1>3, <2>1, BoxInductive DEF agentMaps
<1>. QED  BY <1>2, <1>3 DEF AgentSetState, rc, box

\* What follows a closed message box keeps it, whatever happened meanwhile (T 1748).
LEMMA CloseMessageBoxInductive ==
  ASSUME Inductive, CloseMessageBox
  PROVE  Inductive'
<1>. DEFINE f == modal[Len(modal)]
            outer == SubSeq(modal, 1, Len(modal) - 1)
<1>1. /\ filed' = NoRecord /\ UNCHANGED <<DeviceID2AgentID, callMaps>>
      /\ retCode \in ReturnCodes /\ invokeID \in InvokeIDs
  BY DEF CloseMessageBox, Inductive, TypeOK
<1>2. f \in Frame /\ outer \in Seq(Frame) /\ Len(outer) <= MaxModal
  <2>1. modal \in Seq(Frame) /\ modal # <<>> /\ Len(modal) <= MaxModal
    BY DEF CloseMessageBox, Inductive, TypeOK
  <2>2. Len(modal) \in Nat \ {0} /\ modal \in [1..Len(modal) -> Frame]
    BY <2>1, EmptySeq, LenProperties
  <2>3. \A i \in 1..(Len(modal) - 1) : modal[i] \in Frame
    BY <2>2
  <2>4. outer \in Seq(Frame) /\ Len(outer) = IF 1 <= Len(modal) - 1 THEN Len(modal) - 1 - 1 + 1 ELSE 0
    BY <2>2, <2>3, SubSeqProperties
  <2>. QED  BY <2>1, <2>2, <2>4, BoundsAssumption
<1>3. f.pc \in {"flag", "bind"} => /\ f.dev \in Device /\ f.agent \in Agent
                                   /\ f.mode \in SetModes /\ f.work \in WorkModes
  BY <1>2 DEF Frame, ExitFrame
<1>. HIDE DEF f, outer
<1>4. CASE /\ f.pc = "flag" /\ UNCHANGED stream
           /\ SendSetState(f.dev, f.agent, f.mode, f.work, retCode, outer)
  BY <1>1, <1>2, <1>3, <1>4, SendSetStateInductive
<1>5. CASE /\ f.pc = "bind" /\ BindSetState(f.dev, f.mode, invokeID, Nobody)
           /\ modal' = outer /\ UNCHANGED <<stream, invokeID, retCode, wire>>
  BY <1>1, <1>2, <1>3, <1>5, RebindInductive
<1>6. CASE /\ f.pc = "exit" /\ stream' = "ended" /\ modal' = outer
           /\ UNCHANGED <<invokeID, retCode, maps, DeviceID2AgentMode, wire, setBy>>
  <2>1. TypeOK'
    BY <1>1, <1>2, <1>6 DEF Inductive, TypeOK, maps, callMaps
  <2>. QED  BY <1>1, <1>6, <2>1, QuietStep
<1>. QED  BY <1>4, <1>5, <1>6 DEF CloseMessageBox, f, outer

-----------------------------------------------------------------------------
(* The inductive invariant: the operations of call control. *)

\* A request bound only if the library has accepted it keeps the invariant.
LEMMA SendReqInductive ==
  ASSUME Inductive, NEW act \in ActNames \ (Unbound \cup RouteActs), NEW conf \in Confs,
         NEW d \in Device, NEW stationDev \in Device,
         NEW talk \in Talks \cup {Keep}, NEW station \in Stations \cup {Keep},
         NEW c \in Call \cup {Keep},
         FieldsFit(Req(act, conf, d, talk, station, c)),
         act # "SingleStepConferenceCall" => stationDev = d,
         SendOn(Req(act, conf, d, talk, station, c), stationDev)
  PROVE  Inductive'
<1>. DEFINE req == Req(act, conf, d, talk, station, c)
<1>1. req \in Request /\ req.act = act /\ req.dev = d /\ req.mode = Keep
  BY ReqIsRequest
<1>. HIDE DEF req
<1>2. FieldsFit(req) /\ SendOn(req, stationDev)
  BY DEF req
<1>. QED  BY <1>1, <1>2, SendOnInductive

\* The operations on a call that the user names.
LEMMA CallOperationInductive ==
  ASSUME Inductive, NEW d \in Device, NEW c \in Call,
         \/ AgentAnswerCall(d, c)     \/ AgentClearConnection(d, c)
         \/ AgentDisconnectCall(d, c) \/ AgentHoldCall(d, c)
         \/ AgentRetrieveCall(d, c)   \/ AgentDeflectCall(d, c)
         \/ AgentPickupCall(d, c)     \/ AgentReconnectCall(d, c)
  PROVE  Inductive'
<1>. USE DEF ActNames, Unbound, RouteActs, Confs, Talks, Stations
<1>0. c \in Call \cup {Keep}
  OBVIOUS
<1>1. CASE AgentAnswerCall(d, c)
  <2>1. FieldsFit(Req("AgentAnswerCall", "ANSWER_CALL", d, "csConnect", "begin", c))
    BY DEF FieldsFit, Req
  <2>2. SendOn(Req("AgentAnswerCall", "ANSWER_CALL", d, "csConnect", "begin", c), d)
    BY <1>1 DEF AgentAnswerCall, Send, Req
  <2>. QED  BY <1>0, <2>1, <2>2, SendReqInductive
<1>2. CASE AgentClearConnection(d, c)
  <2>1. FieldsFit(Req("AgentClearConnection", "CLEAR_CONNECTION", d, "csNull", "end", c))
    BY DEF FieldsFit, Req
  <2>2. SendOn(Req("AgentClearConnection", "CLEAR_CONNECTION", d, "csNull", "end", c), d)
    BY <1>2 DEF AgentClearConnection, Send, Req
  <2>. QED  BY <1>0, <2>1, <2>2, SendReqInductive
<1>3. CASE AgentDisconnectCall(d, c)
  <2>1. FieldsFit(Req("AgentDisconnectCall", "CLEAR_CONNECTION", d, "csNull", "end", c))
    BY DEF FieldsFit, Req
  <2>2. SendOn(Req("AgentDisconnectCall", "CLEAR_CONNECTION", d, "csNull", "end", c), d)
    BY <1>3 DEF AgentDisconnectCall, Send, Req
  <2>. QED  BY <1>0, <2>1, <2>2, SendReqInductive
<1>4. CASE AgentHoldCall(d, c)
  <2>1. FieldsFit(Req("AgentHoldCall", "HOLD_CALL", d, "csHold", "hold", c))
    BY DEF FieldsFit, Req
  <2>2. SendOn(Req("AgentHoldCall", "HOLD_CALL", d, "csHold", "hold", c), d)
    BY <1>4 DEF AgentHoldCall, Send, Req
  <2>. QED  BY <1>0, <2>1, <2>2, SendReqInductive
<1>5. CASE AgentRetrieveCall(d, c)
  <2>1. FieldsFit(Req("AgentRetrieveCall", "RETRIEVE_CALL", d, "csConnect", "unhold", c))
    BY DEF FieldsFit, Req
  <2>2. SendOn(Req("AgentRetrieveCall", "RETRIEVE_CALL", d, "csConnect", "unhold", c), d)
    BY <1>5 DEF AgentRetrieveCall, Send, Req
  <2>. QED  BY <1>0, <2>1, <2>2, SendReqInductive
<1>6. CASE AgentDeflectCall(d, c)
  <2>1. FieldsFit(Req("AgentDeflectCall", "DEFLECT_CALL", d, "csNull", "transfer", c))
    BY DEF FieldsFit, Req
  <2>2. SendOn(Req("AgentDeflectCall", "DEFLECT_CALL", d, "csNull", "transfer", c), d)
    BY <1>6 DEF AgentDeflectCall, Send, Req
  <2>. QED  BY <1>0, <2>1, <2>2, SendReqInductive
<1>7. CASE AgentPickupCall(d, c)
  <2>1. FieldsFit(Req("AgentPickupCall", "PICKUP_CALL", d, "csNull", "transfer", c))
    BY DEF FieldsFit, Req
  <2>2. SendOn(Req("AgentPickupCall", "PICKUP_CALL", d, "csNull", "transfer", c), d)
    BY <1>7 DEF AgentPickupCall, Send, Req
  <2>. QED  BY <1>0, <2>1, <2>2, SendReqInductive
<1>8. CASE AgentReconnectCall(d, c)
  <2>1. FieldsFit(Req("AgentReconnectCall", "RECONNECT_CALL", d, "csConnect", "threeWay", c))
    BY DEF FieldsFit, Req
  <2>2. SendOn(Req("AgentReconnectCall", "RECONNECT_CALL", d, "csConnect", "threeWay", c), d)
    BY <1>8 DEF AgentReconnectCall, Send, Req
  <2>. QED  BY <1>0, <2>1, <2>2, SendReqInductive
<1>. QED  BY <1>1, <1>2, <1>3, <1>4, <1>5, <1>6, <1>7, <1>8

\* The operations on an extension.
LEMMA DeviceOperationInductive ==
  ASSUME Inductive, NEW d \in Device, NEW e \in Device,
         \/ AgentMakeCall(d) \/ AgentConferenceCall(d) \/ AgentConsultationCall(d)
         \/ QueryAgentStatus(d) \/ SnapshotDevice(d)
         \/ SingleStepTransferCall(d) \/ SingleStepConferenceCall(e, d)
  PROVE  Inductive'
<1>. USE DEF ActNames, Unbound, RouteActs, Confs, Talks, Stations
<1>0. Keep \in Call \cup {Keep} /\ Keep \in Talks \cup {Keep} /\ Keep \in Stations \cup {Keep}
  OBVIOUS
<1>1. CASE AgentMakeCall(d)
  <2>1. FieldsFit(Req("AgentMakeCall", "MAKE_CALL", d, "csInitiate", Keep, Keep))
    BY DEF FieldsFit, Req
  <2>2. SendOn(Req("AgentMakeCall", "MAKE_CALL", d, "csInitiate", Keep, Keep), d)
    BY <1>1 DEF AgentMakeCall, Send, Req
  <2>. QED  BY <1>0, <2>1, <2>2, SendReqInductive
<1>2. CASE AgentConferenceCall(d)
  <2>1. FieldsFit(Req("AgentConferenceCall", "CONFERENCE_CALL", d, "csConnect", "threeWay", Keep))
    BY DEF FieldsFit, Req
  <2>2. SendOn(Req("AgentConferenceCall", "CONFERENCE_CALL", d, "csConnect", "threeWay", Keep), d)
    BY <1>2 DEF AgentConferenceCall, Send, Req
  <2>. QED  BY <1>0, <2>1, <2>2, SendReqInductive
<1>3. CASE AgentConsultationCall(d)
  <2>1. FieldsFit(Req("AgentConsultationCall", "CONSULTATION_CALL", d, "csConnect", "hold", Keep))
    BY DEF FieldsFit, Req
  <2>2. SendOn(Req("AgentConsultationCall", "CONSULTATION_CALL", d, "csConnect", "hold", Keep), d)
    BY <1>3 DEF AgentConsultationCall, Send, Req
  <2>. QED  BY <1>0, <2>1, <2>2, SendReqInductive
<1>4. CASE QueryAgentStatus(d)
  <2>1. FieldsFit(Req("QueryAgentStatus", "QUERY_AGENT_STATE", d, Keep, Keep, Keep))
    BY DEF FieldsFit, Req
  <2>2. SendOn(Req("QueryAgentStatus", "QUERY_AGENT_STATE", d, Keep, Keep, Keep), d)
    BY <1>4 DEF QueryAgentStatus, Send, Req
  <2>. QED  BY <1>0, <2>1, <2>2, SendReqInductive
<1>5. CASE SnapshotDevice(d)
  <2>1. FieldsFit(Req("AgentSnapshotDevice", "SNAPSHOT_DEVICE", d, Keep, Keep, Keep))
    BY DEF FieldsFit, Req
  <2>2. SendOn(Req("AgentSnapshotDevice", "SNAPSHOT_DEVICE", d, Keep, Keep, Keep), d)
    BY <1>5 DEF SnapshotDevice, Send, Req
  <2>. QED  BY <1>0, <2>1, <2>2, SendReqInductive
<1>6. CASE SingleStepTransferCall(d)
  <2>1. FieldsFit(Req("AgentSingleStepTransferCall", "ESCAPE_SVC", d, "csNull", "transfer", Keep))
    BY DEF FieldsFit, Req
  <2>2. \/ SendOn(Req("AgentSingleStepTransferCall", "ESCAPE_SVC", d, "csNull", "transfer", Keep), d)
        \/ PrivateDataRefused("AgentSingleStepTransferCall")
    BY <1>6 DEF SingleStepTransferCall, Send, Req
  <2>. QED  BY <1>0, <2>1, <2>2, SendReqInductive, PrivateDataRefusedInductive
<1>7. CASE SingleStepConferenceCall(e, d)
  <2>1. FieldsFit(Req("SingleStepConferenceCall", "ESCAPE_SVC", d, "csConnect", "group", Keep))
    BY DEF FieldsFit, Req
  <2>2. \/ SendOn(Req("SingleStepConferenceCall", "ESCAPE_SVC", d, "csConnect", "group", Keep), e)
        \/ PrivateDataRefused("SingleStepConferenceCall")
    BY <1>7 DEF SingleStepConferenceCall, Send, Req
  <2>. QED  BY <1>0, <2>1, <2>2, SendReqInductive, PrivateDataRefusedInductive
<1>. QED  BY <1>1, <1>2, <1>3, <1>4, <1>5, <1>6, <1>7

-----------------------------------------------------------------------------
(* The inductive invariant: call routing. *)

\* A registration or its cancelling binds its ID whatever the library answers
\* (T 2530 to 2584).
LEMMA SendEagerInductive ==
  ASSUME Inductive, NEW req \in Request, FieldsFit(req),
         req.act \in {"RouteRegister", "RouteRegisterCancel"},
         req.talk = Keep, req.call = Keep, req.station = Keep, req.mode = Keep,
         SendEager(req)
  PROVE  Inductive'
<1>1. PICK rc \in ReturnCodes : Invoke(req, rc)
  BY DEF SendEager, Returns, ReturnCodes
<1>2. /\ Bind(NextID, req.act, BoundDevice(req)) /\ filed' = NoRecord
      /\ UNCHANGED <<stream, agentMaps, callMaps, modal, setBy>>
  BY DEF SendEager
<1>3. NextID <= MaxInvokeID /\ NextID \in InvokeIDs /\ invokeID' = NextID /\ retCode' = rc
  BY <1>1, FreshID DEF Invoke, Inductive
<1>4. /\ req.act \in LeakyActs /\ req.act \in ActNames /\ req.act \notin Unbound
      /\ BoundDevice(req) \in Device \cup {AChar}
      /\ BoundDevice(req) = AChar => req.act \in {"RouteRegisterCancel", "RouteEndInv"}
  BY BoundDeviceOf DEF LeakyActs, RouteActs, ActNames, Unbound
<1>5. /\ InvokeID2DeviceID' \in [InvokeIDs -> Device \cup {Empty, AChar}]
      /\ InvokeID2ActName' \in [InvokeIDs -> ActNames \cup {Empty}]
  BY <1>2, <1>3, <1>4 DEF Bind, Inductive, TypeOK
<1>6. /\ \A n : n = NextID => KeptAll(req, n)'
      /\ \A r \in Request, i \in Nat : i < NextID /\ KeptAll(r, i) => KeptAll(r, i)'
  BY <1>2 DEF KeptAll, Kept, callMaps, agentMaps
<1>7. CASE rc = "nak"
  <2>1. wire' = wire
    BY <1>1, <1>7 DEF Invoke
  <2>2. TypeOK'
    BY <1>2, <1>3, <1>5, <2>1 DEF Inductive, TypeOK, callMaps, agentMaps
  <2>. QED  BY <1>2, <1>3, <1>4, <1>6, <2>1, <2>2, BindStep
<1>8. CASE rc = "ack"
  <2>1. wire' = [wire EXCEPT ![NextID] = req]
    BY <1>1, <1>8 DEF Invoke
  <2>2. TypeOK'
    BY <1>2, <1>3, <1>5, <2>1 DEF Inductive, TypeOK, callMaps, agentMaps
  <2>. QED  BY <1>2, <1>3, <1>4, <1>6, <2>1, <2>2, SubmitStep
<1>. QED  BY <1>7, <1>8 DEF ReturnCodes

\* The two buttons keep the invariant.
LEMMA RoutingButtonsInductive ==
  ASSUME Inductive, RoutingButtons
  PROVE  Inductive'
<1>1. PICK d \in Device : RouteRegister(d) \/ RouteRegisterCancel(d)
  BY DEF RoutingButtons
<1>2. ASSUME NEW act \in {"RouteRegister", "RouteRegisterCancel"},
             NEW conf \in {"ROUTE_REGISTER_REQ", "ROUTE_REGISTER_CANCEL"},
             SendEager(Req(act, conf, d, Keep, Keep, Keep))
      PROVE  Inductive'
  <2>. DEFINE req == Req(act, conf, d, Keep, Keep, Keep)
  <2>1. /\ req \in Request /\ req.act = act /\ req.conf = conf
        /\ req.talk = Keep /\ req.call = Keep /\ req.station = Keep /\ req.mode = Keep
    BY DEF Req, Request, ActNames, Confs
  <2>. HIDE DEF req
  <2>2. FieldsFit(req)
    BY <2>1 DEF FieldsFit
  <2>3. SendEager(req)
    BY <1>2 DEF req
  <2>. QED  BY <2>1, <2>2, <2>3, SendEagerInductive
<1>. QED  BY <1>1, <1>2 DEF RouteRegister, RouteRegisterCancel

\* What the events of the switch make the program send keeps it: nobody confirms
\* it, and its entry stays (T 2526, 2616).
LEMMA RouteInvInductive ==
  ASSUME Inductive, (\E d \in Device : RouteRequestExtEvent(d)) \/ ConnectionCleared
  PROVE  Inductive'
<1>1. PICK act \in {"RouteSelectInv", "RouteEndInv"}, d \in Device \cup {AChar} :
        RouteInv(act, d) /\ (d = AChar => act = "RouteEndInv")
  BY DeviceAssumption DEF RouteRequestExtEvent, ConnectionCleared
<1>2. act \in LeakyActs /\ act \in ActNames
  BY DEF LeakyActs, RouteActs, ActNames
<1>3. /\ invokeID' = NextID /\ NextID \in InvokeIDs /\ retCode' \in ReturnCodes
      /\ filed' = NoRecord /\ Bind(NextID, act, d)
      /\ UNCHANGED <<stream, agentMaps, callMaps, modal, wire, setBy>>
  BY <1>1, FreshID DEF RouteInv, Inductive, Returns, ReturnCodes
<1>4. /\ InvokeID2DeviceID' \in [InvokeIDs -> Device \cup {Empty, AChar}]
      /\ InvokeID2ActName' \in [InvokeIDs -> ActNames \cup {Empty}]
  BY <1>2, <1>3 DEF Bind, Inductive, TypeOK
<1>5. TypeOK'
  BY <1>3, <1>4 DEF Inductive, TypeOK, callMaps, agentMaps
<1>6. \A r \in Request, i \in Nat : i < NextID /\ KeptAll(r, i) => KeptAll(r, i)'
  BY <1>3 DEF KeptAll, Kept, callMaps, agentMaps
<1>. QED  BY <1>1, <1>2, <1>3, <1>5, <1>6, BindStep

-----------------------------------------------------------------------------
(* Confirmations. *)

\* What the handler files is a record, or nothing.
LEMMA ConfirmedMesType ==
  ASSUME Inductive, NEW i \in InvokeIDs, InFlight(i)
  PROVE  ConfirmedMes(i) \in Record \cup {NoRecord}
<1>. DEFINE act == InvokeID2ActName[i]
            d   == InvokeID2DeviceID[i]
<1>1. /\ act \in ActNames \cup {Empty} /\ d \in Device \cup {Empty, AChar}
      /\ act = Empty <=> d = Empty
      /\ d = AChar => act \in RouteActs
      /\ wire[i].conf = "QUERY_AGENT_STATE" => act # Empty /\ act \notin RouteActs
  <2>1. TypeOK /\ EntryOK(i)
    BY DEF Inductive
  <2>2. wire[i].conf = "QUERY_AGENT_STATE" => wire[i].act = "QueryAgentStatus"
    BY <2>1 DEF EntryOK, FieldsFit
  <2>3. /\ "QueryAgentStatus" # Empty /\ "AgentSetState" # Empty
        /\ "QueryAgentStatus" \notin Unbound \cup RouteActs /\ "AgentSetState" \notin RouteActs
        /\ {"RouteRegisterCancel", "RouteEndInv"} \subseteq RouteActs
    BY DEF Empty, Unbound, RouteActs
  <2>4. act \in ActNames \cup {Empty} /\ d \in Device \cup {Empty, AChar}
    BY <2>1 DEF TypeOK
  <2>5. /\ act = Empty <=> d = Empty
        /\ d = AChar => act \in {"RouteRegisterCancel", "RouteEndInv"}
        /\ act = "AgentSetState" \/ wire[i].act \in Unbound \/ act = wire[i].act
    BY <2>1 DEF EntryOK
  <2>. QED  BY <2>2, <2>3, <2>4, <2>5
<1>2. ASSUME d \in Device
      PROVE  /\ DeviceID2AgentID[d] \in Agent \cup {Empty}
             /\ DeviceID2AgentMode[d] \in AgentModes \cup {Empty}
             /\ DeviceID2CallID[d] \in Call \cup {Empty}
             /\ DeviceID2TalkState[d] \in Talks \cup {Empty}
             /\ DeviceID2station[d] \in Stations \cup {Empty}
  BY <1>2 DEF Inductive, TypeOK
<1>3. ASSUME act # Empty, act \notin RouteActs, NEW tables \in SUBSET Tables,
             NEW mode \in AgentModes \cup {Empty, "reported"},
             NEW c \in Call \cup {Empty, "reported"},
             NEW talk \in Talks \cup {Empty}, NEW station \in Stations \cup {Empty}
      PROVE  Mes(i, tables, mode, c, talk, station) \in Record
  <2>1. act \in ActNames /\ d \in Device
    BY <1>1, <1>3
  <2>. QED  BY <1>2, <1>3, <2>1 DEF Mes, Record
<1>. HIDE DEF act, d
<1>4. SetAgentStateConf(i) \in Record \cup {NoRecord}
  <2>1. SetAgentStateConf(i) = IF act \in {"AgentLogin", "AgentLogout", "AgentSetState"}
          THEN Mes(i, {"Agentsate"}, DeviceID2AgentMode[d], Empty, Empty, Empty) ELSE NoRecord
    BY DEF SetAgentStateConf, FiledIf, act, d
  <2>2. ASSUME act \in {"AgentLogin", "AgentLogout", "AgentSetState"}
        PROVE  act # Empty /\ act \notin RouteActs /\ d \in Device
    BY <1>1, <2>2 DEF Empty, RouteActs
  <2>. QED  BY <1>2, <1>3, <2>1, <2>2 DEF Tables
<1>5. ASSUME NEW name \in ActNames \ RouteActs
      PROVE  CallConf(i, name) \in Record \cup {NoRecord}
  <2>1. CallConf(i, name) = IF act \in {name}
          THEN Mes(i, {"Stationstate", "Callstate"}, Empty,
                   DeviceID2CallID[d], DeviceID2TalkState[d], DeviceID2station[d])
          ELSE NoRecord
    BY DEF CallConf, FiledIf, act, d
  <2>2. ASSUME act = name  PROVE act # Empty /\ act \notin RouteActs /\ d \in Device
    BY <1>1, <2>2 DEF Empty, ActNames
  <2>. QED  BY <1>2, <1>3, <2>1, <2>2 DEF Tables
<1>6. ASSUME NEW names \in SUBSET (ActNames \ RouteActs)
      PROVE  NewCallConf(i, names) \in Record \cup {NoRecord}
  <2>1. NewCallConf(i, names) = IF act \in names
          THEN Mes(i, {"Stationstate", "Callstate"}, Empty,
                   "reported", DeviceID2TalkState[d], DeviceID2station[d])
          ELSE NoRecord
    BY DEF NewCallConf, FiledIf, act, d
  <2>2. ASSUME act \in names  PROVE act # Empty /\ act \notin RouteActs /\ d \in Device
    BY <1>1, <2>2 DEF Empty, ActNames
  <2>. QED  BY <1>2, <1>3, <2>1, <2>2 DEF Tables
<1>7. MakeCallConf(i) \in Record \cup {NoRecord}
  <2>1. MakeCallConf(i) = IF act \in {"AgentMakeCall"}
          THEN Mes(i, {"Stationstate"}, Empty, Empty, DeviceID2TalkState[d], Empty) ELSE NoRecord
    BY DEF MakeCallConf, FiledIf, act, d
  <2>2. ASSUME act = "AgentMakeCall"
        PROVE  act # Empty /\ act \notin RouteActs /\ d \in Device
    BY <1>1, <2>2 DEF Empty, RouteActs
  <2>. QED  BY <1>2, <1>3, <2>1, <2>2 DEF Tables
<1>8. ASSUME wire[i].conf = "QUERY_AGENT_STATE"
      PROVE  QueryAgentStateConf(i) \in Record
  BY <1>1, <1>3, <1>8 DEF Tables, QueryAgentStateConf, act
<1>9. /\ \A name \in ActNames \ RouteActs : CallConf(i, name) \in Record \cup {NoRecord}
      /\ \A names \in SUBSET (ActNames \ RouteActs) : NewCallConf(i, names) \in Record \cup {NoRecord}
  BY <1>5, <1>6
<1>. QED  BY <1>4, <1>7, <1>8, <1>9 DEF ConfirmedMes, ActNames, RouteActs

\* Whatever confirmation a request gets, the entries of its ID go.
LEMMA AnsweredInductive ==
  ASSUME Inductive, NEW i \in InvokeIDs, HandleCSTAConfirmation(i) \/ UniversalFailureConf(i)
  PROVE  Inductive'
<1>1. /\ Release(i) /\ wire' = [wire EXCEPT ![i] = NoRequest] /\ retCode' = "ack"
      /\ UNCHANGED <<stream, invokeID, agentMaps, callMaps, modal, setBy>>
  BY DEF HandleCSTAConfirmation, UniversalFailureConf, Answered
<1>2. filed' \in Record \cup {NoRecord}
  <2>1. CASE HandleCSTAConfirmation(i)
    BY <2>1, ConfirmedMesType DEF HandleCSTAConfirmation, Answered
  <2>2. CASE UniversalFailureConf(i)
    BY <2>2 DEF UniversalFailureConf
  <2>. QED  BY <2>1, <2>2
<1>3. /\ InvokeID2DeviceID' \in [InvokeIDs -> Device \cup {Empty, AChar}]
      /\ InvokeID2ActName' \in [InvokeIDs -> ActNames \cup {Empty}]
  BY <1>1 DEF Inductive, TypeOK, Release
<1>4. wire' \in [InvokeIDs -> Request \cup {NoRequest}]
  BY <1>1 DEF Inductive, TypeOK
<1>5. TypeOK'
  BY <1>1, <1>2, <1>3, <1>4 DEF Inductive, TypeOK, agentMaps, callMaps, ReturnCodes, InvokeIDs
<1>6. \A j \in InvokeIDs : wire'[j] = IF j = i THEN NoRequest ELSE wire[j]
  BY <1>1 DEF Inductive, TypeOK
<1>. QED  BY <1>1, <1>5, <1>6, ReleaseStep DEF agentMaps

\* The confirmation of acsOpenStream: the first ID is never a request's.
LEMMA HandleACSConfirmationInductive ==
  ASSUME Inductive, HandleACSConfirmation
  PROVE  Inductive'
<1>1. /\ stream' \in {"open", "ended", "none"} /\ retCode' = "ack" /\ filed' = NoRecord
      /\ Release(1) /\ UNCHANGED <<invokeID, agentMaps, callMaps, modal, wire, setBy>>
  BY DEF HandleACSConfirmation, Release
<1>2. 1 \in InvokeIDs
  BY BoundsAssumption DEF InvokeIDs
<1>3. wire[1] = NoRequest
  BY <1>2 DEF Inductive, EntryOK, InFlight
<1>4. /\ InvokeID2DeviceID' \in [InvokeIDs -> Device \cup {Empty, AChar}]
      /\ InvokeID2ActName' \in [InvokeIDs -> ActNames \cup {Empty}]
  BY <1>1 DEF Inductive, TypeOK, Release
<1>5. TypeOK'
  BY <1>1, <1>4 DEF Inductive, TypeOK, agentMaps, callMaps, ReturnCodes, InvokeIDs
<1>. QED  BY <1>1, <1>2, <1>3, <1>5, ReleaseStep DEF agentMaps

\* The steps that leave requests and bindings alone.
LEMMA OtherStepsInductive ==
  ASSUME Inductive,
         \/ OpenStream \/ CloseStream \/ BadNumber \/ OtherEvent \/ RoutingThrows
         \/ \E i \in InvokeIDs : SnapshotOfIdleDevice(i)
  PROVE  Inductive'
<1>1. /\ UNCHANGED <<invokeID, maps, agentMaps, callMaps, modal, wire, setBy>>
      /\ filed' \in {filed, NoRecord} /\ retCode' \in ReturnCodes \cup {retCode}
      /\ stream' \in {stream, "none", "opening", "deaf", "ended"}
  BY DEF OpenStream, CloseStream, BadNumber, OtherEvent, RoutingThrows, SnapshotOfIdleDevice,
     ReturnCodes
<1>2. TypeOK'
  BY <1>1 DEF Inductive, TypeOK, maps, agentMaps, callMaps, InvokeIDs
<1>. QED  BY <1>1, <1>2, QuietStep DEF agentMaps

\* An event that cannot be fetched opens the last box and changes no map.
LEMMA ReceiveErrorInductive ==
  ASSUME Inductive, ReceiveError
  PROVE  Inductive'
<1>1. /\ retCode' = "nak" /\ filed' = NoRecord /\ modal' = Append(modal, ExitFrame)
      /\ Len(modal) < MaxModal
      /\ UNCHANGED <<stream, invokeID, maps, agentMaps, callMaps, wire, setBy>>
  BY DEF ReceiveError
<1>2. modal' \in Seq(Frame) /\ Len(modal') <= MaxModal
  BY <1>1, AppendProperties, BoundsAssumption DEF Inductive, TypeOK, Frame
<1>3. TypeOK'
  BY <1>1, <1>2 DEF Inductive, TypeOK, maps, agentMaps, callMaps, InvokeIDs, ReturnCodes
<1>. QED  BY <1>1, <1>3, QuietStep DEF agentMaps

-----------------------------------------------------------------------------
(* The inductive invariant, and what follows from it. *)

\* Every message of the dispatcher keeps the invariant.
LEMMA DispatchInductive ==
  ASSUME Inductive, SelectTSAPIInterface
  PROVE  Inductive'
<1>1. PICK d \in Device :
        \/ \E a \in Agent, work \in WorkModes :
             \/ AgentLogin(d, a, work)
             \/ \E mode \in AgtModes, enablePending \in BOOLEAN :
                  AgentSetState(d, a, mode, work, enablePending)
        \/ AgentLogout(d)
        \/ \E c \in Call : \/ AgentAnswerCall(d, c)     \/ AgentClearConnection(d, c)
                           \/ AgentDisconnectCall(d, c) \/ AgentHoldCall(d, c)
                           \/ AgentRetrieveCall(d, c)   \/ AgentDeflectCall(d, c)
                           \/ AgentPickupCall(d, c)     \/ AgentReconnectCall(d, c)
        \/ AgentMakeCall(d) \/ AgentConferenceCall(d) \/ AgentConsultationCall(d)
        \/ AgentTransferCall(d) \/ SingleStepTransferCall(d)
        \/ \E e \in Device : SingleStepConferenceCall(e, d)
        \/ QueryAgentStatus(d) \/ SnapshotDevice(d) \/ StartMonitor(d) \/ StopMonitor(d)
  BY DEF SelectTSAPIInterface
<1>2. ASSUME NEW a \in Agent, NEW work \in WorkModes, AgentLogin(d, a, work)
      PROVE  Inductive'
  BY <1>2, LoginInductive
<1>3. ASSUME NEW a \in Agent, NEW work \in WorkModes, NEW mode \in AgtModes,
             NEW enablePending \in BOOLEAN, AgentSetState(d, a, mode, work, enablePending)
      PROVE  Inductive'
  <2>1. mode \in SetModes
    BY OpsAssumption
  <2>. QED  BY <1>3, <2>1, AgentSetStateInductive
<1>4. ASSUME AgentLogout(d)  PROVE Inductive'
  BY <1>4, LogoutInductive
<1>5. ASSUME NEW c \in Call,
             \/ AgentAnswerCall(d, c)     \/ AgentClearConnection(d, c)
             \/ AgentDisconnectCall(d, c) \/ AgentHoldCall(d, c)
             \/ AgentRetrieveCall(d, c)   \/ AgentDeflectCall(d, c)
             \/ AgentPickupCall(d, c)     \/ AgentReconnectCall(d, c)
      PROVE  Inductive'
  BY <1>5, CallOperationInductive
<1>6. ASSUME \/ AgentMakeCall(d) \/ AgentConferenceCall(d) \/ AgentConsultationCall(d)
             \/ QueryAgentStatus(d) \/ SnapshotDevice(d) \/ SingleStepTransferCall(d)
             \/ \E e \in Device : SingleStepConferenceCall(e, d)
      PROVE  Inductive'
  BY <1>6, DeviceOperationInductive
<1>7. ASSUME AgentTransferCall(d)  PROVE Inductive'
  BY <1>7, TransferInductive
<1>8. ASSUME StartMonitor(d) \/ StopMonitor(d)  PROVE Inductive'
  BY <1>8, SendUnboundInductive DEF StartMonitor, StopMonitor
<1>. QED  BY <1>1, <1>2, <1>3, <1>4, <1>5, <1>6, <1>7, <1>8

\* Every step keeps the invariant.
LEMMA NextInductive == Inductive /\ [Next]_vars => Inductive'
<1>. SUFFICES ASSUME Inductive, [Next]_vars  PROVE Inductive'
  OBVIOUS
<1>1. CASE OpenStream \/ CloseStream \/ BadNumber
  BY <1>1, OtherStepsInductive
<1>2. CASE CloseMessageBox
  BY <1>2, CloseMessageBoxInductive
<1>3. CASE SelectTSAPIInterface
  BY <1>3, DispatchInductive
<1>4. CASE TSAPIMessageHandler
  BY <1>4, HandleACSConfirmationInductive, AnsweredInductive, OtherStepsInductive,
     ReceiveErrorInductive, RouteInvInductive DEF TSAPIMessageHandler
<1>5. CASE UNCHANGED vars
  <2>1. TypeOK'
    BY <1>5 DEF Inductive, TypeOK, vars, maps, agentMaps, callMaps, InvokeIDs
  <2>. QED  BY <1>5, <2>1, QuietStep DEF vars, agentMaps
<1>6. CASE RoutingButtons
  BY <1>6, RoutingButtonsInductive
<1>. QED  BY <1>1, <1>2, <1>3, <1>4, <1>5, <1>6 DEF Next

\* The inductive invariant holds in every state of the program.
THEOREM InductiveInvariant == Spec => []Inductive
<1>. QED  BY InitInductive, NextInductive, PTL DEF Spec

\* Every variable of the request side stays within its type: nothing but IDs
\* that were issued, operations that exist and extensions that were named gets
\* into the maps, and no record with a wrong field is filed.
THEOREM TypeCorrect == Spec => []TypeOK
<1>1. Inductive => TypeOK
  BY DEF Inductive
<1>. QED  BY <1>1, InductiveInvariant, PTL

\* The two maps from invoke IDs mean what the switch was asked (T 1584 to 2218).
THEOREM BindingsFaithful == Spec => []BindingFaithful
<1>1. Inductive => BindingFaithful
  BY DEF Inductive, EntryOK, BindingFaithful
<1>. QED  BY <1>1, InductiveInvariant, PTL

\* Only the operations that bind without a look at the return code, or without a
\* confirmation to come, leave entries behind; the routing requests that events
\* of the switch cause are among them.
THEOREM OnlyLeakyActsLeak == Spec => []LeftoversAreLeaky
<1>1. Inductive => LeftoversAreLeaky
  BY DEF Inductive, EntryOK, LeftoversAreLeaky
<1>. QED  BY <1>1, InductiveInvariant, PTL

\* What a request assigned to the maps of its extension is there for its
\* confirmation, unless a later operation has assigned it.
THEOREM AssignmentsKept == Spec => []LatestKept
<1>1. Inductive => LatestKept
  BY DEF Inductive, LatestKept
<1>. QED  BY <1>1, InductiveInvariant, PTL
=============================================================================

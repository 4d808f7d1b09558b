--------------------------- MODULE Routing_proofs ---------------------------
(* Proofs about Routing, for every set of extensions, registrations and       *)
(* dialogs and every number of requests and events: the types, that a         *)
(* confirmation finds the entry of its request, and that registrations and    *)
(* dialogs are filed under their own extension.                               *)
EXTENDS Routing, SequenceTheorems, TLAPS

-----------------------------------------------------------------------------
(* The stream of events.                                                     *)

\* An event of a handler carries an invoke ID only if it confirms a request;
\* the confirmation of a registration names one of the extension that asked for
\* it, which the entry of the request still names unless AgentSetState has written
\* over it; a route request names a dialog of the extension it is about.
EventOK(e) ==
  /\ e.ev \in {"registered", "done"} =>
       e.id \in InvokeIDs /\ e.id <= invokeID /\ wire[e.id] = Nothing /\ bound[e.id] # Unbound
  /\ e.ev \notin {"registered", "done"} => e.id = 0
  /\ e.ev = "registered" =>
       /\ e.reg \in RegID /\ owner[e.reg] \in Device
       /\ bound[e.id].act = "AgentSetState" \/ bound[e.id].dev = owner[e.reg]
  /\ e.ev = "request" =>
       /\ e.dev \in Device /\ e.cross \in CrossRef
       /\ dialogs[e.cross] # NoDialog /\ dialogs[e.cross].dev = e.dev
  /\ e.ev = "cleared" => e.dev \in Device

EventsOK  == \A k \in DOMAIN events : EventOK(events[k])
OneAnswer == \A j, k \in DOMAIN events :
               events[j].id = events[k].id /\ events[j].id # 0 => j = k

\* A request the switch has still to confirm has its entry, or that of an
\* AgentSetState under its ID.
OwnEntry(i) ==
  \/ bound[i].act = "AgentSetState"
  \/ /\ bound[i].act = wire[i].act
     /\ bound[i].dev = IF wire[i].act = "RouteRegisterCancel" THEN AChar ELSE wire[i].dev
WireOK == \A i \in InvokeIDs : wire[i] # Nothing => i <= invokeID /\ OwnEntry(i)

\* A dialog that is filed is one.
FiledOK ==
  \A d \in Device :
    DeviceID2RoutingCrossRefID[d] # NoneYet => dialogs[DeviceID2RoutingCrossRefID[d]] # NoDialog

\* A live registration is of an extension.
OwnersOK == \A r \in sessions : owner[r] \in Device

RouteInv == TypeOK /\ EventsOK /\ OneAnswer /\ WireOK /\ FiledOK /\ OwnersOK

\* The events under way are a sequence of events.
LEMMA StreamTyped ==
  ASSUME TypeOK
  PROVE  /\ events \in Seq(Event) /\ Len(events) \in Nat
         /\ DOMAIN events = 1..Len(events)
         /\ \A k \in 1..Len(events) : events[k] \in Event
<1>1. events \in Seq(Event)
  BY DEF TypeOK
<1>. QED  BY <1>1

\* An event the switch sends comes last; the others keep their places.
LEMMA SentStream ==
  ASSUME RouteInv, NEW m \in Event, Send(m), EventOK(m)',
         \A e \in Event : EventOK(e) => EventOK(e)',
         m.id = 0 \/ \A k \in DOMAIN events : events[k].id # m.id
  PROVE  /\ events' \in Seq(Event) /\ Len(events') <= MaxEvents
         /\ EventsOK' /\ OneAnswer'
<1>1. events' = Append(events, m) /\ Len(events) < MaxEvents
  BY DEF Send
<1>2. /\ events' \in Seq(Event) /\ Len(events') = Len(events) + 1
      /\ \A k \in 1..Len(events) : events'[k] = events[k]
      /\ events'[Len(events) + 1] = m
  BY <1>1, StreamTyped, AppendProperties DEF RouteInv
<1>3. Len(events) \in Nat /\ DOMAIN events = 1..Len(events)
  BY StreamTyped DEF RouteInv
<1>4. DOMAIN events' = 1..(Len(events) + 1)
  BY <1>2
<1>5. Len(events') <= MaxEvents
  <2>1. Len(events) < MaxEvents /\ MaxEvents \in Nat
    BY <1>1, BoundsAssumption
  <2>. QED  BY <1>2, <1>3, <2>1
<1>6. ASSUME NEW k \in DOMAIN events'  PROVE k = Len(events) + 1 \/ k \in DOMAIN events
  BY <1>3, <1>4
<1>7. EventsOK'
  <2>. SUFFICES ASSUME NEW k \in DOMAIN events'  PROVE EventOK(events[k])'
    BY DEF EventsOK
  <2>1. CASE k = Len(events) + 1
    BY <1>2, <2>1 DEF EventOK
  <2>2. CASE k \in DOMAIN events
    <3>1. events'[k] = events[k] /\ events[k] \in Event /\ EventOK(events[k])
      BY <1>2, <1>3, <2>2, StreamTyped DEF RouteInv, EventsOK
    <3>2. PICK e \in Event : e = events[k] /\ EventOK(e)
      BY <3>1
    <3>. QED  BY <3>1, <3>2 DEF EventOK
  <2>. QED  BY <1>6, <2>1, <2>2
<1>8. OneAnswer'
  <2>. SUFFICES ASSUME NEW j \in DOMAIN events', NEW k \in DOMAIN events',
                       events'[j].id = events'[k].id, events'[j].id # 0
                PROVE  j = k
    BY DEF OneAnswer
  <2>1. \A i \in DOMAIN events : events'[i] = events[i]
    BY <1>2, <1>3
  <2>. QED  BY <1>2, <1>6, <2>1 DEF RouteInv, OneAnswer
<1>. QED  BY <1>2, <1>5, <1>7, <1>8

\* HandleEvent takes the oldest event off the stream; the others keep what was
\* true of them as long as their invoke IDs are left alone.
LEMMA HandledStream ==
  ASSUME RouteInv, events # <<>>, events' = Tail(events),
         \A e \in Event : EventOK(e) /\ (e.id = 0 \/ e.id # Head(events).id) => EventOK(e)'
  PROVE  /\ events' \in Seq(Event) /\ Len(events') <= MaxEvents
         /\ EventsOK' /\ OneAnswer'
<1>1. events \in Seq(Event) /\ Len(events) \in Nat /\ DOMAIN events = 1..Len(events)
  BY StreamTyped DEF RouteInv
<1>2. /\ events' \in Seq(Event) /\ Len(events') = Len(events) - 1
      /\ DOMAIN events' = 1..(Len(events) - 1)
      /\ \A k \in DOMAIN events' : k + 1 \in DOMAIN events /\ events'[k] = events[k + 1]
  BY <1>1
<1>3. Head(events) = events[1] /\ 1 \in DOMAIN events
  BY <1>1
<1>4. Len(events') <= MaxEvents
  <2>1. Len(events) <= MaxEvents /\ MaxEvents \in Nat
    BY BoundsAssumption DEF RouteInv, TypeOK
  <2>. QED  BY <1>1, <1>2, <2>1
<1>5. EventsOK'
  <2>. SUFFICES ASSUME NEW k \in DOMAIN events'  PROVE EventOK(events[k])'
    BY DEF EventsOK
  <2>1. k \in Nat /\ k + 1 \in DOMAIN events /\ 1 # k + 1 /\ events'[k] = events[k + 1]
    BY <1>2
  <2>2. events[k + 1] \in Event /\ EventOK(events[k + 1])
    BY <2>1, StreamTyped DEF RouteInv, EventsOK
  <2>3. events[k + 1].id = 0 \/ events[k + 1].id # events[1].id
    BY <1>3, <2>1 DEF RouteInv, OneAnswer
  <2>4. PICK e \in Event : e = events[k + 1] /\ EventOK(e)'
    BY <1>3, <2>2, <2>3
  <2>. QED  BY <2>1, <2>4 DEF EventOK
<1>6. OneAnswer'
  <2>. SUFFICES ASSUME NEW j \in DOMAIN events', NEW k \in DOMAIN events',
                       events'[j].id = events'[k].id, events'[j].id # 0
                PROVE  j = k
    BY DEF OneAnswer
  <2>1. j + 1 = k + 1
    BY <1>2 DEF RouteInv, OneAnswer
  <2>. QED  BY <1>1, <1>2, <2>1
<1>. QED  BY <1>2, <1>4, <1>5, <1>6

-----------------------------------------------------------------------------
(* The requests.                                                             *)

\* TSAPIInterface binds the next invoke ID to the request; the entries of the
\* earlier ones stay.
LEMMA RequestBinds ==
  ASSUME TypeOK, NEW k \in Keys, NEW act \in Acts, Request(k, act)
  PROVE  /\ invokeID \in Nat /\ invokeID' = invokeID + 1 /\ invokeID' \in InvokeIDs
         /\ bound' \in [InvokeIDs -> [dev : Keys, act : Acts \cup {Empty}]]
         /\ bound'[invokeID + 1] = [dev |-> k, act |-> act]
         /\ \A i \in InvokeIDs : i <= invokeID => bound'[i] = bound[i]
<1>1. /\ invokeID \in InvokeIDs /\ invokeID \in Nat /\ MaxInvokeID \in Nat
      /\ invokeID < MaxInvokeID
  BY BoundsAssumption DEF TypeOK, Request, InvokeIDs
<1>2. invokeID' = invokeID + 1 /\ bound' = [bound EXCEPT ![invokeID + 1] = [dev |-> k, act |-> act]]
  BY DEF Request, Bind
<1>3. invokeID + 1 \in InvokeIDs /\ ~(invokeID + 1 <= invokeID)
  BY <1>1 DEF InvokeIDs
<1>4. bound \in [InvokeIDs -> [dev : Keys, act : Acts \cup {Empty}]]
  BY DEF TypeOK
<1>5. [dev |-> k, act |-> act] \in [dev : Keys, act : Acts \cup {Empty}]
  OBVIOUS
<1>. HIDE DEF Acts, Keys
<1>6. bound' \in [InvokeIDs -> [dev : Keys, act : Acts \cup {Empty}]]
  BY <1>2, <1>3, <1>4, <1>5
<1>. QED  BY <1>1, <1>2, <1>3, <1>4, <1>6

\* An event keeps what was true of it while its entry stays, or AgentSetState writes
\* over it: later requests get later IDs, a registration has one owner and a dialog one extension for good.
LEMMA EventsKeep ==
  ASSUME RouteInv, NEW h, invokeID' \in Nat, invokeID <= invokeID',
         \A i \in InvokeIDs : i <= invokeID /\ i # h =>
           bound'[i] = bound[i] \/ bound'[i].act = "AgentSetState",
         \A i \in InvokeIDs : i <= invokeID => wire'[i] = wire[i] \/ wire'[i] = Nothing,
         \A r \in RegID : owner[r] # Empty => owner'[r] = owner[r],
         \A x \in CrossRef : dialogs[x] # NoDialog =>
           dialogs'[x] # NoDialog /\ dialogs'[x].dev = dialogs[x].dev
  PROVE  \A e \in Event : EventOK(e) /\ (e.id = 0 \/ e.id # h) => EventOK(e)'
<1>. SUFFICES ASSUME NEW e \in Event, EventOK(e), e.id = 0 \/ e.id # h  PROVE EventOK(e)'
  OBVIOUS
<1>1. invokeID \in Nat /\ \A i \in InvokeIDs : i \in Nat /\ i # 0
  BY BoundsAssumption DEF RouteInv, TypeOK, InvokeIDs
<1>2. e.ev \in {"registered", "done"} =>
        e.id \in InvokeIDs /\ e.id <= invokeID' /\ wire'[e.id] = Nothing /\ bound'[e.id] # Unbound
           /\ (bound'[e.id] = bound[e.id] \/ bound'[e.id].act = "AgentSetState")
  <2>1. Unbound.act # "AgentSetState"
    BY DEF Unbound, Empty
  <2>. QED  BY <1>1, <2>1 DEF EventOK
<1>3. e.ev = "registered" =>
        /\ e.reg \in RegID /\ owner'[e.reg] \in Device
        /\ bound'[e.id].act = "AgentSetState" \/ bound'[e.id].dev = owner'[e.reg]
  <2>1. SUFFICES ASSUME e.ev = "registered"
                 PROVE  /\ e.reg \in RegID /\ owner'[e.reg] = owner[e.reg]
                        /\ bound'[e.id] = bound[e.id] \/ bound'[e.id].act = "AgentSetState"
    BY DEF EventOK
  <2>. QED  BY <1>2, <2>1, KeysAssumption DEF EventOK
<1>. QED  BY <1>2, <1>3 DEF EventOK

\* A dialog that is filed stays one.
LEMMA FiledKeeps ==
  ASSUME RouteInv, UNCHANGED filed,
         \A x \in CrossRef : dialogs[x] # NoDialog =>
           dialogs'[x] # NoDialog /\ dialogs'[x].dev = dialogs[x].dev
  PROVE  FiledOK'
<1>. SUFFICES ASSUME NEW d \in Device
              PROVE  DeviceID2RoutingCrossRefID[d] # NoneYet =>
                       dialogs'[DeviceID2RoutingCrossRefID[d]] # NoDialog
  BY DEF FiledOK, filed
<1>1. DeviceID2RoutingCrossRefID[d] \in CrossRef \cup {NoneYet}
  BY DEF RouteInv, TypeOK, Keys
<1>. QED  BY <1>1 DEF RouteInv, FiledOK

\* What leaves the stream alone.
LEMMA StreamKeeps ==
  ASSUME RouteInv, events' = events, \A e \in Event : EventOK(e) => EventOK(e)'
  PROVE  EventsOK' /\ OneAnswer'
<1>1. \A j \in DOMAIN events : events[j] \in Event /\ EventOK(events[j])
  BY StreamTyped DEF RouteInv, EventsOK
<1>2. EventsOK'
  <2>. SUFFICES ASSUME NEW j \in DOMAIN events  PROVE EventOK(events[j])'
    BY DEF EventsOK
  <2>1. PICK e \in Event : e = events[j] /\ EventOK(e)'
    BY <1>1
  <2>. QED  BY <2>1 DEF EventOK
<1>. QED  BY <1>2 DEF RouteInv, OneAnswer

\* The requests for an extension, which the switch is to confirm.
LEMMA AskInv ==
  ASSUME RouteInv, NEW d \in Device, NEW k \in Keys, NEW act \in Confirmed,
         NEW r \in RegID \cup {NoReg},
         Request(k, act), Ask(act, d, r),
         k = (IF act = "RouteRegisterCancel" THEN AChar ELSE d),
         UNCHANGED <<filed, table, ended, owner, sessions, dialogs, events>>
  PROVE  RouteInv'
<1>. DEFINE w == [act |-> act, dev |-> d, reg |-> r]
<1>0. TypeOK
  BY DEF RouteInv
<1>1. act \in Acts /\ act # Empty
  BY DEF Confirmed, Acts, Empty
<1>2. /\ invokeID \in Nat /\ invokeID' = invokeID + 1 /\ invokeID' \in InvokeIDs
      /\ bound' \in [InvokeIDs -> [dev : Keys, act : Acts \cup {Empty}]]
      /\ bound'[invokeID + 1] = [dev |-> k, act |-> act]
      /\ \A i \in InvokeIDs : i <= invokeID => bound'[i] = bound[i]
  BY <1>0, <1>1, RequestBinds
<1>3. w \in [act : Confirmed, dev : Device, reg : RegID \cup {NoReg}]
  OBVIOUS
<1>4. wire' = [wire EXCEPT ![invokeID + 1] = w] \/ wire' = wire
  BY DEF Ask
<1>5. wire \in [InvokeIDs -> {Nothing} \cup [act : Confirmed, dev : Device, reg : RegID \cup {NoReg}]]
  BY <1>0 DEF TypeOK
<1>. HIDE DEF w
<1>6. /\ wire' \in [InvokeIDs -> {Nothing} \cup [act : Confirmed, dev : Device, reg : RegID \cup {NoReg}]]
      /\ \A i \in InvokeIDs : i # invokeID + 1 => wire'[i] = wire[i]
      /\ wire'[invokeID + 1] \in {w, wire[invokeID + 1]}
  BY <1>2, <1>3, <1>4, <1>5
<1>7. TypeOK'
  BY <1>0, <1>2, <1>6 DEF TypeOK, filed, table
<1>8. \A i \in InvokeIDs : i \in Nat /\ (i <= invokeID => i # invokeID + 1)
  BY <1>2, BoundsAssumption DEF InvokeIDs
<1>9. \A e \in Event : EventOK(e) => EventOK(e)'
  <2>1. \A i \in InvokeIDs : i <= invokeID => bound'[i] = bound[i] /\ wire'[i] = wire[i]
    BY <1>2, <1>6, <1>8
  <2>2. owner' = owner /\ dialogs' = dialogs /\ invokeID' \in Nat /\ invokeID <= invokeID'
    BY <1>2
  <2>3. \A e \in Event : EventOK(e) /\ (e.id = 0 \/ e.id # 0) => EventOK(e)'
    BY <2>1, <2>2, EventsKeep
  <2>. QED  BY <2>3
<1>10. EventsOK' /\ OneAnswer'
  BY <1>9, StreamKeeps
<1>11. WireOK'
  <2>. SUFFICES ASSUME NEW i \in InvokeIDs, wire'[i] # Nothing
                PROVE  i <= invokeID' /\ OwnEntry(i)'
    BY DEF WireOK
  <2>1. CASE i # invokeID + 1
    <3>1. wire'[i] = wire[i] /\ i <= invokeID
      BY <1>6, <2>1 DEF RouteInv, WireOK
    <3>2. bound'[i] = bound[i]
      BY <1>2, <3>1
    <3>3. OwnEntry(i)
      BY <3>1 DEF RouteInv, WireOK
    <3>4. i <= invokeID'
      <4>1. invokeID \in Nat /\ invokeID' = invokeID + 1
        BY <1>2
      <4>. QED  BY <1>8, <3>1, <4>1
    <3>. QED  BY <3>1, <3>2, <3>3, <3>4 DEF OwnEntry
  <2>2. CASE i = invokeID + 1
    <3>1. wire[i] = Nothing
      BY <1>2, <2>2 DEF RouteInv, WireOK
    <3>2. wire'[i] = w
      BY <1>6, <2>2, <3>1
    <3>. QED  BY <1>2, <2>2, <3>2 DEF w, OwnEntry
  <2>. QED  BY <2>1, <2>2
<1>12. FiledOK' /\ OwnersOK'
  BY DEF RouteInv, FiledOK, OwnersOK, filed
<1>. QED  BY <1>7, <1>10, <1>11, <1>12 DEF RouteInv

\* A step that takes an ID and sends nothing, or in which AgentSetState writes over
\* an entry.
LEMMA EntriesInv ==
  ASSUME RouteInv, invokeID' \in InvokeIDs, invokeID <= invokeID',
         bound' \in [InvokeIDs -> [dev : Keys, act : Acts \cup {Empty}]],
         \A i \in InvokeIDs : bound'[i] = bound[i] \/ bound'[i].act = "AgentSetState",
         UNCHANGED <<filed, table, ended, wire, owner, sessions, dialogs, events>>
  PROVE  RouteInv'
<1>1. TypeOK'
  BY DEF RouteInv, TypeOK, filed, table
<1>2. invokeID \in Nat /\ invokeID' \in Nat /\ \A i \in InvokeIDs : i \in Nat
  BY DEF RouteInv, TypeOK, InvokeIDs
<1>3. EventsOK' /\ OneAnswer'
  <2>1. \A e \in Event : EventOK(e) /\ (e.id = 0 \/ e.id # 0) => EventOK(e)'
    BY <1>2, EventsKeep
  <2>. QED  BY <2>1, StreamKeeps
<1>4. WireOK'
  <2>. SUFFICES ASSUME NEW i \in InvokeIDs, wire[i] # Nothing
                PROVE  i <= invokeID' /\ OwnEntry(i)'
    BY DEF WireOK
  <2>1. i <= invokeID /\ OwnEntry(i)
    BY DEF RouteInv, WireOK
  <2>2. i <= invokeID'
    BY <1>2, <2>1
  <2>3. OwnEntry(i)'
    BY <2>1 DEF OwnEntry
  <2>. QED  BY <2>2, <2>3
<1>5. FiledOK' /\ OwnersOK'
  BY FiledKeeps DEF RouteInv, OwnersOK
<1>. QED  BY <1>1, <1>3, <1>4, <1>5 DEF RouteInv

\* AgentSetState writes over the entry of the ID in use.
LEMMA AgentSetStateInv ==
  ASSUME RouteInv, NEW d \in Device, AgentSetState(d)
  PROVE  RouteInv'
<1>. DEFINE b == [dev |-> d, act |-> "AgentSetState"]
<1>1. /\ invokeID \in InvokeIDs /\ invokeID \in Nat
      /\ bound \in [InvokeIDs -> [dev : Keys, act : Acts \cup {Empty}]]
  BY DEF RouteInv, TypeOK, InvokeIDs
<1>2. b \in [dev : Keys, act : Acts \cup {Empty}] /\ b.act = "AgentSetState"
  BY DEF Keys, Acts
<1>3. /\ bound' = [bound EXCEPT ![invokeID] = b] /\ invokeID' = invokeID
      /\ UNCHANGED <<filed, table, ended, wire, owner, sessions, dialogs, events>>
  BY DEF AgentSetState, Bind, switch
<1>. HIDE DEF b
<1>4. /\ bound' \in [InvokeIDs -> [dev : Keys, act : Acts \cup {Empty}]]
      /\ \A i \in InvokeIDs : bound'[i] = bound[i] \/ bound'[i].act = "AgentSetState"
  BY <1>1, <1>2, <1>3
<1>. QED  BY <1>1, <1>3, <1>4, EntriesInv

\* RouteRegister, RouteRegisterCancel and the requests that have nothing to do
\* with routing; without a registration the second ends the program.
LEMMA RequestsInv ==
  ASSUME RouteInv, NEW d \in Device,
         RouteRegister(d) \/ RouteRegisterCancel(d) \/ OtherRequest(d)
  PROVE  RouteInv'
<1>1. d \in Keys /\ AChar \in Keys
  BY DEF Keys
<1>2. {"RouteRegister", "RouteRegisterCancel", "AgentHoldCall"} \subseteq Confirmed
  BY DEF Confirmed, Acts
<1>3. CASE RouteRegister(d)
  <2>1. Request(d, "RouteRegister") /\ Ask("RouteRegister", d, NoReg)
        /\ UNCHANGED <<filed, table, ended, owner, sessions, dialogs, events>>
    BY <1>3 DEF RouteRegister
  <2>. QED  BY <1>1, <1>2, <2>1, AskInv
<1>4. CASE OtherRequest(d)
  <2>1. UNCHANGED <<filed, table, ended, owner, sessions, dialogs, events>>
    BY <1>4 DEF OtherRequest
  <2>2. CASE Request(d, "AgentHoldCall") /\ Ask("AgentHoldCall", d, NoReg)
    BY <1>1, <1>2, <2>1, <2>2, AskInv
  <2>3. CASE invokeID < MaxInvokeID /\ invokeID' = invokeID + 1 /\ UNCHANGED <<bound, wire>>
    <3>1. invokeID' \in InvokeIDs /\ invokeID <= invokeID'
      BY <2>3, BoundsAssumption DEF RouteInv, TypeOK, InvokeIDs
    <3>2. bound' = bound /\ bound \in [InvokeIDs -> [dev : Keys, act : Acts \cup {Empty}]]
      BY <2>3 DEF RouteInv, TypeOK
    <3>. QED  BY <2>1, <2>3, <3>1, <3>2, EntriesInv
  <2>. QED  BY <1>4, <2>2, <2>3 DEF OtherRequest
<1>5. CASE RouteRegisterCancel(d)
  <2>. DEFINE r == DeviceID2RouteRegisterReqID[d]
  <2>1. UNCHANGED <<filed, table, owner, sessions, dialogs, events>>
    BY <1>5 DEF RouteRegisterCancel
  <2>2. r \in RegID \cup {NoReg}
    BY <1>1 DEF RouteInv, TypeOK
  <2>3. CASE r = NoReg
    <3>1. ended' = TRUE /\ UNCHANGED <<invokeID, bound, wire>>
      BY <1>5, <2>3 DEF RouteRegisterCancel
    <3>. QED  BY <2>1, <3>1 DEF RouteInv, TypeOK, EventsOK, EventOK, OneAnswer, WireOK, OwnEntry,
                                FiledOK, OwnersOK, filed, table
  <2>4. CASE r # NoReg
    <3>1. /\ Request(AChar, "RouteRegisterCancel") /\ UNCHANGED ended
          /\ Ask("RouteRegisterCancel", d, r)
      BY <1>5, <2>4 DEF RouteRegisterCancel
    <3>. HIDE DEF r
    <3>. QED  BY <1>1, <1>2, <2>1, <2>2, <3>1, AskInv
  <2>. QED  BY <2>3, <2>4
<1>. QED  BY <1>3, <1>4, <1>5

\* NUMBERLIST is nobody's key.
LEMMA ListInv ==
  ASSUME RouteInv,
         \/ LoseConnection
         \/ \E n \in Number :
              DeleteNumber(n) \/ \E t \in Types : InsertNumber(n, t) \/ UpdataNumber(n, t)
  PROVE  RouteInv'
<1>1. UNCHANGED <<invokeID, bound, filed, ended, switch, events>>
  BY DEF LoseConnection, DeleteNumber, InsertNumber, UpdataNumber, Change
<1>2. numbers \in [Number -> Seq(Types)] /\ (\A n \in Number : Len(numbers[n]) <= MaxRows)
      /\ MaxRows \in Nat
  BY BoundsAssumption DEF RouteInv, TypeOK
<1>3. ASSUME NEW n \in Number, NEW rs \in Seq(Types), Len(rs) <= MaxRows, Change(n, rs)
      PROVE  /\ numbers' \in [Number -> Seq(Types)] /\ (\A k \in Number : Len(numbers'[k]) <= MaxRows)
             /\ db' = db
  BY <1>2, <1>3 DEF Change
<1>4. /\ numbers' \in [Number -> Seq(Types)] /\ (\A k \in Number : Len(numbers'[k]) <= MaxRows)
      /\ db' \in BOOLEAN
  <2>0. db \in BOOLEAN
    BY DEF RouteInv, TypeOK
  <2>1. CASE LoseConnection
    BY <1>2, <2>1 DEF LoseConnection
  <2>2. ASSUME NEW n \in Number, DeleteNumber(n)
        PROVE  /\ numbers' \in [Number -> Seq(Types)] /\ (\A k \in Number : Len(numbers'[k]) <= MaxRows)
               /\ db' = db
    <3>1. Change(n, <<>>)
      BY <2>2 DEF DeleteNumber
    <3>2. <<>> \in Seq(Types) /\ Len(<<>>) <= MaxRows
      BY <1>2
    <3>. QED  BY <1>3, <3>1, <3>2
  <2>3. ASSUME NEW n \in Number, NEW t \in Types, InsertNumber(n, t)
        PROVE  /\ numbers' \in [Number -> Seq(Types)] /\ (\A k \in Number : Len(numbers'[k]) <= MaxRows)
               /\ db' = db
    <3>1. Len(numbers[n]) < MaxRows /\ Change(n, Append(numbers[n], t))
      BY <2>3 DEF InsertNumber
    <3>2. numbers[n] \in Seq(Types)
      BY <1>2
    <3>3. Append(numbers[n], t) \in Seq(Types) /\ Len(Append(numbers[n], t)) = Len(numbers[n]) + 1
          /\ Len(numbers[n]) \in Nat
      BY <3>2
    <3>4. Len(Append(numbers[n], t)) <= MaxRows
      BY <1>2, <3>1, <3>3
    <3>. QED  BY <1>3, <3>1, <3>3, <3>4
  <2>4. ASSUME NEW n \in Number, NEW t \in Types, UpdataNumber(n, t)
        PROVE  /\ numbers' \in [Number -> Seq(Types)] /\ (\A k \in Number : Len(numbers'[k]) <= MaxRows)
               /\ db' = db
    <3>. DEFINE rs == [k \in DOMAIN numbers[n] |-> t]
    <3>1. Change(n, rs)
      BY <2>4 DEF UpdataNumber
    <3>2. numbers[n] \in Seq(Types)
      BY <1>2
    <3>3. DOMAIN numbers[n] = 1..Len(numbers[n]) /\ Len(numbers[n]) \in Nat
      BY <3>2
    <3>4. rs \in Seq(Types) /\ Len(rs) = Len(numbers[n])
      BY <3>3
    <3>. QED  BY <1>2, <1>3, <3>1, <3>4
  <2>. QED  BY <2>0, <2>1, <2>2, <2>3, <2>4
<1>5. TypeOK'
  BY <1>1, <1>4 DEF RouteInv, TypeOK, filed, switch
<1>. QED  BY <1>1, <1>5 DEF RouteInv, EventsOK, EventOK, OneAnswer, WireOK, OwnEntry, FiledOK, OwnersOK,
                            filed, switch

-----------------------------------------------------------------------------
(* The switch.                                                               *)

\* What the messages of the switch are.
LEMMA MessageTyped ==
  ASSUME NEW ev \in {"registered", "done", "request", "end", "abort", "cleared"},
         NEW i \in InvokeIDs \cup {0}, NEW r \in RegID \cup {NoReg},
         NEW x \in CrossRef \cup {NoneYet}, NEW d \in Device \cup {Empty}
  PROVE  /\ Message(ev, i, r, x, d) \in Event
         /\ Message(ev, i, r, x, d).ev = ev /\ Message(ev, i, r, x, d).id = i
         /\ Message(ev, i, r, x, d).reg = r /\ Message(ev, i, r, x, d).cross = x
         /\ Message(ev, i, r, x, d).dev = d
BY DEF Message, Event

\* A step of the switch that sends a message, and what it must not touch.
LEMMA SendInv ==
  ASSUME RouteInv, NEW m \in Event, Send(m), EventOK(m)',
         m.id = 0 \/ wire[m.id] # Nothing,
         wire' \in [InvokeIDs -> {Nothing} \cup [act : Confirmed, dev : Device, reg : RegID \cup {NoReg}]],
         owner' \in [RegID -> Device \cup {Empty}], sessions' \subseteq RegID,
         dialogs' \in [CrossRef -> Dialog \cup {NoDialog}],
         \A i \in InvokeIDs : wire'[i] = wire[i] \/ wire'[i] = Nothing,
         \A r \in RegID : owner[r] # Empty => owner'[r] = owner[r],
         \A r \in sessions' : owner'[r] \in Device,
         \A x \in CrossRef : dialogs[x] # NoDialog =>
           dialogs'[x] # NoDialog /\ dialogs'[x].dev = dialogs[x].dev
  PROVE  RouteInv'
<1>1. UNCHANGED <<invokeID, bound, filed, table, ended>>
  BY DEF Send
<1>2. \A e \in Event : EventOK(e) => EventOK(e)'
  <2>1. invokeID' \in Nat /\ invokeID <= invokeID' /\ bound' = bound
    BY <1>1 DEF RouteInv, TypeOK, InvokeIDs
  <2>2. \A e \in Event : EventOK(e) /\ (e.id = 0 \/ e.id # 0) => EventOK(e)'
    BY <2>1, EventsKeep
  <2>. QED  BY <2>2
<1>3. ASSUME NEW k \in DOMAIN events, m.id # 0  PROVE events[k].id # m.id
  <2>1. EventOK(events[k]) /\ events[k] \in Event
    BY StreamTyped DEF RouteInv, EventsOK
  <2>2. events[k].id = 0 \/ wire[events[k].id] = Nothing
    BY <2>1 DEF EventOK
  <2>. QED  BY <1>3, <2>2
<1>4. events' \in Seq(Event) /\ Len(events') <= MaxEvents /\ EventsOK' /\ OneAnswer'
  BY <1>2, <1>3, SentStream
<1>5. TypeOK'
  BY <1>1, <1>4 DEF RouteInv, TypeOK, filed, table
<1>6. WireOK'
  BY <1>1 DEF RouteInv, WireOK, OwnEntry
<1>7. FiledOK' /\ OwnersOK'
  BY <1>1, FiledKeeps DEF OwnersOK
<1>. QED  BY <1>4, <1>5, <1>6, <1>7 DEF RouteInv

\* The requests under way, by what they are.
LEMMA WireTyped ==
  ASSUME RouteInv, NEW i \in InvokeIDs, wire[i] # Nothing
  PROVE  /\ wire[i].act \in Confirmed /\ wire[i].dev \in Device
         /\ wire[i].reg \in RegID \cup {NoReg}
         /\ i <= invokeID /\ bound[i] # Unbound
         /\ wire[i].act # "RouteRegisterCancel" =>
              bound[i].act = "AgentSetState" \/ bound[i].dev = wire[i].dev
<1>1. wire[i] \in [act : Confirmed, dev : Device, reg : RegID \cup {NoReg}]
  BY DEF RouteInv, TypeOK
<1>2. wire[i].act # Empty
  BY <1>1 DEF Confirmed, Acts, Empty
<1>3. Unbound.act = Empty /\ Empty # "AgentSetState"
  BY DEF Unbound, Empty
<1>. QED  BY <1>1, <1>2, <1>3 DEF RouteInv, WireOK, OwnEntry

\* A registration gets an owner it never loses.
LEMMA RegisterInv ==
  ASSUME RouteInv, NEW i \in InvokeIDs, NEW r \in RegID, Register(i, r)
  PROVE  RouteInv'
<1>. DEFINE m == Message("registered", i, r, NoneYet, Empty)
<1>1. /\ wire[i].act = "RouteRegister" /\ owner[r] = Empty
      /\ owner' = [owner EXCEPT ![r] = wire[i].dev] /\ sessions' = sessions \cup {r}
      /\ wire' = [wire EXCEPT ![i] = Nothing]
      /\ Send(m) /\ UNCHANGED dialogs
  BY DEF Register
<1>2. wire[i] # Nothing
  <2>1. Nothing.act = ""
    BY DEF Nothing, Empty
  <2>. QED  BY <1>1, <2>1
<1>3. /\ m \in Event /\ m.ev = "registered" /\ m.id = i /\ m.reg = r
  BY MessageTyped
<1>4. UNCHANGED <<invokeID, bound>>
  BY <1>1 DEF Send
<1>5. /\ owner \in [RegID -> Device \cup {Empty}] /\ sessions \subseteq RegID
      /\ wire \in [InvokeIDs -> {Nothing} \cup [act : Confirmed, dev : Device, reg : RegID \cup {NoReg}]]
      /\ dialogs \in [CrossRef -> Dialog \cup {NoDialog}]
  BY DEF RouteInv, TypeOK
<1>6. /\ wire[i].dev \in Device /\ i <= invokeID /\ bound[i] # Unbound
      /\ bound[i].act = "AgentSetState" \/ bound[i].dev = wire[i].dev
  BY <1>1, <1>2, WireTyped
<1>. HIDE DEF m
<1>7. owner'[r] = wire[i].dev /\ \A q \in RegID : owner[q] # Empty => owner'[q] = owner[q]
  BY <1>1, <1>5
<1>8. EventOK(m)'
  BY <1>1, <1>3, <1>4, <1>5, <1>6, <1>7 DEF EventOK
<1>9. \A q \in sessions' : owner'[q] \in Device
  BY <1>1, <1>5, <1>6, <1>7, KeysAssumption DEF RouteInv, OwnersOK
<1>10. /\ owner' \in [RegID -> Device \cup {Empty}] /\ sessions' \subseteq RegID
       /\ wire' \in [InvokeIDs -> {Nothing} \cup [act : Confirmed, dev : Device, reg : RegID \cup {NoReg}]]
       /\ \A j \in InvokeIDs : wire'[j] = wire[j] \/ wire'[j] = Nothing
  BY <1>1, <1>5, <1>6
<1>. QED  BY <1>1, <1>2, <1>3, <1>5, <1>7, <1>8, <1>9, <1>10, SendInv

\* Any other confirmation.
LEMMA ConfirmInv ==
  ASSUME RouteInv, NEW i \in InvokeIDs, Confirm(i)
  PROVE  RouteInv'
<1>. DEFINE m == Message("done", i, NoReg, NoneYet, Empty)
<1>1. /\ wire[i] # Nothing /\ sessions' \subseteq sessions
      /\ wire' = [wire EXCEPT ![i] = Nothing]
      /\ Send(m) /\ UNCHANGED <<owner, dialogs>>
  BY DEF Confirm
<1>2. m \in Event /\ m.ev = "done" /\ m.id = i
  BY MessageTyped
<1>3. UNCHANGED <<invokeID, bound>>
  BY <1>1 DEF Send
<1>4. /\ owner \in [RegID -> Device \cup {Empty}] /\ sessions \subseteq RegID
      /\ wire \in [InvokeIDs -> {Nothing} \cup [act : Confirmed, dev : Device, reg : RegID \cup {NoReg}]]
      /\ dialogs \in [CrossRef -> Dialog \cup {NoDialog}]
      /\ \A r \in sessions : owner[r] \in Device
  BY DEF RouteInv, TypeOK, OwnersOK
<1>5. i <= invokeID /\ bound[i] # Unbound
  BY <1>1, WireTyped
<1>. HIDE DEF m
<1>6. /\ wire' \in [InvokeIDs -> {Nothing} \cup [act : Confirmed, dev : Device, reg : RegID \cup {NoReg}]]
      /\ \A j \in InvokeIDs : wire'[j] = wire[j] \/ wire'[j] = Nothing
      /\ wire'[i] = Nothing
  BY <1>1, <1>4
<1>7. EventOK(m)'
  BY <1>2, <1>3, <1>5, <1>6 DEF EventOK
<1>. QED  BY <1>1, <1>2, <1>4, <1>6, <1>7, SendInv

\* A call is offered in a new dialog, to the extension of a live registration.
LEMMA OfferInv ==
  ASSUME RouteInv, NEW x \in CrossRef, NEW r \in RegID, NEW n \in Number, OfferCall(x, r, n)
  PROVE  RouteInv'
<1>. DEFINE g == [open |-> TRUE, dev |-> owner[r], reg |-> r, num |-> n, tries |-> 0,
                  row |-> Unread]
<1>0. PICK d \in Device : d = owner[r]
  BY DEF OfferCall, RouteInv, OwnersOK
<1>. DEFINE m == Message("request", 0, r, x, d)
<1>1. /\ dialogs[x] = NoDialog /\ r \in sessions
      /\ dialogs' = [dialogs EXCEPT ![x] = g]
      /\ Send(m) /\ UNCHANGED <<wire, owner, sessions>>
  BY <1>0 DEF OfferCall
<1>2. /\ owner \in [RegID -> Device \cup {Empty}] /\ sessions \subseteq RegID
      /\ wire \in [InvokeIDs -> {Nothing} \cup [act : Confirmed, dev : Device, reg : RegID \cup {NoReg}]]
      /\ dialogs \in [CrossRef -> Dialog \cup {NoDialog}]
      /\ \A q \in sessions : owner[q] \in Device
  BY DEF RouteInv, TypeOK, OwnersOK
<1>3. /\ m \in Event /\ m.ev = "request" /\ m.id = 0 /\ m.dev = d /\ m.cross = x
  BY DEF Message, Event
<1>4. g \in Dialog /\ g.dev = d
  BY <1>0 DEF Dialog
<1>5. g # NoDialog
  BY DEF NoDialog
<1>. HIDE DEF m, g
<1>6. /\ dialogs' \in [CrossRef -> Dialog \cup {NoDialog}] /\ dialogs'[x] = g
      /\ \A y \in CrossRef : dialogs[y] # NoDialog => dialogs'[y] = dialogs[y]
  BY <1>1, <1>2, <1>4
<1>7. EventOK(m)'
  BY <1>1, <1>2, <1>3, <1>4, <1>5, <1>6 DEF EventOK
<1>. QED  BY <1>1, <1>2, <1>3, <1>6, <1>7, SendInv

\* A dialog, a registration or a connection ends on the side of the switch.
LEMMA EndsInv ==
  ASSUME RouteInv,
         \/ \E x \in CrossRef : EndDialog(x)
         \/ \E r \in RegID : Abort(r)
         \/ \E d \in Device : ClearConnection(d)
  PROVE  RouteInv'
<1>1. /\ owner \in [RegID -> Device \cup {Empty}] /\ sessions \subseteq RegID
      /\ wire \in [InvokeIDs -> {Nothing} \cup [act : Confirmed, dev : Device, reg : RegID \cup {NoReg}]]
      /\ dialogs \in [CrossRef -> Dialog \cup {NoDialog}]
      /\ \A q \in sessions : owner[q] \in Device
  BY DEF RouteInv, TypeOK, OwnersOK
<1>2. ASSUME NEW x \in CrossRef, EndDialog(x)  PROVE RouteInv'
  <2>2. dialogs[x] \in Dialog /\ dialogs[x].reg \in RegID
    <3>1. dialogs[x] # NoDialog
      BY <1>2 DEF EndDialog, NoDialog
    <3>. QED  BY <1>1, <3>1 DEF Dialog
  <2>0. PICK q \in RegID : q = dialogs[x].reg
    BY <2>2
  <2>. DEFINE m == Message("end", 0, q, x, Empty)
  <2>1. /\ dialogs' = [dialogs EXCEPT ![x].open = FALSE]
        /\ Send(m) /\ UNCHANGED <<wire, owner, sessions>>
    BY <1>2, <2>0 DEF EndDialog
  <2>3. m \in Event /\ m.ev = "end" /\ m.id = 0
    BY DEF Message, Event
  <2>4. EventOK(m)'
    BY <2>3 DEF EventOK
  <2>. HIDE DEF m
  <2>5. [dialogs[x] EXCEPT !.open = FALSE] \in Dialog
        /\ [dialogs[x] EXCEPT !.open = FALSE].dev = dialogs[x].dev
    BY <2>2 DEF Dialog
  <2>6. ASSUME NEW g \in Dialog  PROVE g # NoDialog
    BY DEF Dialog, NoDialog
  <2>7. /\ dialogs' \in [CrossRef -> Dialog \cup {NoDialog}]
        /\ \A y \in CrossRef : dialogs[y] # NoDialog =>
             dialogs'[y] # NoDialog /\ dialogs'[y].dev = dialogs[y].dev
    BY <1>1, <2>1, <2>5, <2>6
  <2>. QED  BY <1>1, <2>1, <2>3, <2>4, <2>7, SendInv
<1>3. ASSUME NEW r \in RegID, Abort(r)  PROVE RouteInv'
  <2>. DEFINE m == Message("abort", 0, r, NoneYet, Empty)
  <2>1. sessions' = sessions \ {r} /\ Send(m) /\ UNCHANGED <<wire, owner, dialogs>>
    BY <1>3 DEF Abort
  <2>2. m \in Event /\ m.ev = "abort" /\ m.id = 0
    BY MessageTyped
  <2>3. EventOK(m)'
    BY <2>2 DEF EventOK
  <2>. HIDE DEF m
  <2>. QED  BY <1>1, <2>1, <2>2, <2>3, SendInv
<1>4. ASSUME NEW d \in Device, ClearConnection(d)  PROVE RouteInv'
  <2>. DEFINE m == Message("cleared", 0, NoReg, NoneYet, d)
  <2>1. Send(m) /\ UNCHANGED <<wire, owner, sessions, dialogs>>
    BY <1>4 DEF ClearConnection, switch
  <2>2. m \in Event /\ m.ev = "cleared" /\ m.id = 0 /\ m.dev = d
    BY MessageTyped
  <2>3. EventOK(m)'
    BY <2>2 DEF EventOK
  <2>. HIDE DEF m
  <2>. QED  BY <1>1, <2>1, <2>2, <2>3, SendInv
<1>. QED  BY <1>2, <1>3, <1>4

-----------------------------------------------------------------------------
(* The handlers.                                                             *)

\* What every handler of HandleEvent leaves alone.
Handling(e) ==
  /\ events # <<>> /\ e = Head(events) /\ events' = Tail(events)
  /\ UNCHANGED <<table, wire, owner, sessions>>

\* The event a handler gets is what the stream promises.
LEMMA HandledEvent ==
  ASSUME RouteInv, NEW e, Handling(e)
  PROVE  e \in Event /\ EventOK(e)
<1>1. events \in Seq(Event) /\ DOMAIN events = 1..Len(events)
  BY StreamTyped DEF RouteInv
<1>2. e = events[1] /\ 1 \in DOMAIN events
  BY <1>1 DEF Handling
<1>3. EventOK(events[1])
  BY <1>2 DEF RouteInv, EventsOK
<1>. QED  BY <1>1, <1>2, <1>3

\* A handler keeps the invariant if it keeps the types, the entries of the
\* other requests, the extensions of the dialogs, and files what is right.
LEMMA HandlerInv ==
  ASSUME RouteInv, NEW e, Handling(e),
         invokeID' \in InvokeIDs, invokeID <= invokeID',
         bound' \in [InvokeIDs -> [dev : Keys, act : Acts \cup {Empty}]],
         DeviceID2RouteRegisterReqID' \in [Keys -> RegID \cup {NoReg}],
         DeviceID2RoutingCrossRefID' \in [Keys -> CrossRef \cup {NoneYet}],
         ended' \in BOOLEAN, dialogs' \in [CrossRef -> Dialog \cup {NoDialog}],
         \A i \in InvokeIDs : i <= invokeID /\ i # e.id => bound'[i] = bound[i],
         \A x \in CrossRef : dialogs[x] # NoDialog =>
           dialogs'[x] # NoDialog /\ dialogs'[x].dev = dialogs[x].dev,
         FiledOK'
  PROVE  RouteInv'
<1>1. /\ events # <<>> /\ e = Head(events) /\ events' = Tail(events)
      /\ UNCHANGED <<numbers, db, wire, owner, sessions>>
  BY DEF Handling, table
<1>2. invokeID' \in Nat /\ MaxInvokeID \in Nat
  BY BoundsAssumption DEF InvokeIDs
<1>3. \A f \in Event : EventOK(f) /\ (f.id = 0 \/ f.id # e.id) => EventOK(f)'
  BY <1>1, <1>2, EventsKeep
<1>4. events' \in Seq(Event) /\ Len(events') <= MaxEvents /\ EventsOK' /\ OneAnswer'
  BY <1>1, <1>3, HandledStream
<1>5. TypeOK'
  BY <1>1, <1>4 DEF RouteInv, TypeOK
<1>6. WireOK'
  <2>. SUFFICES ASSUME NEW i \in InvokeIDs, wire[i] # Nothing
                PROVE  i <= invokeID' /\ OwnEntry(i)'
    BY <1>1 DEF WireOK
  <2>1. i <= invokeID /\ i \in Nat /\ invokeID \in Nat /\ i # 0
    BY <1>2 DEF RouteInv, TypeOK, WireOK, InvokeIDs
  <2>2. i # e.id
    <3>1. e.id = 0 \/ wire[e.id] = Nothing
      BY HandledEvent DEF EventOK
    <3>. QED  BY <2>1, <3>1
  <2>. QED  BY <1>1, <1>2, <2>1, <2>2 DEF RouteInv, WireOK, OwnEntry
<1>7. OwnersOK'
  BY <1>1 DEF RouteInv, OwnersOK
<1>. QED  BY <1>4, <1>5, <1>6, <1>7 DEF RouteInv

\* What a handler starts from.
LEMMA Filing ==
  ASSUME RouteInv
  PROVE  /\ invokeID \in InvokeIDs /\ invokeID \in Nat
         /\ bound \in [InvokeIDs -> [dev : Keys, act : Acts \cup {Empty}]]
         /\ DeviceID2RouteRegisterReqID \in [Keys -> RegID \cup {NoReg}]
         /\ DeviceID2RoutingCrossRefID \in [Keys -> CrossRef \cup {NoneYet}]
         /\ ended \in BOOLEAN /\ dialogs \in [CrossRef -> Dialog \cup {NoDialog}]
         /\ Unbound \in [dev : Keys, act : Acts \cup {Empty}]
         /\ Device \subseteq Keys /\ Empty \in Keys /\ AChar \in Keys
         /\ \A e : AliasedDevice(e) \in Keys
<1>1. bound \in [InvokeIDs -> [dev : Keys, act : Acts \cup {Empty}]] /\ Empty \in Keys
  BY DEF RouteInv, TypeOK, Keys
<1>2. \A e : AliasedDevice(e) \in Keys
  BY <1>1 DEF AliasedDevice
<1>3. invokeID \in InvokeIDs /\ invokeID \in Nat
  BY DEF RouteInv, TypeOK, InvokeIDs
<1>. QED  BY <1>1, <1>2, <1>3 DEF RouteInv, TypeOK, Unbound, Keys

\* A registration is filed under the extension of its entry.
LEMMA RegisteredInv ==
  ASSUME RouteInv, NEW e, Handling(e), e.ev = "registered", RouteRequestReqConfEvent(e)
  PROVE  RouteInv'
<1>1. e.id \in InvokeIDs /\ e.reg \in RegID
  BY HandledEvent DEF EventOK
<1>2. /\ DeviceID2RouteRegisterReqID' =
           [DeviceID2RouteRegisterReqID EXCEPT ![bound[e.id].dev] = e.reg]
      /\ bound' = [bound EXCEPT ![e.id] = Unbound]
      /\ UNCHANGED <<invokeID, DeviceID2RoutingCrossRefID, ended, dialogs>>
  BY DEF RouteRequestReqConfEvent, Release
<1>3. /\ bound' \in [InvokeIDs -> [dev : Keys, act : Acts \cup {Empty}]]
      /\ \A i \in InvokeIDs : i # e.id => bound'[i] = bound[i]
  BY <1>1, <1>2, Filing
<1>4. DeviceID2RouteRegisterReqID' \in [Keys -> RegID \cup {NoReg}]
  BY <1>1, <1>2, Filing
<1>5. FiledOK'
  BY <1>2 DEF RouteInv, FiledOK
<1>. QED  BY <1>2, <1>3, <1>4, <1>5, Filing, HandlerInv

\* A confirmation of anything else only gives up the entry.
LEMMA DoneInv ==
  ASSUME RouteInv, NEW e, Handling(e), e.ev = "done", Done(e)
  PROVE  RouteInv'
<1>1. e.id \in InvokeIDs
  BY HandledEvent DEF EventOK
<1>2. bound' = [bound EXCEPT ![e.id] = Unbound] /\ UNCHANGED <<invokeID, filed, ended, dialogs>>
  BY DEF Done, Release
<1>3. /\ bound' \in [InvokeIDs -> [dev : Keys, act : Acts \cup {Empty}]]
      /\ \A i \in InvokeIDs : i # e.id => bound'[i] = bound[i]
  BY <1>1, <1>2, Filing
<1>4. owner' = owner
  BY DEF Handling
<1>5. FiledOK'
  BY <1>2, <1>4, FiledKeeps
<1>. QED  BY <1>2, <1>3, <1>5, Filing, HandlerInv DEF filed

\* A route end and an abort clear the entry of whatever extension the aliased
\* invoke ID names; an entry that is cleared is no entry of a wrong extension.
LEMMA ClearedEntryInv ==
  ASSUME RouteInv, NEW e, Handling(e), RouteEndEvent(e) \/ RouteRegisterAbortEvent(e)
  PROVE  RouteInv'
<1>1. UNCHANGED <<invokeID, bound, ended, dialogs, owner>>
  BY DEF RouteEndEvent, RouteRegisterAbortEvent, Handling
<1>2. \/ /\ DeviceID2RoutingCrossRefID' =
              [DeviceID2RoutingCrossRefID EXCEPT ![AliasedDevice(e)] = NoneYet]
         /\ UNCHANGED DeviceID2RouteRegisterReqID
      \/ /\ DeviceID2RouteRegisterReqID' =
              [DeviceID2RouteRegisterReqID EXCEPT ![AliasedDevice(e)] = NoReg]
         /\ UNCHANGED DeviceID2RoutingCrossRefID
  BY DEF RouteEndEvent, RouteRegisterAbortEvent
<1>3. /\ DeviceID2RouteRegisterReqID' \in [Keys -> RegID \cup {NoReg}]
      /\ DeviceID2RoutingCrossRefID' \in [Keys -> CrossRef \cup {NoneYet}]
      /\ \A d \in Device :
           /\ DeviceID2RouteRegisterReqID'[d] \in {NoReg, DeviceID2RouteRegisterReqID[d]}
           /\ DeviceID2RoutingCrossRefID'[d] \in {NoneYet, DeviceID2RoutingCrossRefID[d]}
  BY <1>2, Filing
<1>4. FiledOK'
  BY <1>1, <1>3 DEF RouteInv, FiledOK
<1>. QED  BY <1>1, <1>3, <1>4, Filing, HandlerInv

\* What SelectNumber finds is what a dialog may have been answered by.
LEMMA RowFound ==
  ASSUME TypeOK, NEW n \in Number
  PROVE  SelectNumber(n) \in {<<>>, Unread} \cup {<<t>> : t \in Types}
<1>1. CASE db /\ Len(numbers[n]) = 1
  <2>1. numbers[n] \in Seq(Types)
    BY DEF TypeOK
  <2>2. numbers[n][1] \in Types /\ numbers[n] = <<numbers[n][1]>>
    BY <1>1, <2>1
  <2>. QED  BY <1>1, <2>2 DEF SelectNumber
<1>2. CASE ~(db /\ Len(numbers[n]) = 1)
  BY <1>2 DEF SelectNumber
<1>. QED  BY <1>1, <1>2

\* A dialog is filed under the extension that is called, whatever is decided.
LEMMA RequestedInv ==
  ASSUME RouteInv, NEW e, Handling(e), e.ev = "request", RouteRequestExtEvent(e)
  PROVE  RouteInv'
<1>. DEFINE row == SelectNumber(dialogs[e.cross].num)
            rows == {<<>>, Unread} \cup {<<t>> : t \in Types}
<1>1. /\ e.dev \in Device /\ e.cross \in CrossRef
      /\ dialogs[e.cross] # NoDialog /\ dialogs[e.cross].dev = e.dev
  BY HandledEvent DEF EventOK
<1>2. dialogs[e.cross] \in Dialog /\ dialogs[e.cross].num \in Number
  <2>1. dialogs[e.cross] \in Dialog
    BY <1>1, Filing
  <2>. QED  BY <2>1 DEF Dialog
<1>3. row \in rows
  BY <1>2, RowFound DEF RouteInv
<1>4. /\ DeviceID2RoutingCrossRefID' = [DeviceID2RoutingCrossRefID EXCEPT ![e.dev] = e.cross]
      /\ Decide(e, row) /\ UNCHANGED DeviceID2RouteRegisterReqID
  BY DEF RouteRequestExtEvent
<1>5. \/ /\ dialogs' = [dialogs EXCEPT ![e.cross].row = row]
         /\ UNCHANGED <<invokeID, bound>> /\ ended' \in BOOLEAN
      \/ /\ dialogs' = [dialogs EXCEPT ![e.cross].tries = 1, ![e.cross].row = row]
         /\ Request(e.dev, "RouteSelectInv") /\ UNCHANGED ended
  BY <1>4 DEF Decide, RouteSelectInv
<1>. HIDE DEF row, rows
<1>6. PICK g \in Dialog : g.dev = e.dev /\ dialogs' = [dialogs EXCEPT ![e.cross] = g]
  <2>1. CASE dialogs' = [dialogs EXCEPT ![e.cross].row = row]
    <3>. DEFINE g == [dialogs[e.cross] EXCEPT !.row = row]
    <3>1. g \in Dialog /\ g.dev = e.dev
      BY <1>1, <1>2, <1>3 DEF Dialog, rows
    <3>. QED  BY <2>1, <3>1
  <2>2. CASE dialogs' = [dialogs EXCEPT ![e.cross].tries = 1, ![e.cross].row = row]
    <3>. DEFINE a == [dialogs[e.cross] EXCEPT !.tries = 1]
                g == [a EXCEPT !.row = row]
    <3>0. a \in Dialog /\ a.dev = e.dev
      BY <1>1, <1>2 DEF Dialog
    <3>. HIDE DEF a
    <3>1. g \in Dialog /\ g.dev = e.dev
      BY <1>3, <3>0 DEF Dialog, rows
    <3>. USE DEF a
    <3>2. dialogs' = [dialogs EXCEPT ![e.cross] = g]
      BY <1>1, <2>2, Filing
    <3>. QED  BY <3>1, <3>2
  <2>. QED  BY <1>5, <2>1, <2>2
<1>7. g # NoDialog
  BY <1>6 DEF Dialog, NoDialog
<1>8. /\ dialogs' \in [CrossRef -> Dialog \cup {NoDialog}] /\ dialogs'[e.cross] = g
      /\ \A x \in CrossRef : x # e.cross => dialogs'[x] = dialogs[x]
  BY <1>1, <1>6, Filing
<1>9. /\ DeviceID2RoutingCrossRefID' \in [Keys -> CrossRef \cup {NoneYet}]
      /\ \A d \in Device : DeviceID2RoutingCrossRefID'[d] =
           IF d = e.dev THEN e.cross ELSE DeviceID2RoutingCrossRefID[d]
  BY <1>1, <1>4, Filing
<1>10. FiledOK'
  <2>1. owner' = owner
    BY DEF Handling
  <2>. QED  BY <1>1, <1>4, <1>6, <1>7, <1>8, <1>9, <2>1 DEF RouteInv, FiledOK
<1>11. /\ invokeID' \in InvokeIDs /\ invokeID <= invokeID' /\ ended' \in BOOLEAN
       /\ bound' \in [InvokeIDs -> [dev : Keys, act : Acts \cup {Empty}]]
       /\ \A i \in InvokeIDs : i <= invokeID => bound'[i] = bound[i]
  <2>1. CASE UNCHANGED <<invokeID, bound>> /\ ended' \in BOOLEAN
    BY <2>1, Filing
  <2>2. CASE Request(e.dev, "RouteSelectInv") /\ UNCHANGED ended
    <3>1. e.dev \in Keys /\ "RouteSelectInv" \in Acts
      BY <1>1 DEF Keys, Acts
    <3>2. TypeOK /\ Request(e.dev, "RouteSelectInv") /\ ended' = ended
      BY <2>2 DEF RouteInv
    <3>3. /\ invokeID' \in InvokeIDs /\ invokeID \in Nat /\ invokeID' = invokeID + 1
          /\ bound' \in [InvokeIDs -> [dev : Keys, act : Acts \cup {Empty}]]
          /\ \A i \in InvokeIDs : i <= invokeID => bound'[i] = bound[i]
      BY <3>1, <3>2, RequestBinds
    <3>. QED  BY <3>2, <3>3, Filing
  <2>. QED  BY <1>5, <2>1, <2>2
<1>. QED  BY <1>1, <1>4, <1>6, <1>7, <1>8, <1>9, <1>10, <1>11, Filing, HandlerInv

\* A cleared connection ends the dialog that is filed, and its extension stays.
LEMMA ClearedInv ==
  ASSUME RouteInv, NEW e, Handling(e), e.ev = "cleared", ConnectionCleared(e)
  PROVE  RouteInv'
<1>. DEFINE r == DeviceID2RouteRegisterReqID[e.dev]
            x == DeviceID2RoutingCrossRefID[e.dev]
<1>1. e.dev \in Device /\ e.dev \in Keys
  BY HandledEvent DEF EventOK, Keys
<1>2. UNCHANGED filed /\ owner' = owner
  BY DEF ConnectionCleared, Handling
<1>3. CASE r = NoReg \/ x = NoneYet
  <2>1. ended' = TRUE /\ UNCHANGED <<invokeID, bound, dialogs>>
    BY <1>3 DEF ConnectionCleared
  <2>. HIDE DEF r, x
  <2>2. FiledOK'
    BY <1>2, <2>1, FiledKeeps
  <2>. QED  BY <1>2, <2>1, <2>2, Filing, HandlerInv DEF filed
<1>4. CASE ~(r = NoReg \/ x = NoneYet)
  <2>1. RouteEndInv(r, x) /\ UNCHANGED ended
    BY <1>4 DEF ConnectionCleared
  <2>2. x \in CrossRef /\ dialogs[x] # NoDialog
    BY <1>1, <1>4, Filing DEF RouteInv, FiledOK
  <2>. HIDE DEF r, x
  <2>3. Request(AChar, "RouteEndInv") /\ dialogs' \in {dialogs, [dialogs EXCEPT ![x].open = FALSE]}
    BY <2>1 DEF RouteEndInv
  <2>4. /\ dialogs' \in [CrossRef -> Dialog \cup {NoDialog}]
        /\ \A y \in CrossRef : dialogs[y] # NoDialog =>
             dialogs'[y] # NoDialog /\ dialogs'[y].dev = dialogs[y].dev
    <3>1. dialogs[x] \in Dialog
      BY <2>2, Filing
    <3>2. [dialogs[x] EXCEPT !.open = FALSE] \in Dialog
          /\ [dialogs[x] EXCEPT !.open = FALSE].dev = dialogs[x].dev
      BY <3>1 DEF Dialog
    <3>3. \A g \in Dialog : g # NoDialog
      BY DEF Dialog, NoDialog
    <3>. QED  BY <2>2, <2>3, <3>1, <3>2, <3>3, Filing
  <2>5. /\ invokeID' \in InvokeIDs /\ invokeID <= invokeID'
        /\ bound' \in [InvokeIDs -> [dev : Keys, act : Acts \cup {Empty}]]
        /\ \A i \in InvokeIDs : i <= invokeID => bound'[i] = bound[i]
    <3>1. AChar \in Keys /\ "RouteEndInv" \in Acts
      BY DEF Keys, Acts
    <3>2. /\ invokeID' \in InvokeIDs /\ invokeID \in Nat /\ invokeID' = invokeID + 1
          /\ bound' \in [InvokeIDs -> [dev : Keys, act : Acts \cup {Empty}]]
          /\ \A i \in InvokeIDs : i <= invokeID => bound'[i] = bound[i]
      BY <2>3, <3>1, RequestBinds DEF RouteInv
    <3>. QED  BY <3>2
  <2>6. FiledOK'
    BY <1>2, <2>4, FiledKeeps
  <2>. QED  BY <1>2, <2>1, <2>4, <2>5, <2>6, Filing, HandlerInv DEF filed
<1>. QED  BY <1>3, <1>4

\* One handler runs at a time, on the oldest event.
LEMMA HandleEventInv ==
  ASSUME RouteInv, HandleEvent
  PROVE  RouteInv'
<1>1. PICK e : e = Head(events)
  OBVIOUS
<1>2. Handling(e)
  BY <1>1 DEF HandleEvent, Handling
<1>3. \/ e.ev = "registered" /\ RouteRequestReqConfEvent(e)
      \/ e.ev = "done"       /\ Done(e)
      \/ e.ev = "request"    /\ RouteRequestExtEvent(e)
      \/ e.ev = "end"        /\ RouteEndEvent(e)
      \/ e.ev = "abort"      /\ RouteRegisterAbortEvent(e)
      \/ e.ev = "cleared"    /\ ConnectionCleared(e)
  BY <1>1 DEF HandleEvent
<1>. QED  BY <1>2, <1>3, RegisteredInv, DoneInv, RequestedInv, ClearedEntryInv, ClearedInv

-----------------------------------------------------------------------------
(* The theorems.                                                             *)

\* No request, no event and no registration at first.
LEMMA InitInv == Init => RouteInv
<1>. SUFFICES ASSUME Init  PROVE RouteInv
  OBVIOUS
<1>1. events \in Seq(Event) /\ Len(events) <= MaxEvents /\ DOMAIN events = {}
  BY BoundsAssumption DEF Init
<1>2. \A n \in Number : numbers[n] = <<>>
  BY DEF Init
<1>3. numbers \in [Number -> Seq(Types)] /\ \A n \in Number : Len(numbers[n]) <= MaxRows
  BY <1>2, BoundsAssumption DEF Init
<1>4. Unbound \in [dev : Keys, act : Acts \cup {Empty}]
  BY DEF Unbound, Keys
<1>5. /\ invokeID \in InvokeIDs
      /\ bound \in [InvokeIDs -> [dev : Keys, act : Acts \cup {Empty}]]
      /\ DeviceID2RouteRegisterReqID \in [Keys -> RegID \cup {NoReg}]
      /\ DeviceID2RoutingCrossRefID \in [Keys -> CrossRef \cup {NoneYet}]
      /\ db \in BOOLEAN /\ ended \in BOOLEAN
  <2>1. invokeID \in InvokeIDs
    BY BoundsAssumption DEF Init, InvokeIDs
  <2>2. bound \in [InvokeIDs -> [dev : Keys, act : Acts \cup {Empty}]]
    BY <1>4 DEF Init
  <2>. QED  BY <2>1, <2>2 DEF Init
<1>6. /\ wire \in [InvokeIDs -> {Nothing} \cup [act : Confirmed, dev : Device, reg : RegID \cup {NoReg}]]
      /\ owner \in [RegID -> Device \cup {Empty}] /\ sessions \subseteq RegID
      /\ dialogs \in [CrossRef -> Dialog \cup {NoDialog}]
  BY DEF Init
<1>7. TypeOK
  BY <1>1, <1>3, <1>5, <1>6 DEF TypeOK
<1>. QED  BY <1>1, <1>7 DEF Init, RouteInv, EventsOK, OneAnswer, WireOK, FiledOK, OwnersOK, Keys

\* Every step keeps the invariant.
LEMMA NextInv == RouteInv /\ [Next]_vars => RouteInv'
<1>. SUFFICES ASSUME RouteInv, [Next]_vars  PROVE RouteInv'
  OBVIOUS
<1>1. CASE Program
  BY <1>1, HandleEventInv, RequestsInv, AgentSetStateInv, ListInv DEF Program
<1>2. CASE Switch
  BY <1>2, RegisterInv, ConfirmInv, OfferInv, EndsInv DEF Switch
<1>3. CASE LoseConnection
  BY <1>3, ListInv
<1>4. CASE UNCHANGED vars
  BY <1>4 DEF vars, filed, table, switch, RouteInv, TypeOK, EventsOK, EventOK, OneAnswer,
              WireOK, OwnEntry, FiledOK, OwnersOK
<1>. QED  BY <1>1, <1>2, <1>3, <1>4 DEF Next

\* The whole invariant holds in every state of the routing object.
THEOREM Routes == Spec => []RouteInv
<1>. QED  BY InitInv, NextInv, PTL DEF Spec

\* AvayaCallCenterRouting and the four requests keep every variable in its type:
\* no handler reads a map of invoke IDs outside the IDs it has entries for, and
\* the maps of registrations and dialogs hold what the switch has handed out.
THEOREM TypeCorrect == Spec => []TypeOK
<1>1. RouteInv => TypeOK
  BY DEF RouteInv
<1>. QED  BY <1>1, Routes, PTL

\* What a handler files is right: a registration goes under the extension its entry
\* names, a dialog under the extension that is called.
LEMMA HandlerFiles ==
  ASSUME RouteInv, NEW e, Handling(e), HandleEvent
  PROVE  FiledStep
<1>1. e = Head(events) /\ EventOK(e)
  BY HandledEvent DEF Handling
<1>2. SUFFICES ASSUME NEW d \in Device
               PROVE  /\ DeviceID2RouteRegisterReqID'[d] \notin
                             {NoReg, DeviceID2RouteRegisterReqID[d]} =>
                           \/ owner[DeviceID2RouteRegisterReqID'[d]] = d
                           \/ bound[e.id].act = "AgentSetState"
                      /\ DeviceID2RoutingCrossRefID'[d] \notin
                             {NoneYet, DeviceID2RoutingCrossRefID[d]} =>
                           dialogs[DeviceID2RoutingCrossRefID'[d]].dev = d
  BY <1>1 DEF FiledStep
<1>3. CASE e.ev = "registered" /\ RouteRequestReqConfEvent(e)
  <2>1. /\ DeviceID2RouteRegisterReqID' =
             [DeviceID2RouteRegisterReqID EXCEPT ![bound[e.id].dev] = e.reg]
        /\ DeviceID2RoutingCrossRefID' = DeviceID2RoutingCrossRefID
    BY <1>3 DEF RouteRequestReqConfEvent
  <2>2. bound[e.id].act = "AgentSetState" \/ bound[e.id].dev = owner[e.reg]
    BY <1>1, <1>3 DEF EventOK
  <2>3. d \in Keys
    BY DEF Keys
  <2>. QED  BY <2>1, <2>2, <2>3, Filing
<1>4. CASE e.ev = "request" /\ RouteRequestExtEvent(e)
  <2>1. /\ DeviceID2RoutingCrossRefID' = [DeviceID2RoutingCrossRefID EXCEPT ![e.dev] = e.cross]
        /\ DeviceID2RouteRegisterReqID' = DeviceID2RouteRegisterReqID
    BY <1>4 DEF RouteRequestExtEvent
  <2>2. dialogs[e.cross].dev = e.dev
    BY <1>1, <1>4 DEF EventOK
  <2>. QED  BY <2>1, <2>2, Filing
<1>5. CASE RouteEndEvent(e)
  BY <1>5, Filing DEF RouteEndEvent
<1>6. CASE RouteRegisterAbortEvent(e)
  BY <1>6, Filing DEF RouteRegisterAbortEvent
<1>7. CASE Done(e) \/ ConnectionCleared(e)
  <2>1. DeviceID2RouteRegisterReqID' = DeviceID2RouteRegisterReqID
        /\ DeviceID2RoutingCrossRefID' = DeviceID2RoutingCrossRefID
    BY <1>7 DEF Done, ConnectionCleared, filed
  <2>. QED  BY <2>1
<1>. QED  BY <1>1, <1>3, <1>4, <1>5, <1>6, <1>7 DEF HandleEvent

\* No other step files anything.
LEMMA OthersFileNothing ==
  ASSUME Next, ~HandleEvent
  PROVE  UNCHANGED filed
BY DEF Next, Program, Switch, RouteRegister, RouteRegisterCancel, OtherRequest, AgentSetState,
   DeleteNumber, InsertNumber, UpdataNumber, Change, Confirm, Register, EndDialog, OfferCall,
   Abort, ClearConnection, Send, LoseConnection

\* RouteRequestReqConfEvent and RouteRequestExtEvent file every registration and
\* every dialog under its own extension, for any number of extensions and requests;
\* the exception is a registration over whose entry AgentSetState has written.
THEOREM Filed == Spec => FiledForItsDevice
<1>1. RouteInv /\ [Next]_vars => [FiledStep]_vars
  <2>. SUFFICES ASSUME RouteInv, Next  PROVE FiledStep
    OBVIOUS
  <2>1. CASE HandleEvent
    <3>1. PICK e : e = Head(events)
      OBVIOUS
    <3>2. Handling(e)
      BY <2>1, <3>1 DEF HandleEvent, Handling
    <3>. QED  BY <2>1, <3>2, HandlerFiles
  <2>2. CASE ~HandleEvent
    <3>1. UNCHANGED filed
      BY <2>2, OthersFileNothing
    <3>. QED  BY <3>1 DEF FiledStep, filed
  <2>. QED  BY <2>1, <2>2
<1>2. Spec => [][Next]_vars
  BY DEF Spec
<1>. QED  BY <1>1, <1>2, Routes, PTL DEF FiledForItsDevice

\* Every request that is confirmed keeps its entry in m_InvokeID2DeviceID and
\* m_InvokeID2ActName until then, or that of an AgentSetState in its place.
THEOREM Kept == Spec => []EntriesKept
<1>1. RouteInv => EntriesKept
  <2>. SUFFICES ASSUME RouteInv, NEW i \in InvokeIDs
                PROVE  /\ Outstanding(i) => bound[i] # Unbound
                       /\ wire[i] # Nothing /\ bound[i].act # "AgentSetState" =>
                            /\ bound[i].act = wire[i].act
                            /\ bound[i].dev = IF wire[i].act = "RouteRegisterCancel"
                                               THEN AChar ELSE wire[i].dev
    BY DEF EntriesKept
  <2>1. wire[i] # Nothing => bound[i] # Unbound
    BY WireTyped
  <2>2. ASSUME NEW k \in DOMAIN events, events[k].id = i  PROVE bound[i] # Unbound
    <3>1. EventOK(events[k]) /\ events[k].id # 0
      BY <2>2 DEF RouteInv, EventsOK, InvokeIDs
    <3>. QED  BY <2>2, <3>1 DEF EventOK
  <2>. QED  BY <2>1, <2>2 DEF Outstanding, RouteInv, WireOK, OwnEntry
<1>. QED  BY <1>1, Routes, PTL
=============================================================================

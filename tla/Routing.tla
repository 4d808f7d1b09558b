------------------------------ MODULE Routing -------------------------------
(***************************************************************************)
(* AvayaCallCenterRouting with the four requests TSAPIInterface sends for  *)
(* it and the table NUMBERLIST it decides by.                              *)
(*                                                                         *)
(* An extension is registered for routing; the switch then asks where each *)
(* of its calls should go, in a routing dialog named by a cross reference. *)
(* The object remembers per extension the registration and the dialog.     *)
(* Answers and requests of the switch come over one stream, in order, some *)
(* time after the switch has sent them.                                    *)
(***************************************************************************)
EXTENDS Naturals, Sequences

CONSTANTS
  Device,       \* extensions
  Number,       \* the texts of call IDs, which NUMBERLIST is searched for
  Types,        \* the types of number the user enters
  RegID,        \* register request IDs the switch hands out
  CrossRef,     \* routing cross references the switch hands out
  MaxInvokeID,  \* bound on m_ulInvokeID
  MaxEvents,    \* bound on the events under way
  MaxRows       \* bound on the rows of one number

Empty   == ""                     \* operator[] of a key without an element
AChar   == "a single character"   \* a string assigned from a number
NoReg   == 0        \* no registration is filed
NoneYet == "none"   \* no dialog is filed
Keys    == Device \cup {Empty, AChar}

ASSUME KeysAssumption   == Empty \notin Device /\ AChar \notin Device
ASSUME IDsAssumption    == RegID \subseteq Nat \ {NoReg} /\ NoneYet \notin CrossRef
ASSUME TypesAssumption  == Types \subseteq {"VIP", "blacklist", "alarm", ""}
ASSUME BoundsAssumption == {MaxInvokeID, MaxEvents, MaxRows} \subseteq Nat /\ MaxInvokeID # 0

InvokeIDs == 1..MaxInvokeID
\* "AgentHoldCall" stands for the requests that have nothing to do with routing,
\* "AgentSetState" for the entry AgentSetState writes without a request of its own.
Acts == {"RouteRegister", "RouteRegisterCancel", "RouteSelectInv", "RouteEndInv",
         "AgentHoldCall", "AgentSetState"}
\* The switch confirms neither a route select nor a route end.
Confirmed == Acts \ {"RouteSelectInv", "RouteEndInv", "AgentSetState"}

VARIABLES
  invokeID,                  \* m_ulInvokeID; 1 is the ID of acsOpenStream
  bound,                     \* m_InvokeID2DeviceID, m_InvokeID2ActName
  DeviceID2RouteRegisterReqID, DeviceID2RoutingCrossRefID,
  numbers,                   \* NUMBERLIST: the types of the rows of a number
  db,                        \* the connection to the database is usable
  ended,                     \* an exception or a bad access has ended the program
  wire,                      \* switch: the requests it has to confirm
  owner, sessions,           \* switch: who a registration is of, the live ones
  dialogs,                   \* switch: the routing dialogs
  events                     \* the events under way, oldest first

filed   == <<DeviceID2RouteRegisterReqID, DeviceID2RoutingCrossRefID>>
table   == <<numbers, db>>
switch  == <<wire, owner, sessions, dialogs>>
vars    == <<invokeID, bound, filed, table, ended, switch, events>>

Unbound == [dev |-> Empty, act |-> Empty]
Nothing == [act |-> Empty]
Event   == [ ev : {"registered", "done", "request", "end", "abort", "cleared"},
             id : InvokeIDs \cup {0}, reg : RegID \cup {NoReg},
             cross : CrossRef \cup {NoneYet}, dev : Device \cup {Empty} ]
\* tries: how often the program answered; row: what it found about the number.
Unread  == <<NoneYet>>
Dialog  == [ open : BOOLEAN, dev : Device, reg : RegID, num : Number, tries : 0..1,
             row : {<<>>, Unread} \cup {<<t>> : t \in Types} ]
NoDialog == [open |-> FALSE]

TypeOK ==
  /\ invokeID \in InvokeIDs
  /\ bound \in [InvokeIDs -> [dev : Keys, act : Acts \cup {Empty}]]
  /\ DeviceID2RouteRegisterReqID \in [Keys -> RegID \cup {NoReg}]
  /\ DeviceID2RoutingCrossRefID \in [Keys -> CrossRef \cup {NoneYet}]
  /\ numbers \in [Number -> Seq(Types)] /\ \A n \in Number : Len(numbers[n]) <= MaxRows
  /\ db \in BOOLEAN /\ ended \in BOOLEAN
  /\ wire \in [InvokeIDs -> {Nothing} \cup [act : Confirmed, dev : Device, reg : RegID \cup {NoReg}]]
  /\ owner \in [RegID -> Device \cup {Empty}] /\ sessions \subseteq RegID
  /\ dialogs \in [CrossRef -> Dialog \cup {NoDialog}]
  /\ events \in Seq(Event) /\ Len(events) <= MaxEvents

Init ==
  /\ invokeID = 1 /\ bound = [i \in InvokeIDs |-> Unbound]
  /\ DeviceID2RouteRegisterReqID = [k \in Keys |-> NoReg]
  /\ DeviceID2RoutingCrossRefID = [k \in Keys |-> NoneYet]
  /\ numbers = [n \in Number |-> <<>>] /\ db \in BOOLEAN
  /\ ended = FALSE
  /\ wire = [i \in InvokeIDs |-> Nothing]
  /\ owner = [r \in RegID |-> Empty] /\ sessions = {}
  /\ dialogs = [x \in CrossRef |-> NoDialog]
  /\ events = <<>>

-----------------------------------------------------------------------------
(* The four requests of TSAPIInterface. *)

\* Whatever the return code, the ID is bound.
Bind(i, dev, act) == bound' = [bound EXCEPT ![i] = [dev |-> dev, act |-> act]]

Request(dev, act) ==
  /\ invokeID < MaxInvokeID
  /\ invokeID' = invokeID + 1
  /\ Bind(invokeID + 1, dev, act)

\* The client library accepts a request the switch will confirm, or refuses it.
Ask(act, d, r) ==
  \/ wire' = [wire EXCEPT ![invokeID + 1] = [act |-> act, dev |-> d, reg |-> r]]
  \/ UNCHANGED wire

RouteRegister(d) ==
  /\ ~ended
  /\ Request(d, "RouteRegister") /\ Ask("RouteRegister", d, NoReg)
  /\ UNCHANGED <<filed, table, ended, owner, sessions, dialogs, events>>

\* stoi throws when no registration is filed; what it binds is a character.
RouteRegisterCancel(d) ==
  /\ ~ended
  /\ IF DeviceID2RouteRegisterReqID[d] = NoReg
     THEN ended' = TRUE /\ UNCHANGED <<invokeID, bound, wire>>
     ELSE /\ Request(AChar, "RouteRegisterCancel")
          /\ Ask("RouteRegisterCancel", d, DeviceID2RouteRegisterReqID[d])
          /\ UNCHANGED ended
  /\ UNCHANGED <<filed, table, owner, sessions, dialogs, events>>

\* Every other request: it binds its ID, or has taken it and binds nothing (a
\* refused call, a monitor).
OtherRequest(d) ==
  /\ ~ended
  /\ \/ Request(d, "AgentHoldCall") /\ Ask("AgentHoldCall", d, NoReg)
     \/ /\ invokeID < MaxInvokeID /\ invokeID' = invokeID + 1
        /\ UNCHANGED <<bound, wire>>
  /\ UNCHANGED <<filed, table, ended, owner, sessions, dialogs, events>>

\* AgentSetState binds the ID in use where it has sent nothing, or when its box
\* is closed: whatever request had that ID, its entry is written over.
AgentSetState(d) ==
  /\ ~ended
  /\ Bind(invokeID, d, "AgentSetState")
  /\ UNCHANGED <<invokeID, filed, table, ended, switch, events>>

RouteEndInv(r, x) ==
  /\ Request(AChar, "RouteEndInv")
  /\ \/ dialogs' = IF dialogs[x].reg = r THEN [dialogs EXCEPT ![x].open = FALSE] ELSE dialogs
     \/ UNCHANGED dialogs

RouteSelectInv(e, row) ==
  /\ Request(e.dev, "RouteSelectInv")
  /\ dialogs' = [dialogs EXCEPT ![e.cross].tries = 1, ![e.cross].row = row]

-----------------------------------------------------------------------------
(* NUMBERLIST, through MySQLInterface.  Without a connection every statement *)
(* gives an error text and nothing changes.                                 *)

Change(n, rows) ==
  /\ ~ended /\ db
  /\ numbers' = [numbers EXCEPT ![n] = rows]
  /\ UNCHANGED <<invokeID, bound, filed, db, ended, switch, events>>

InsertNumber(n, t) == Len(numbers[n]) < MaxRows /\ Change(n, Append(numbers[n], t))
DeleteNumber(n)    == Change(n, <<>>)
UpdataNumber(n, t) == Change(n, [k \in DOMAIN numbers[n] |-> t])

LoseConnection ==
  /\ db /\ db' = FALSE
  /\ UNCHANGED <<invokeID, bound, filed, numbers, ended, switch, events>>

\* SelectOneLine: the row of a number that has exactly one, or no data at all.
SelectNumber(n) == IF db /\ Len(numbers[n]) = 1 THEN numbers[n] ELSE <<>>

-----------------------------------------------------------------------------
(* The switch. *)

Send(e) ==
  /\ Len(events) < MaxEvents
  /\ events' = Append(events, e)
  /\ UNCHANGED <<invokeID, bound, filed, table, ended>>

Message(ev, i, r, x, d) == [ev |-> ev, id |-> i, reg |-> r, cross |-> x, dev |-> d]

Register(i, r) ==
  /\ wire[i].act = "RouteRegister" /\ owner[r] = Empty
  /\ owner' = [owner EXCEPT ![r] = wire[i].dev] /\ sessions' = sessions \cup {r}
  /\ wire' = [wire EXCEPT ![i] = Nothing]
  /\ Send(Message("registered", i, r, NoneYet, Empty))
  /\ UNCHANGED dialogs

\* Any other confirmation, or a failure.
Confirm(i) ==
  /\ wire[i] # Nothing
  /\ sessions' \in {sessions} \cup
       (IF wire[i].act = "RouteRegisterCancel" THEN {sessions \ {wire[i].reg}} ELSE {})
  /\ wire' = [wire EXCEPT ![i] = Nothing]
  /\ Send(Message("done", i, NoReg, NoneYet, Empty))
  /\ UNCHANGED <<owner, dialogs>>

OfferCall(x, r, n) ==
  /\ dialogs[x] = NoDialog /\ r \in sessions
  /\ dialogs' = [dialogs EXCEPT ![x] =
       [open |-> TRUE, dev |-> owner[r], reg |-> r, num |-> n, tries |-> 0, row |-> Unread]]
  /\ Send(Message("request", 0, r, x, owner[r]))
  /\ UNCHANGED <<wire, owner, sessions>>

EndDialog(x) ==
  /\ dialogs[x].open
  /\ dialogs' = [dialogs EXCEPT ![x].open = FALSE]
  /\ Send(Message("end", 0, dialogs[x].reg, x, Empty))
  /\ UNCHANGED <<wire, owner, sessions>>

Abort(r) ==
  /\ r \in sessions /\ sessions' = sessions \ {r}
  /\ Send(Message("abort", 0, r, NoneYet, Empty))
  /\ UNCHANGED <<wire, owner, dialogs>>

ClearConnection(d) == Send(Message("cleared", 0, NoReg, NoneYet, d)) /\ UNCHANGED switch

-----------------------------------------------------------------------------
(* The handlers. *)

Release(i) == bound' = [bound EXCEPT ![i] = Unbound]

\* The handlers of CSTAEVENTREPORT read cstaConfirmation.invokeID, which shares
\* its place in the union with the register request ID.
AliasedDevice(e) == IF e.reg \in InvokeIDs THEN bound[e.reg].dev ELSE Empty

\* Mutant: the invoke ID is filed.
FileInvokeID(e) ==
  /\ DeviceID2RouteRegisterReqID' =
       [DeviceID2RouteRegisterReqID EXCEPT ![bound[e.id].dev] = e.id]
  /\ Release(e.id)
  /\ UNCHANGED <<invokeID, DeviceID2RoutingCrossRefID, ended, dialogs>>

\* Mutant: the registration is filed under the aliased extension.
FileAliased(e) ==
  /\ DeviceID2RouteRegisterReqID' =
       [DeviceID2RouteRegisterReqID EXCEPT ![AliasedDevice(e)] = e.reg]
  /\ Release(e.id)
  /\ UNCHANGED <<invokeID, DeviceID2RoutingCrossRefID, ended, dialogs>>

RouteRequestReqConfEvent(e) ==
  /\ DeviceID2RouteRegisterReqID' =
       [DeviceID2RouteRegisterReqID EXCEPT ![bound[e.id].dev] = e.reg]
  /\ Release(e.id)
  /\ UNCHANGED <<invokeID, DeviceID2RoutingCrossRefID, ended, dialogs>>

\* Mutant: the entry that was read is erased, as after a confirmation.
EndReleases(e) ==
  /\ DeviceID2RoutingCrossRefID' = [DeviceID2RoutingCrossRefID EXCEPT ![AliasedDevice(e)] = NoneYet]
  /\ bound' = [bound EXCEPT ![e.reg] = Unbound]
  /\ UNCHANGED <<invokeID, DeviceID2RouteRegisterReqID, ended, dialogs>>

RouteEndEvent(e) ==
  /\ DeviceID2RoutingCrossRefID' = [DeviceID2RoutingCrossRefID EXCEPT ![AliasedDevice(e)] = NoneYet]
  /\ UNCHANGED <<invokeID, bound, DeviceID2RouteRegisterReqID, ended, dialogs>>

RouteRegisterAbortEvent(e) ==
  /\ DeviceID2RouteRegisterReqID' = [DeviceID2RouteRegisterReqID EXCEPT ![AliasedDevice(e)] = NoReg]
  /\ UNCHANGED <<invokeID, bound, DeviceID2RoutingCrossRefID, ended, dialogs>>

\* Mutant: the last else of the chain is missing.
DecideVIPOnly(e, row) ==
  IF row = <<"VIP">> THEN RouteSelectInv(e, row) /\ UNCHANGED ended
  ELSE /\ ended' = (row = <<>>)
       /\ dialogs' = [dialogs EXCEPT ![e.cross].row = row]
       /\ UNCHANGED <<invokeID, bound>>

\* data[2], the type, does not exist when no row was read.
Decide(e, row) ==
  IF row \in {<<>>, <<"blacklist">>}
  THEN /\ ended' = (row = <<>>)
       /\ dialogs' = [dialogs EXCEPT ![e.cross].row = row]
       /\ UNCHANGED <<invokeID, bound>>
  ELSE RouteSelectInv(e, row) /\ UNCHANGED ended

RouteRequestExtEvent(e) ==
  /\ DeviceID2RoutingCrossRefID' = [DeviceID2RoutingCrossRefID EXCEPT ![e.dev] = e.cross]
  /\ Decide(e, SelectNumber(dialogs[e.cross].num))
  /\ UNCHANGED DeviceID2RouteRegisterReqID

\* stoi throws when the extension has no registration or no dialog filed.
ConnectionCleared(e) ==
  LET r == DeviceID2RouteRegisterReqID[e.dev]
      x == DeviceID2RoutingCrossRefID[e.dev]
  IN /\ IF r = NoReg \/ x = NoneYet
        THEN ended' = TRUE /\ UNCHANGED <<invokeID, bound, dialogs>>
        ELSE RouteEndInv(r, x) /\ UNCHANGED ended
     /\ UNCHANGED filed

Done(e) == Release(e.id) /\ UNCHANGED <<invokeID, filed, ended, dialogs>>

HandleEvent ==
  /\ ~ended /\ events # <<>>
  /\ LET e == Head(events)
     IN \/ e.ev = "registered" /\ RouteRequestReqConfEvent(e)
        \/ e.ev = "done"       /\ Done(e)
        \/ e.ev = "request"    /\ RouteRequestExtEvent(e)
        \/ e.ev = "end"        /\ RouteEndEvent(e)
        \/ e.ev = "abort"      /\ RouteRegisterAbortEvent(e)
        \/ e.ev = "cleared"    /\ ConnectionCleared(e)
  /\ events' = Tail(events)
  /\ UNCHANGED <<table, wire, owner, sessions>>

Program ==
  \/ HandleEvent
  \/ \E d \in Device : RouteRegister(d) \/ RouteRegisterCancel(d)
                        \/ OtherRequest(d) \/ AgentSetState(d)
  \/ \E n \in Number :
       DeleteNumber(n) \/ \E t \in Types : InsertNumber(n, t) \/ UpdataNumber(n, t)

Switch ==
  \/ \E i \in InvokeIDs : Confirm(i) \/ \E r \in RegID : Register(i, r)
  \/ \E x \in CrossRef :
       EndDialog(x) \/ \E r \in RegID, n \in Number : OfferCall(x, r, n)
  \/ \E r \in RegID : Abort(r)
  \/ \E d \in Device : ClearConnection(d)

Next == Program \/ Switch \/ LoseConnection
Spec == Init /\ [][Next]_vars

\* The window pumps its messages, so an event under way is handled.
FairSpec == Spec /\ WF_vars(HandleEvent)

-----------------------------------------------------------------------------
(* Properties. *)

\* RouteRequestReqConfEvent files a registration under the extension that asked
\* for it, and RouteRequestExtEvent a dialog under the extension that is called,
\* whatever else is answered in between: a route end the program sends on a
\* cleared connection names a registration and a dialog of that extension.  The
\* exception is a registration whose entry AgentSetState has written over (T 1748):
\* it is filed under the extension of the agent.
FiledStep ==
  \A d \in Device :
    LET r == DeviceID2RouteRegisterReqID'[d]
        x == DeviceID2RoutingCrossRefID'[d]
    IN /\ r \notin {NoReg, DeviceID2RouteRegisterReqID[d]} =>
            owner[r] = d \/ bound[Head(events).id].act = "AgentSetState"
       /\ x \notin {NoneYet, DeviceID2RoutingCrossRefID[d]} => dialogs[x].dev = d
FiledForItsDevice == [][FiledStep]_vars

\* A request of the program the switch has not confirmed, or whose confirmation
\* is under way.
Outstanding(i) ==
  wire[i] # Nothing \/ \E k \in DOMAIN events : events[k].id = i

\* Every request that is confirmed has an entry until then, and the entry names
\* what was asked unless AgentSetState has written over it: neither a later request
\* nor a select, an end or an abort, which use the same map, takes the extension
\* from a registration that waits for its confirmation.
EntriesKept ==
  \A i \in InvokeIDs :
    /\ Outstanding(i) => bound[i] # Unbound
    /\ wire[i] # Nothing /\ bound[i].act # "AgentSetState" =>
         /\ bound[i].act = wire[i].act
         /\ bound[i].dev = IF wire[i].act = "RouteRegisterCancel" THEN AChar ELSE wire[i].dev

\* AvayaCallCenterRouting::RouteRequestExtEvent answers every call it is asked
\* about, unless the number is on the black list (or the program is over, or it
\* has run out of the IDs the bound leaves it).
Decided(x) ==
  \/ ended \/ invokeID = MaxInvokeID
  \/ dialogs[x] # NoDialog /\ (dialogs[x].tries = 1 \/ dialogs[x].row = <<"blacklist">>)
RequestsDecided == \A x \in CrossRef : dialogs[x] # NoDialog ~> Decided(x)

\* AvayaCallCenterRouting.cpp:191 says the last alternative is for "ordinary"
\* calls, those on no list: a call the list says nothing about is routed.
OrdinaryIsRouted ==
  \A x \in CrossRef :
    dialogs[x] # NoDialog /\ db /\ dialogs[x].row = <<>> /\ numbers[dialogs[x].num] = <<>>
      => dialogs[x].tries = 1
=============================================================================

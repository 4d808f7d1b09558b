------------------------- MODULE MessageDispatcher --------------------------
(* SelectTSAPIInterface of class AvayaCtiUI, and the buttons that write the   *)
(* text of a message themselves.  (One text per behaviour: the reader and the *)
(* members are variables of one call.)                                        *)
EXTENDS JsonReader

CONSTANTS
  Digits,     \* the texts stoi makes a number of
  BoxTexts,   \* what an edit box may hold
  PlainTexts  \* those with no quote and no backslash in them

VARIABLES
  shown,     \* the radio buttons, per key they are for
  settings,  \* workmode, agentmode and participationType
  button,    \* the button pressed, "Begin" for the text typed in
  boxes,     \* what the edit boxes it reads hold, per key they are for
  outcome    \* the call of TSAPIInterface made, or what became of the text, see Ended

dvars == <<readerVars, shown, settings, button, boxes, outcome>>

\* "none" yet, "refused", "thrown" or "returned" without a call.
Ended(how) == [method |-> how, args |-> <<>>]
-----------------------------------------------------------------------------
\* The members each case of the switch reads, in the order of the arguments, and
\* those of them that go through stoi.
Keys ==
  LET device == <<"DeviceID">>
      agent == <<"DeviceID", "AgentID", "AgentPassword">>
      call == <<"DeviceID", "callID">>
      deflect == <<"DeviceID", "activeCall", "calledDevice">>
      calls == <<"DeviceID", "heldCall", "activeCall">>
  IN [ AgentLogin |-> Append(agent, "WorkMode"),
       AgentLogout |-> agent,
       AgentSetState |-> agent \o <<"WorkMode", "agentState", "enablePending">>,
       AgentGetState |-> device,
       AgentAnswerCall |-> call, AgentClearConnection |-> call,
       AgentDisconnectCall |-> call,
       AgentStartMonitor |-> device,
       AgentStopMonitor |-> <<"MonitorCrossRefID">>,
       AgentMakeCall |-> <<"callingDevice", "calledDevice">>,
       AgentHoldCall |-> call, AgentRetrieveCall |-> call,
       AgentDeflectCall |-> deflect, AgentPickupCall |-> deflect,
       AgentTransferCall |-> calls,
       AgentConferenceCall |-> <<"CheckedDevice", "CalledDevice">>,
       AgentConsultationCall |-> <<"DeviceID", "CalledDevice">>,
       AgentReconnectCall |-> calls,
       SnapshotDevice |-> <<"CheckedDevice">>,
       AgentMonitorCall |-> <<"CheckedDevice", "DeviceID", "ParticipationType">>,
       AgentSingleStepConferenceCall |->
         <<"CheckedDevice", "CalledDevice", "ParticipationType">>,
       AgentSingleStepTransferCall |-> <<"CalledDevice", "CheckedDevice">> ]

NumberKeys == {"WorkMode", "enablePending", "callID", "MonitorCrossRefID",
               "activeCall", "heldCall"}

\* The method of the user agent each case calls.
Method(name) == IF name = "AgentSingleStepConferenceCall" THEN "AgentMonitorCall" ELSE name

\* Class AvayaCallCenterUserAgent: its methods hand their arguments on, some under
\* another name or with a mode, and AgentMonitorCall if it knows the type.
Renamed == [ AgentGetState |-> "QueryAgentStatus",
             AgentStartMonitor |-> "StartMonitor", AgentStopMonitor |-> "StopMonitor",
             AgentMonitorCall |-> "SingleStepConferenceCall",
             AgentSingleStepTransferCall |-> "SingleStepTransferCall" ]

WithMode(method, args) ==
  CASE method = "AgentLogin" -> InsertAt(args, 4, "AM_LOG_IN")
    [] method = "AgentLogout" -> Append(args, "AM_LOG_OUT")
    [] OTHER -> args

Forward(method, args) ==
  IF method = "AgentMonitorCall" /\ args[3] \notin {"PT_ACTIVE", "PT_SILENT"}
  THEN Ended("returned")
  ELSE [method |-> IF method \in DOMAIN Renamed THEN Renamed[method] ELSE method,
        args |-> WithMode(method, args)]

\* receive_message[key]: a member that is not there reads as the empty text.
Member(key) == IF key \in DOMAIN members THEN members[key].text ELSE Empty

\* Mutant: members that are no strings are passed over.
AnyMembers == TRUE
StringMembers == \A n \in DOMAIN members : members[n].type = "string"

\* The members of null are none; any other value that is no object throws.
Dispatch ==
  LET name == Member("method")
  IN IF errors > 0 THEN Ended("refused")
     ELSE IF value.type \notin {"{", "null"} THEN Ended("thrown")
     ELSE IF ~StringMembers \/ name \notin DOMAIN Keys THEN Ended("refused")
     ELSE LET args == [i \in DOMAIN Keys[name] |-> Member(Keys[name][i])]
          IN IF \E i \in DOMAIN args : Keys[name][i] \in NumberKeys /\ args[i] \notin Digits
             THEN Ended("thrown") ELSE Forward(Method(name), args)

SelectTSAPIInterface ==
  /\ Over /\ outcome = Ended("none")
  /\ outcome' = IF at = "thrown" THEN Ended("thrown") ELSE Dispatch
  /\ UNCHANGED <<readerVars, shown, settings, button, boxes>>
-----------------------------------------------------------------------------
(* The buttons.  A handler puts the texts of its edit boxes between quotes as  *)
(* they are, so that its message is the object it is meant to be if they are   *)
(* all plain; otherwise it is some other text.                                *)

\* The handlers of the radio buttons (IDC_ACTIVE_RADIO and IDC_HELD_RADIO set
\* a text nobody reads).
Setting == [ WorkMode |-> <<"3", "4">>,
             agentState |-> <<"Not Ready", "Ready", "Busy">>,
             ParticipationType |-> <<"PT_ACTIVE", "PT_SILENT">> ]

\* The method and the keys of the message of each button.
Written ==
  LET agent == <<"DeviceID", "AgentID", "AgentPassword">>
      call == <<"DeviceID", "callID">>
      conference == <<"CalledDevice", "CheckedDevice", "ParticipationType">>
  IN [ LoginBtn |-> <<"AgentLogin", Append(agent, "WorkMode")>>,
       LogoutBtn |-> <<"AgentLogout", agent>>,
       StateChangeBtn |->
         <<"AgentSetState", agent \o <<"agentState", "enablePending", "WorkMode">> >>,
       ChkstateBtn |-> <<"AgentGetState", <<"DeviceID">> >>,
       CallBtn |-> <<"AgentMakeCall", <<"callingDevice", "calledDevice">> >>,
       MonitorStartBtn |-> <<"AgentStartMonitor", <<"DeviceID">> >>,
       MonitorStopBtn |-> <<"AgentStopMonitor", <<"MonitorCrossRefID">> >>,
       AnswerBtn |-> <<"AgentAnswerCall", call>>,
       ClearconBtn |-> <<"AgentClearConnection", call>>,
       HoldBtn |-> <<"AgentHoldCall", call>>,
       CancelholdBtn |-> <<"AgentRetrieveCall", call>>,
       PickupBtn |-> <<"AgentPickupCall", <<"DeviceID", "activeCall", "calledDevice">> >>,
       Monitorcallbtn |->
         <<"AgentMonitorCall", <<"DeviceID", "CheckedDevice", "ParticipationType">> >>,
       SnapshotBtn |-> <<"SnapshotDevice", <<"CheckedDevice">> >>,
       SnapshotBtn2 |-> <<"SnapshotDevice", <<"CheckedDevice">> >>,
       ConsultBtn |-> <<"AgentConsultationCall", <<"DeviceID", "CalledDevice">> >>,
       ConfBtn |-> <<"AgentConferenceCall", conference>>,
       ConfBtnChecked |-> <<"AgentSingleStepConferenceCall", conference>>,
       TransferBtn |-> <<"AgentSingleStepTransferCall", <<"CalledDevice", "CheckedDevice">> >> ]

Conference == {"ConfBtn", "ConfBtnChecked"}

\* The keys an edit box is for (no button writes "heldCall").
Boxes == (NumberKeys \ {"WorkMode", "enablePending"})
         \cup {"DeviceID", "AgentID", "callingDevice", "calledDevice", "CheckedDevice", "CalledDevice"}
BoxesOf(b) == Boxes \cap ToSet(Written[b][2])

\* What a button writes under a key: the password is empty, a conference is one of
\* active parties, the modes are what the radio buttons have set, and the others are
\* what their edit boxes hold.
WrittenText(b, key, modes, held) ==
  LET fixed == key = "ParticipationType" /\ b \in Conference
  IN CASE key = "AgentPassword" -> Empty
       [] key = "enablePending" -> "1"
       [] fixed -> "PT_ACTIVE"
       [] key \in DOMAIN modes /\ ~fixed -> modes[key]
       [] key \in Boxes -> held[key]
       [] OTHER -> key

\* The message of a button, pairs of a key and a text.
Message(b, modes, held) ==
  LET keys == Written[b][2]
  IN << <<"method", Written[b][1]>> >>
     \o [i \in DOMAIN keys |-> <<keys[i], WrittenText(b, keys[i], modes, held)>>]

\* The tokens of an object: "{", and four for each pair.
Four(pairs, i) ==
  << String(pairs[i][1]), Plain(":"), String(pairs[i][2]),
     Plain(IF i = Len(pairs) THEN "}" ELSE ",") >>
ObjectOf(pairs) ==
  [k \in 1 .. 4 * Len(pairs) + 1 |->
     IF k = 1 THEN Plain("{") ELSE Four(pairs, (k + 2) \div 4)[((k - 2) % 4) + 1]]

\* Mutant: the handler has no case for the third button.
RadioOfTwo(key, i) ==
  /\ button = "none"
  /\ shown' = [shown EXCEPT ![key] = i]
  /\ settings' = [settings EXCEPT ![key] = IF i = 3 THEN @ ELSE Setting[key][i]]
  /\ UNCHANGED <<readerVars, button, boxes, outcome>>

Radio(key, i) ==
  /\ button = "none"
  /\ shown' = [shown EXCEPT ![key] = i]
  /\ settings' = [settings EXCEPT ![key] = Setting[key][i]]
  /\ UNCHANGED <<readerVars, button, boxes, outcome>>

PlainHeld(held) == \A key \in DOMAIN held : held[key] \in PlainTexts

\* A message that is not the object it is meant to be is read like a text typed in.
Press(b, held) ==
  /\ button = "none" /\ button' = b /\ boxes' = held
  /\ IF PlainHeld(held) THEN rest' = ObjectOf(Message(b, settings, held)) /\ UNCHANGED typed
     ELSE typed' = TRUE /\ UNCHANGED rest
  /\ UNCHANGED <<past, input, frames, at, value, members, errors, outcome, shown, settings>>

\* OnBnClickedBegin on a text the user has typed.
Begin ==
  /\ button = "none" /\ button' = "Begin" /\ typed' = TRUE
  /\ UNCHANGED <<rest, past, input, frames, at, value, members, errors, outcome,
                 shown, settings, boxes>>

Parse == button # "none" /\ ReadToken /\ UNCHANGED <<button, outcome, shown, settings, boxes>>

DInit ==
  /\ ReaderInit /\ rest = <<>> /\ typed = FALSE
  /\ button = "none" /\ outcome = Ended("none") /\ boxes = <<>>
  /\ shown = [key \in DOMAIN Setting |-> 1]
  /\ settings = [WorkMode |-> "3", agentState |-> "Not Ready", ParticipationType |-> "PT_ACTIVE"]

DNext ==
  \/ \E key \in DOMAIN Setting : \E i \in DOMAIN Setting[key] : Radio(key, i)
  \/ \E b \in DOMAIN Written : \E held \in [BoxesOf(b) -> BoxTexts] : Press(b, held)
  \/ Begin \/ Parse \/ SelectTSAPIInterface

\* A text has an end, and is handled to that end in one go.
DFairness == WF_dvars(Parse) /\ WF_dvars(SelectTSAPIInterface)

DSpec == DInit /\ [][DNext]_dvars /\ DFairness
-----------------------------------------------------------------------------
(* Properties.                                                               *)

\* An ordinary text is taken if and only if it begins with a JSON value: one that is
\* taken is a value, and one in which an error is found is the beginning of none
\* (jsoncpp.cpp 343 to 463, 680 to 772).
TakenIfJson(documents, viable) ==
  typed /\ Ordinary =>
    /\ at = "parsed" /\ errors = 0 => Types(input) \in documents
    /\ errors > 0 /\ input # <<>> => Types(input) \notin viable

\* Of an ordinary text every token may stand where it stands, but for the one an error
\* is found at; and the value ends where all that was begun is ended (jsoncpp.cpp 343
\* to 463, 680 to 772).
ReadsText ==
  Ordinary /\ at # "thrown" /\ input # <<>> =>
    /\ \A i \in 0 .. Len(input) - 1 :
         MayFollow(i) <=> ~(errors > 0 /\ i = Len(input) - 1)
    /\ errors = 0 => (at \in {"root", "parsed"} <=> Depth(Len(input)) = 0)

\* Every text is answered, however it ends (jsoncpp.cpp 983).
Answered == button # "none" ~> outcome # Ended("none")

\* What is called is what an ordinary text says: an object of strings only, the
\* method and every argument the last member of their name; and a request is
\* dropped without a word only for its participation type (AvayaCtiUI.cpp 243,
\* AvayaCallCenterUserAgent.cpp 161).
CallsWhatIsWritten ==
  LET at1(i) == i + 2 \in DOMAIN input /\ Depth(i) = 1 /\ input[i + 1].type = ":"
      last(key) == LET places == {i \in DOMAIN input : at1(i) /\ input[i] = String(key)}
                   IN IF places = {} THEN Empty ELSE input[Max(places) + 2].text
      name == last("method")
  IN Ordinary /\ (outcome.args # <<>> \/ outcome = Ended("returned")) =>
       /\ input[1].type = "{"
       /\ \A i \in DOMAIN input : at1(i) =>
            \/ input[i + 2].type = "string"
            \/ \E j \in i + 1 .. Len(input) : at1(j) /\ input[j] = input[i]
       /\ outcome = Forward(Method(name), [i \in DOMAIN Keys[name] |-> last(Keys[name][i])])
       /\ outcome = Ended("returned") => last("ParticipationType") \notin {"PT_ACTIVE", "PT_SILENT"}

\* The request each button is there for, in the order of the parameters of
\* TSAPIInterface, each by the edit box or the setting it is taken from.
Meant ==
  LET agent == <<"DeviceID", "AgentID", "AgentPassword">>
      call == <<"DeviceID", "callID">>
      pair == <<"CheckedDevice", "CalledDevice">>
  IN [ LoginBtn |-> <<"AgentLogin", agent \o <<"AM_LOG_IN", "WorkMode">> >>,
       LogoutBtn |-> <<"AgentLogout", Append(agent, "AM_LOG_OUT")>>,
       StateChangeBtn |->
         <<"AgentSetState", agent \o <<"WorkMode", "agentState", "enablePending">> >>,
       ChkstateBtn |-> <<"QueryAgentStatus", <<"DeviceID">> >>,
       CallBtn |-> <<"AgentMakeCall", <<"callingDevice", "calledDevice">> >>,
       MonitorStartBtn |-> <<"StartMonitor", <<"DeviceID">> >>,
       MonitorStopBtn |-> <<"StopMonitor", <<"MonitorCrossRefID">> >>,
       AnswerBtn |-> <<"AgentAnswerCall", call>>,
       ClearconBtn |-> <<"AgentClearConnection", call>>,
       HoldBtn |-> <<"AgentHoldCall", call>>,
       CancelholdBtn |-> <<"AgentRetrieveCall", call>>,
       PickupBtn |-> <<"AgentPickupCall", <<"DeviceID", "activeCall", "calledDevice">> >>,
       Monitorcallbtn |-> <<"SingleStepConferenceCall",
                            <<"CheckedDevice", "DeviceID", "ParticipationType">> >>,
       SnapshotBtn |-> <<"SnapshotDevice", <<"CheckedDevice">> >>,
       SnapshotBtn2 |-> <<"SnapshotDevice", <<"CheckedDevice">> >>,
       ConsultBtn |-> <<"AgentConsultationCall", <<"DeviceID", "CalledDevice">> >>,
       ConfBtn |-> <<"AgentConferenceCall", pair>>,
       ConfBtnChecked |-> <<"SingleStepConferenceCall", Append(pair, "ParticipationType")>>,
       TransferBtn |-> <<"SingleStepTransferCall", <<"CalledDevice", "CheckedDevice">> >> ]

\* A button whose edit boxes hold no quote and no backslash makes its request with what
\* they hold and its radio buttons show, unless a box for a number holds none: then the
\* program ends (AvayaCtiUI.cpp 460 to 812, AvayaCallCenterUserAgent.cpp 33 to 177).
ButtonsCall ==
  button \in DOMAIN Written /\ PlainHeld(boxes) /\ outcome # Ended("none") =>
    LET keys == Meant[button][2]
        displayed == [key \in DOMAIN Setting |-> Setting[key][shown[key]]]
    IN \/ outcome = [method |-> Meant[button][1], args |->
             [i \in DOMAIN keys |-> WrittenText(button, keys[i], displayed, boxes)]]
       \/ /\ outcome = Ended("thrown")
          /\ \E key \in NumberKeys \cap Boxes : key \in ToSet(keys) /\ boxes[key] \notin Digits
=============================================================================

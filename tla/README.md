# AvayaCtiService in TLA+

AvayaCtiService is a Windows (MFC) program that sits between the front ends of a
call centre and an Avaya switch. It takes JSON messages such as
`{"method":"AgentHoldCall", "DeviceID":"1001", "callID":"7"}`, turns each into a
request to the switch through the TSAPI client library, and turns confirmations
and events of the switch into JSON texts, into calls of a MySQL recorder and
into routing decisions.

This directory models the program: TLA+ modules, TLC configurations that check them
on small instances, and TLAPS proofs for every size. In this text and in the modules
*T n* is line n of `src/AvayaCtiService/TSAPIInterface.cpp`.

## 1. The system

One process, one thread, one message loop. The window procedure of the dialog
handles buttons; the window of `TSAPIInterface` gets one message per TSAPI event
and fetches the event with `acsGetEventBlock`. Nothing runs in parallel inside
the program, but for the threads of the Kafka client, which touch its queues only.
What interleaves is

* requests of the program, answers and events of the switch, each some time
  after it was sent;
* a handler that opens a `MessageBox`: the box runs a message loop of its own, so
  other handlers run to their end in the middle of the one that opened it;
* other programs that write the same MySQL tables, and the loss of the connection;
* the Kafka client, which delivers, gives up and receives messages while the program
  waits in a loop for it.

| component | source | state | operations | modules |
|---|---|---|---|---|
| TSAPI requests and confirmations | `TSAPIInterface` | stream handle, `m_ulInvokeID`, `m_nRetCode`, `m_InvokeID2DeviceID`, `m_InvokeID2ActName`, five maps keyed by extension | 21 requests; confirmations, universal failures; opening and closing the stream | `TSAPIInterface`, `RequestCorrelation` |
| Call tracking | `TSAPIInterface::HandleCSTAUnsolicited` and the snapshot confirmation | `m_activeCall`, `m_heldCall` | events of monitored extensions; conference, consultation and single step requests read the maps | `CallTracking` |
| Call routing | `AvayaCallCenterRouting`, four requests of `TSAPIInterface` | registration and dialog per extension, table NUMBERLIST | register, cancel, route request, select, end, abort; changes of the list | `Routing` |
| Status records | `StatusRecord` | four MySQL tables | three overloads of `Request` | `StatusRecord` |
| MySQL access | `MySQLInterface` | connection, last result | `Open`, `Query`, `SelectOneLine`, `Select`, `SelectList`, `Close` | inside `StatusRecord` and `Routing` |
| JSON reader | `Json::Reader` of `jsoncpp.cpp` | position, node stack, errors | `parse` and what it calls | `JsonReader`, `JsonGrammar` |
| Dialog and dispatcher | `AvayaCtiUI` | texts and settings of the dialog, the objects it makes | `SelectTSAPIInterface`, button handlers, `OnInitDialog`, the destructor | `MessageDispatcher`, `AvayaCtiUI` |
| User agent | `AvayaCallCenterUserAgent` | none | forwards each operation to `TSAPIInterface` | `Forward` in `MessageDispatcher` |
| Device table | `CTsapiDevice` (`Tsapi.cpp`) | 10 calls of 6 connections per device | create, remove, add, look up. Linked in, never used | `TsapiDevice`, `CallTable` |
| Event pump | `CTsapiWnd` (`Tsapi.cpp`) | event buffer, device records | one event per window message. Linked in, never used | `TsapiWnd` |
| Kafka producer, consumer | `KafkaProducer`, `KafkaConsumer` | handles and queues of the client library | `initKafka`, `produce`, `consume`, `consume_clear`, the destructors. Built and taken down with the dialog; the calls of the other three are commented out | `KafkaProducer`, `KafkaConsumer` |
| Application | `AvayaCtiService` | `g_Counter` | one modal dialog per process | `AvayaCtiUI` |

Calls between them: the dialog reads a message and calls the user agent, the
user agent calls `TSAPIInterface`; `TSAPIInterface` calls `StatusRecord` for
records and `AvayaCallCenterRouting` for routing events, and the routing object
calls back into `TSAPIInterface` for its four requests. Requests of all kinds
share the counter of invoke IDs and the two maps from invoke IDs. The dialog owns
`TSAPIInterface` and the consumer, `TSAPIInterface` owns the producer.

What is hard, and what makes each part correct:

* **Correlation.** TSAPI answers with nothing but the invoke ID. Which operation
  and which extension it stood for is in two maps, filled after the call has been
  made and emptied by the answer. Correct: while a request is unanswered its entry
  is its own; the answer is filed as what was asked; entries go away again.
* **Shared per-extension maps.** Talk state, station state, call and agent mode are
  written when a request is made and read when it is confirmed, with one entry per
  extension however many requests are outstanding. Correct: the value a
  confirmation reads is that of its request, or of a later one, never of an older
  one.
* **Message boxes.** `AgentSetState` binds the ID after a box; by then the counter
  may have moved.
* **Partial failures.** The client library may refuse any request. Some operations
  bind an ID before they look at the return code. `m_nRetCode` is a member, and some
  paths test the value an earlier call left.
* **Call tracking.** Events come late, twice when both parties are monitored, and
  between the answers to snapshots. Correct: the maps follow what the switch said
  last, and never name a call of another extension.
* **Routing.** A registration is confirmed under an invoke ID, a dialog is named by
  the switch, an event has neither although the code reads one. Correct: what is
  filed belongs to its extension, and every call asked about is answered.
* **Records.** Names are checked twice, against two different lists; the vector of
  the caller is argument and result. Correct: a delete removes what it names and
  nothing else, a query changes nothing, a record that is reported stored is there.
* **Device table.** The handle of a call is the address of its row, and rows are used
  again. Correct: a row given to a new call is empty, a removal removes one call and
  no other, searches agree.
* **Event pump.** One window message takes one event and posts the next message
  itself; a window that is served may let the pump in again. Correct: every event is
  taken, no block of the heap is lost or freed twice.
* **Messages.** A text is typed by the user or written by a button, read by a reader
  with quirks of its own, and its members are looked up by name in three layers.
  Correct: every text is answered, what is taken is JSON, and what reaches
  `TSAPIInterface` is what the text or the button says, argument by argument.
* **Start, end and Kafka.** Every step of the start may fail and is not looked at by
  the next; the end uses what the start made. `produce` retries on a full queue, the
  destructors wait with a limit. Correct: nothing is used that is not there, loops
  end, no message is sent twice or lost without notice.

`PROJECT.json` lists every hazard with its line and the properties that watch it.

## 2. Plan

In order of importance; 1 to 6 are done.

1. `TSAPIInterface` (all requests and confirmations), `RequestCorrelation` (what
   the two maps promise), `TSAPIInterface_proofs` (invariants), `TSAPIInterface_steps`
   (action properties, what is filed, the refinement).
2. `CallTracking`: `m_activeCall` and `m_heldCall` against a model of the switch;
   `CallTracking_proofs`.
3. `Routing`: registrations, dialogs, the decision, the list of numbers;
   `Routing_proofs`.
4. `StatusRecord`: the recorder down to the effect of its SQL; `StatusRecord_proofs`.
5. `TsapiDevice` with `CallTable`, the partial map it promises to be, `TsapiWnd`, the
   pump, `TsapiDevice_proofs` with the refinement and the buffer of the pump.
6. `KafkaProducer`, `KafkaConsumer`, composed with the dialog's life in `AvayaCtiUI`;
   `JsonReader` and, on top of it, `MessageDispatcher`, with the grammar of JSON in
   `JsonGrammar`; `AvayaCtiUI_proofs`, `MessageDispatcher_proofs`.
7. A composition of `TSAPIInterface` with `Routing` over one counter and one pair of
   maps, with the cleared connection as the step both take part in.
8. Proved by now are all safety properties of the passing runs but `SearchesAgree`, of
   `ReadsJson` the half that asks for no recursive grammar (section 5). What is left is
   to prove more than the runs ask: which reports an extension's entries may lag behind
   (`FollowsSwitch` speaks of a drained stream only), and `RequestCorrelation` for the
   entries that `AgentSetState` does not write.

## 3. The modules

### TSAPIInterface

`stream`, `invokeID`, `retCode` and the seven maps are the members of the class
(`m_lAcsHandle`, `m_ulInvokeID`, `m_nRetCode`, `m_InvokeID2DeviceID`, ...). A
`std::map` key that is missing reads as the empty text, so the maps are total
functions with the value `Empty`. `modal` is the stack of functions suspended in a
message box. Three variables are not in the code: `wire` is what TSAPI has accepted
and not yet answered, `filed` what the last step passed to `StatusRecord`, and
`setBy` stamps each entry of the per-extension maps with the number of the request
that wrote it.

Each request of the dispatcher is one action. Most have the shape of `Send`: call
the library with `++m_ulInvokeID`, and if it accepted bind the ID and assign the
maps. `AgentTransferCall`, `AgentLogin` and `AgentLogout` bind whatever the return
code is, and so do the four requests of routing (`SendEager`, `RouteInv`), which share
the counter and the two maps: `RouteRegister` and `RouteRegisterCancel` from the buttons,
`RouteSelectInv` from the handler of a route request (`RouteRequestExtEvent`) and
`RouteEndInv` from that of a cleared connection. The last two are answered by nobody,
so that their entries are never erased; a string assigned from a number is one
character (`AChar`). `SingleStepConferenceCall` assigns the station state of one extension and
the talk state of another; `StartMonitor` and `StopMonitor` bind nothing;
`AgentSetState` may leave a frame in `modal` in two places, and `CloseMessageBox`
goes on from there with the members as they are by then. A confirmation is
`HandleCSTAConfirmation`: `ConfirmedMes` has one case per confirmation type and asks
for the bound name as the `switch` in the code does; then both entries are erased.
A universal failure erases them and files nothing. A snapshot of an extension
without calls follows a null pointer (T 777), `acsGetEventBlock` failing leads to a
box and `exit(-1)`, and numbers that are none throw out of the dispatcher: these end
the program.

The boxes are owned by the hidden window of `TSAPIInterface`, which is not the parent
of the dialog, so the dialog stays usable while one is open.

`RequestCorrelation` is the abstract promise: an ID is taken, stands for one
operation on one extension until it is answered, and what is reported of the answer
names both. `Correlates` states that `TSAPIInterface` implements it, with `pending`
mapped to the entries of unanswered requests.

### CallTracking

The switch is modelled: `conn` is the state of each extension in each call, and each
change is reported once or (when the other party is monitored too) twice, in order,
over one stream. `HandleReport` is `HandleCSTAUnsolicited` for the next report. HELD
moves the call from `m_activeCall` to `m_heldCall`; RETRIEVED sets the active call and
erases the held one if the entry of `to_string(*retrieved_devID)` exists: that key is
the decimal code of the first character of the extension, which the constant
`CharCode` gives; a snapshot makes the first call of the list the active one. A
connection is modelled by its call. `has` and `latest` are history; the third field of
`latest` says whether the call has been cleared since, which the comment at T 1014-1016
answers with a deletion and the code with nothing.

### Routing

The program side has the counter, the two ID maps (as records in `bound`), the two
maps of the routing object and NUMBERLIST; the switch side has the unanswered
requests, who owns a registration, the live registrations and the dialogs. Events are
handled in order. `AliasedDevice` is what the handlers of event reports read: the
register request ID lies in the union where an answer has its invoke ID.
`RouteRegisterCancel` and `RouteEndInv` bind a string assigned from a number, which is
one character (`AChar`). `OtherRequest` stands for all requests without a part in
routing, those that bind nothing included, and `AgentSetState` for the entry that
function writes under the ID in use (T 1748), which may be that of a registration.

### StatusRecord

The four tables are sets of rows, a statement is its conditions, and `link` says
whether the connection is usable. `Request` (vector), `RequestMap` and
`RequestMapVector` are the overloads; `Select`, `Insert` and `Delete` give the outcomes
of the statement they build: `... WHERE ` without a condition and `VALUES(` with a
stray quote are not accepted by MySQL. The texts of fields go into a condition as they
are (`StatusRecord.cpp` 236, 306). Those without a quote or a backslash are `Plain`, and
a condition of plain texts is equality (`Matching`). Any other text makes another
statement or none (`Garbled`): a delete may then take any rows of its table
(`Meanings`), and a query find any of its rows or another line (`Results`, `Lines`).
Rows get into the tables through other programs (`OtherWrites`).

### TsapiDevice, CallTable

`connIDList` is `m_ConnIDList`, a row of slots per call; a handle, in the code the
address of a row, is its number. A slot is free when the call ID in it is 0. A search
takes the first row or slot in order of addresses, which is `Min`. The methods are
called by nobody, so `Next` lets callers call them in every order and with every
argument, a connection that is in the table twice or a handle of a call that is over
included; `orphans` remembers the rows a caller has emptied of their local connection
only. `CallTable` is what the comments promise, a partial map from connections to
handles; `PromiseKept` says that the table is that map whenever no rule is broken.

### TsapiWnd

`OnTsapiMsg` with its five outcomes of `acsGetEventPoll`, the buffer that is static, a
block or null, and the stack of windows that are being served: `SendMessage` is split
into `Dispatch` and `SendMessageReturns`, and anything may happen between the two.
`CreateDeviceRecord` never gives out a record, so unsolicited CSTA events reach nobody
(`Addressee`).

### KafkaProducer, KafkaConsumer, AvayaCtiUI

`KafkaProducer` has the handles `rk` and `rkt`, and of the library its queue: a message
is in `queue` until it is delivered or given up (`Settle`), then in `reports` until a
poll serves the report; both count against the limit. `produce` is a loop, one round
of which is accepted, retried after a poll, or refused. `KafkaConsumer` has its
handles, that of its topic included, which nobody looks at or destroys; each partition
of the topic as the offsets up to `end` and the next one to be given out; and the loop
the thread is in. The subscription is to the whole topic, while `consume_clear` seeks
partition 0 (`SeekEnd`). `run` is the counter of the destructor, which the code
decrements in the test and tests again after the loop.

`AvayaCtiUI` composes both with the dialog: `phase` is where the one thread is, from
`OnInitDialog` to the destructors in their order; `object` has the dialog's pointers,
each uninitialised, null, live or dangling. `used` collects what is used although it is
not there. With a handle or an object the behaviour ends there (`Undefined`), as nothing
can be said of the code from there on; with the name of the database, the topic
configuration given away, and the consumer dumped after its end, the program may go on.
`failures` is history. The modal loop lets the user close the dialog, and a
handler `exit`, at any moment in which no loop runs.

### JsonReader, MessageDispatcher

`JsonReader` is `Json::Reader` at the level of tokens. The recursion of `readValue`,
`readObject` and `readArray` is the stack `frames`, and `at` is where in them the reader
stands; one step reads one token. The references the reader is compared with are two.
`JsonGrammar` is a grammar by itself, recursive as that of JSON is. `MayFollow` needs no
recursion: it says from a token, the next, and the innermost value open between them
(`InsideArray`, a matter of depth) whether the next may stand there. The text is chosen
as it is read, token by token: every text up to the bound is covered, and none is
enumerated in advance. `parse` copies `capacity()` bytes of the text, so that a string
or comment that is not closed, and a text that is cut short, may be read on into what
stands behind it: `past` counts these stale tokens.

`MessageDispatcher` extends it with `SelectTSAPIInterface`, the buttons, and the user
agent. `Keys` has the members each case of the `switch` reads, in the order of the
arguments; the `switch` is over a hash of the name, which for the names in question is
equality. `Forward` is `AvayaCallCenterUserAgent`: another name for five methods, a mode
added to two, and one that returns without a call when it does not know the type. A button
writes `Message`, pairs of a key and a text, what its edit boxes hold (`boxes`) among the
texts. The handlers put the texts between quotes as they are, so `ObjectOf` is what the
reader gets of the message if all of them are plain, without a quote or a backslash: four
tokens for each pair (`Four`) behind the brace. Otherwise the message is some other text,
and is read like one typed in.
`outcome` is the call of `TSAPIInterface` that results. What that call then does is the
action of the same name of `TSAPIInterface`.

`MCDialog` runs the life of the dialog and the handling of one message as the two
`part`s of one specification: a message is handled inside one call, which the life sees
as nothing or as `Exit`.

## 4. The runs

No run checks for deadlock: the program may end in every model, and the bounds run
out. A run with two instances chooses one at the start (`instance`, `part`) or takes
the slices of the space that belong to them by a constraint.

| run | instance | question |
|---|---|---|
| `CallControl` | two extensions, six operations that compete for the same entries, `AgentSetState` and a route select among them, IDs up to 3, one box, any order of answers | Are entries, per-extension maps and filed records those of the requests? Are IDs used once? |
| `Answers` | two extensions, all operations but `AgentSetState`, IDs up to 3, one box, fair answers | Does the class implement `RequestCorrelation`? Is every operation that files filed, do only the too eager ones leave entries behind, is every other entry erased in the end? |
| `CallReports` | one extension with two calls, or two extensions in one call, one of them numbered as the character code the other's retrieved event looks up; three reports under way | Do the maps say what the switch said last, but for a call cleared since? Do entries and requests keep to the calls of their extension? |
| `Routes` | two extensions, two registrations numbered like invoke IDs, two dialogs, three requests, two events under way; or one extension and one number with up to two rows of any type, the database lost at any time; or the registrations of one extension beside `AgentSetState` for another | Is what is filed that of its extension and do requests keep their entries, unless `AgentSetState` has written over them, is every call asked about decided? |
| `Records` | all overloads, names and methods; vectors with no, one and two fields, one with a quote and one of a wrong size; two tables filled by others | Who may change a table or the vector of the caller? |
| `Devices` | two rows of three slots, two call IDs, two devices; or three events, windows served two deep, two messages waiting | Is the table the map `CallTable`, are free rows empty, do searches agree? Is every event taken, no block lost? |
| `Dialog` | the life of the dialog with three messages, a queue of two, a topic of two partitions with two messages each, five waits; or one message of up to nine tokens and two stale ones, nesting up to three, edit boxes with a number, another text or a quote | Is what is used without being there accounted for by a failure, do loops end, is every message settled? Is every text answered, what is taken JSON, and what is called what was written? |
| `BindingStable`, `RetrievedHeld`, `RouteOrdinary`, `RecordStored`, `GivenOnce` | | TLC finds each of these violated; section 6. |

Why the bounds are enough. All safety properties but `SearchesAgree` are also proved for
every value of the constants, `ReadsJson` in part (section 5); what follows is about the
rest, and about the mutants that a run has to find. The hazards of the request side need
two requests that share an ID, an extension or a box: invoke IDs up to 3 give two
requests outstanding with any third event between them, ID 1 being that of the stream
(the constraint `ReadyEarly` of `CallControl` only lets the mode "Ready" be asked for
before the last ID is used). A tracked connection is disturbed by one other call, one
other extension and one report under way; three reports let a duplicate and a later
change wait together; `Slice` leaves out two extensions with different calls at the same
time. The aliased ID of a route event needs a registration numbered like an invoke ID in
use, which two registrations and three requests give; IDs up to 4. A select is decided
by no, one or two rows. A row is reused and a connection found in the wrong row with two
rows; three slots let a row lose its local connection and keep two others. The pump is
entered again at depth two, and three events let one wait behind two. A queue of two is
full with a third message in the loop. The number of waits is that of the code.

Nine tokens are an object of two members, the least that has a method with an argument
or an array in an object in an array. `ThisText` leaves out texts that differ only in
which string stands where none is looked at, and lets a `null`, an empty name and a
comment come in early places only, where every step of the reader that treats them is
reached; the message of a button that is not plain keeps to texts of three tokens and to
boxes that hold the same. The limit of the nesting is 1000 in the code.

Constants that are bounds only: `MaxInvokeID` (the counter is an `unsigned long`),
`MaxModal` (boxes on top of each other), `MaxReports` and `MaxEvents` (events not yet
handled), `MaxRows` (rows of one number), `MaxNested` and `MaxPosted` (windows and
messages of the pump), `MaxMessages`, `MaxOffset`, `MaxTokens`, `MaxStale`. `MaxCalls`,
`MaxDevices`, `QueueSize`, `Tries` and `StackLimit` are sizes in the code. Symmetry is
used for extensions and calls where no constant tells them apart, and in no liveness run.

**Fairness.** `Answers`: for each invoke ID, weak fairness of its answer (confirmation
or universal failure). TSAPI answers every request it has accepted, the window gets a
message for each answer, and message boxes pump messages too, so an answer stays
possible until it is handled; the program promises nothing when the stream is not
open, and `BindingReleased` says so. `Routes`: weak fairness of `HandleEvent`,
since the window pumps its messages. `Devices`: the pump takes a waiting message, and a
window that is served returns. `Dialog`: the thread goes on with a message that is not
refused and with the destructors, whose waits time out and whose message boxes the user
answers; the library settles every
message, by delivery or after `message.timeout.ms`, which is what makes room in a full
queue; a text has an end, and the thread reads to it in one go. Nothing else is assumed
of users, and nothing of the switch or the broker.

**Mutants.** For every property of a passing run `PROJECT.json` names a plausible bug in
a modelled definition (an entry bound to the ID before, a value inserted instead of
assigned, an early return before the clean-up, a retry without a poll, a radio button
without its case ...) that makes the property fail. The mutated forms stand before the
definitions they change.

## 5. The proofs

`TSAPIInterface_proofs` and `TSAPIInterface_steps` prove for all sets of extensions,
agents and calls, all subsets of operations and all bounds, from the assumptions of
`TSAPIInterface` (the operations are operations of the class, the bounds are numbers, no
extension is the empty text or the one character a number is turned into):

| theorem | says |
|---|---|
| `TypeCorrect` | every variable keeps its type |
| `BindingsFaithful` | an unanswered request keeps its own entry (a cancel that of no extension), unless `AgentSetState` has written over it |
| `OnlyLeakyActsLeak` | an entry outlives its request only for the eight operations that bind too eagerly, the four of routing among them |
| `AssignmentsKept` | the per-extension maps hold what a request assigned, unless a later operation has assigned them |
| `FreshIDs` | an ID is given to one request, which does not change until it is answered |
| `RecordsFaithful` | what is filed of an answer is about the request answered, unless it is `AgentSetState` |
| `Filed` | the case of a confirmation finds the name it asks for, for every operation that files |
| `Implements` | if no new agent state is asked for, the two maps implement `RequestCorrelation` |

`BindingFaithful` is not inductive: nothing in it says that IDs above the counter are
free, so the next ID might carry an old entry. `Inductive` adds per ID (`EntryOK`) that
both maps have an entry or neither has, that nothing is in use above the counter, that
an entry without a request is one of the eight operations', and that a request assigns
only the fields its own confirmation reports (`FieldsFit`, needed to type what is filed).
`KeptAll` relates the maps, their stamps and each request; since every stamp is a number
already given out, a new request is later than all of them, and `AssignKeepsOlder` and
`AssignKeepsNew` carry it through an assignment. There is one lemma per group of actions:
most operations are instances of `SendOnInductive`; those that bind too eagerly,
`AgentSetState` with its two frames, and the answers have their own.

`FreshIDs` and `RecordsFaithful` are action properties and follow from `Inductive` for one step.
`StepKinds` sorts the steps: one sends at most one request, under the next ID, and files
nothing, or it answers one. A sent request is fresh because nothing is in use above the
counter. `ConfirmedReports` goes through the confirmations: a record is only filed when
the entry of its ID has a name, the entry is then that of the request (`EntryOK`, and
`AgentSetState` is excluded), the values come from the per-extension maps, which hold
what the request assigned (`KeptAll`), and a confirmation leaves out only fields that
its requests do not assign (`FieldsFit`).

`ConfirmationIsFiled` is not inductive either, since nothing in it ties the confirmation
TSAPI will send to the operation that asked. `AllFit` does: each unanswered request will
be confirmed in a case that asks for its own name (`FitsItsCase`, the `csta*` call of
each operation beside the `switch` of the confirmations). It holds because every request
is built with the right pair (`ReqFits`, `AgentReqFits`) and `SentStep` carries that.

`Implements` assumes `NoSetState`: the instance asks for no agent mode, or does not have
`AgentSetState`. Without it the theorem is false, as `BindingStable` shows.
`AbstractStep` is the next-state relation of `RequestCorrelation` in terms of the
entries. `InvokeCorrelates` maps a call of the library to `Submit` if it was accepted and
bound and to `Refuse` if not: the ID is new, so what it stands for was nothing, and what
an eager operation binds under a refused ID still stands for nothing. `AnswerCorrelates`
maps an answer to `Complete` if the ID had an entry and to `Ignore` if it had none
(monitors); the record cannot name anything but the entry (`FiledIsEntry`). That no box
is open after which an operation binds an ID is an invariant of its own (`OnlyExitBoxes`).

`CallTracking_proofs`, for all sets of extensions and calls, every bound on the reports
under way, every set of routed extensions and every `CharCode` that yields an extension
or none:

| theorem | says |
|---|---|
| `TypeCorrect` | both maps have an entry for every extension, a call or none |
| `OwnCalls` | neither map, nor a request made from them, names a call the extension has had no part in |
| `Follows` | when no report about an extension is under way, its entries say what the switch said of it last; a call cleared since may have stayed or gone |

`OwnCallsOnly` looks at the maps only and is not inductive: a report under way might
bring in a foreign call. `OwnInv` adds that reports are about calls of their extension
(`ReportsOwn`). `HandledMaps` says what one report does to the entries of its extension,
and that it does nothing to those of others: the test under a character code reads the
entry of another extension but decides only whether the own one goes. `FollowsSwitch`
speaks of a stream that is drained for an extension, which says nothing while reports
wait. `FollowInv` adds that the last waiting report about an extension is what the
switch said last (`LastIsLatest`); when it is taken, and was the only one, the entries
become what it says (`CaughtUp`). Duplicates are why the lemma on `Tell` is about one or
two copies of a report.

`Routing_proofs`, for all sets of extensions, registrations and dialogs and all bounds
(no extension is the text of an erased entry or the one character a number is turned
into; registration IDs are numbers other than the mark for none):

| theorem | says |
|---|---|
| `TypeCorrect` | every variable keeps its type; no map is read under an ID it has no entry for |
| `Filed` | a dialog is filed under the extension that is called, a registration under the one that asked, unless `AgentSetState` has written over the entry of its request |
| `Kept` | a request keeps its entry until it is confirmed, or that of an `AgentSetState` written over it |

Both properties depend on what is under way, so `RouteInv` describes the events: an
event has an ID only if it confirms a request that the switch has no longer got, whose
entry is still there and, for a registration, names its owner or is `AgentSetState`'s;
the dialog of a route request is of the extension in it (`EventsOK`). No two events
confirm the same request (`OneAnswer`, or handling one would erase the entry of the
other), a request in the switch has its entry (`WireOK`), a filed dialog is one the
switch has begun (`FiledOK`) and live registrations have an owner (`OwnersOK`). The
difficult steps are the handlers of event reports, which erase the registration or the
dialog of whatever extension an ID read from the wrong member of a union is bound to
(`AliasedDevice`).

`StatusRecord_proofs`, for all values, tables, messages and vectors of any length:

| theorem | says |
|---|---|
| `TypeCorrect` | rows have the columns of their table, the vector of the caller holds texts |
| `OnlySelectWrites` | no call of the vector overload but a query changes the vector |
| `SelectFindsTheRow` | a query of plain texts that succeeds leaves the only row with the given fields, and one that finds no single line nothing |
| `Deletes` | a row goes only by a delete in its table that names a field at least, and has every field named if the texts are plain |
| `MessagesDoNothing` | the overloads that take a message never change a table |

`RecordInv` adds to the properties that tables are finite (`TablesOK`), since the code asks
for a result of one row and a cardinality says something of finite sets only. The last two
are action properties; for them `VectorInv` says what a call of the vector overload leaves
behind, and `MapInv` that a message is refused by the overload it is passed on to.

`TsapiDevice_proofs`, for every number of calls and of slots in a row, every set of call
IDs and device IDs (from `SizesAssumption` and `MarksAssumption`):

| theorem | says |
|---|---|
| `TableTypeCorrect` | every slot holds a connection or is free |
| `FreeRowsEmpty` | a row given to a new call holds no connection of an old one, unless its local connection was taken out on its own |
| `TablePromiseKept` | the table implements `CallTable` whenever no connection is in two slots and no row is an orphan |

The code searches by counting up, the model takes `Min`; `MinIsLeast` derives from the
well-foundedness of inclusion on finite sets that the minimum exists. `TableInv` (types
and empty free rows) is inductive; that free rows are empty needs the history variable
`orphans`, without which the property is false. The refinement needs no more than
`TableInv` and the condition on a step: while the table is `Single`, a connection is found
where it is (`FoundWhereItIs`), so each method is the step of the map of the same name.

`Owned`, in the same module: no block of the event buffer is lost or freed twice, for any
number of windows and events and any depth of nesting, from `ControllerAssumption` (the
window that owns the pump is none of those it serves). `BufferOwned` is inductive:
whatever is freed is the block the buffer points to, and `BigEventFails` leaves the buffer
without it.

`AvayaCtiUI_proofs`, for every number of messages and of partitions, size of the queue,
length of the partitions and number of waits (`Sizes`):

| theorem | says |
|---|---|
| `LifeTypeCorrect` | types; the library holds no more messages than its queue has room for |
| `LifeDefined` | each thing used without being there is accounted for by the one failure that leaves it out, but the topic configuration, which is used after it was given away whenever a consumer is made |
| `MessagesProducedOnce` | a message `produce` has returned from was accepted once or refused |
| `MessagesSettled` | what was accepted is settled before its handle goes, unless the flush ran out of time or the program called `exit` |
| `DumpIsLate` | the handle is dumped only when at most one wait was left |
| `ClearingIsForGood` | `consume` returns nothing of partition 0 that `consume_clear` has gone past |

`LifeInv` adds to them which handles go together in which phase (`HandlesOK`: a topic
handle that is live has a live producer, a consumer that is live has its list and its
object), that `run + timeouts = Tries` while the destructor waits (`WaitsOK`), and that
what was cleared is behind the position (`TopicOK`). `MessageSteps` and `TopicSteps` say
that of all steps of the dialog only those of the two ends change messages and topic, so
each part of the invariant is carried through its own steps.

`MessageDispatcher_proofs`, for texts of every length and depth, every set of strings and
whatever the edit boxes hold:

| theorem | says |
|---|---|
| `ButtonRequests` | a button whose edit boxes hold plain texts makes the request it is there for, with what they hold and the dialog shows, or the program ends on a box for a number that holds none |
| `TextsCalled` | what is called is what an ordinary text says, each argument the last member of its name |
| `TextsRead` | the tokens of an ordinary text may stand where they stand, all but one an error is found at, and its value ends where all is ended |

`ButtonRequests` asks for a nesting limit of two at least, which is 1000 in the code, and
that `stoi` makes numbers of the texts 1, 3 and 4 the dialog writes itself; the others
ask for nothing. The first is a run of the reader whose text is known: `ButtonsInv` says
how far it has come. With i pairs of the message read and j tokens of the next (`AtPair`),
the rest of the text is what `ObjectOf` has behind them (`Left`), the members are those i
pairs (`Holds`), and `at` is the place of the j-th token in `readObject`. That the names of
a message are different (`MessageNames`) keeps a member from being set twice. The second
half is table against table: for each button the keys the `switch` reads are among those
the button writes (`ButtonKeys`), and `Forward` puts them in the order that is meant
(`ButtonMeant`, `AgentForwards`).

`TextsCalled` has no text to go by, so its invariant `TextInv` reads the state off the
tokens so far, as long as the text is ordinary and without error. `Where` is what the last
token says of `at`; `Stacked` that there are as many calls as the text is deep; `Begun` that
the outermost call, and in the end the value, is of the type of the first token. The rest is
about `Places`, the positions of outermost names whose value has begun. Outside a member the
members are those of all places, for each name the last (`Settled`, `OuterRead`); inside one
they are those of all places but the last, whose name and whose type the two outermost calls
keep (`Pending`, `InnerRead`). `Moves` shows which tokens are an error (`Accepted`), and that
one that is none is one of six moves (a scalar, an opening, a closing, a name, a colon, a
comma) or comes after the value; there is one lemma per move (`ScalarKeeps` ...
`RootKeeps`). When the text is handled, a
member that is read is the last of its name (`MembersAreLast`), so `Dispatch` is what
`CallsWhatIsWritten` says of the text.

`TextsRead` is `ReadsText`, the half of `ReadsJson` about `MayFollow`. Its invariant
`GrammarInv` stands on `TextInv` and ties what the reader looks at to what the text has.
`Openers` says that every call on the stack was begun by the last opening token of its
depth, so that being in `readArray` is being inside an array (`InsideIs`); `HaveNames` that
of the objects only one whose first member is awaited has an empty name, which is how
`readObject` knows that it may end there, and which an ordinary text makes true; `Ends` what
the last token, and for a name the one before, say of `at`. From these, what the reader takes
is what may follow (`AcceptedIs`), and what was judged stays judged when the text gets
longer (`FollowsStays`). A token after the first error empties the input, so that error is
the last token of a text that has one (`JustFailed`).

Model-checked only: liveness (`BindingReleased`, `RequestsDecided`, `EventsTaken`,
`ProduceReturns`, `ShutsDown`, `Answered`; liveness under fairness is out of the
prover's reach), `SearchesAgree`, which compares the two search loops of the code and
would follow from their definitions, and of `ReadsJson` the comparison with
`JsonGrammar`, a recursive definition: what it yields for every text takes an induction
over data. That this grammar and `MayFollow` are the same is therefore shown by the run
for up to nine tokens, and that the reader keeps to `MayFollow` is proved for all texts.

## 6. Disagreements between code and comments

Each of the first five has a run whose counterexample shows it, and a finding in
`PROJECT.json` that quotes the comment.

* `BindingStable`: `AgentSetState` binds `m_ulInvokeID` whether or not it has sent a
  request under it. The entry of an unanswered request of another extension is
  overwritten, and its confirmation is reported for the wrong extension (T 1748).
* `RetrievedHeld`: a retrieved call stays in `m_heldCall`, because the entry is looked
  for under a character code (T 1096).
* `RouteOrdinary`: a call about which NUMBERLIST says nothing is not routed; the type of
  a row that was not read is looked at, which ends the program
  (`AvayaCallCenterRouting.cpp:173`).
* `RecordStored`: no record of a message reaches a table, since the names one overload
  accepts are refused by the one it calls (`StatusRecord.cpp:172`).
* `GivenOnce`: the consumer gives its topic configuration to
  `rd_kafka_conf_set_default_topic_conf` and uses it again ten lines later, although it
  "is not usable after this call" (`KafkaConsumer.cpp:125`, 135, `inc/rdkafka.h:1394`).

Seen while modelling, in the models as the code has it, and without a run of their own:

* `AgentLogin` with a third work mode is sent if the call before it succeeded (T 1570);
  the comment at T 1539 allows two modes.
* `AgentTransferCall` calls `cstaReconnectCall`, whose confirmation asks for another
  name: a transfer is never filed (T 2184, T 564).
* A snapshot makes the first listed call the active one whatever its state (T 777).
* A cleared connection stays in the maps, although T 1014-1016 says it is deleted.
  `FollowsSwitch` lets a call that was cleared stay or go.
* A route end and a registration abort erase the entries of whatever extension an
  unrelated invoke ID is bound to, usually none (`AvayaCallCenterRouting.cpp:211`, 234).
* The call `StatusRecord.h:4` gives as an example is refused for its method name.
* `CreateDeviceRecord` compares an array with a null pointer and never finds a free
  record; the comment at `Tsapi.cpp:447`-449 says it returns one.
* `RemoveConnectionFromCall` may free the local connection and leave the others: the row
  counts as free, and the next call is created among them (`Tsapi.cpp:164`, 66). A handle kept
  after the end of its call is that of the next call in the same row.
* A stream that does not open leaves `m_pConsumerObject` uninitialised, and the destructor
  deletes it (`AvayaCtiUI.cpp:132`, 169). Without `Settings.ini` the routing object connects
  with names that were never set.
* The topic handle of the consumer is never destroyed, which `inc/rdkafka.h:1740` asks
  for, and used without a test of whether it was made (`KafkaConsumer.cpp:135`, 183);
  the consumer dumps a handle after it has destroyed it (`KafkaConsumer.cpp:50`).
* `consume_clear` seeks partition 0 of a topic it has subscribed to as a whole
  (`KafkaConsumer.cpp:183`, 156): what the other partitions hold is returned later.
* The texts of fields go into SQL conditions, and the texts of edit boxes into messages,
  without an escape (`StatusRecord.cpp` 236, 306; `AvayaCtiUI.cpp:467` and the handlers
  after it).
* `g_Counter` is a variable of the process, so the message for a second instance
  (`Constant.h:50`) is never shown (`AvayaCtiService.cpp:47`).
* An edit box for a number that holds none ends the program: `stoi` throws out of a window
  procedure (`AvayaCtiUI.cpp:273`). A monitor request of an unknown participation type is
  dropped and reported as done (`AvayaCallCenterUserAgent.cpp:161`).
* The reader takes any token after a comment for the comma, takes `{"":1,}`, refuses a
  comment before `:` and in an empty array, ignores what follows the value, and reads past
  the end of a text that is not closed (`jsoncpp.cpp:727`, 323). A text whose value is no
  object throws in `getMemberNames`.

## 7. What is abstracted, what is not modelled

* Times, cause texts and the layout of the dialog; the text of SQL statements beyond what
  decides whether MySQL accepts them; the spelling of tokens, escapes and numbers of JSON.
* The agent mode reported by a status query, and the calls reported by confirmations
  that make a new call, are the one value `"reported"`.
* A connection ID is modelled by its call; the device type and dynamic device IDs in it
  are not.
* The test of a handle lets through the address one past the last call (`Tsapi.cpp:122`);
  the handles of the model are those of the table, as nobody gives out another.
* The branch of `OnTsapiMsg` for a `CSTACONFIRMATION` (`Tsapi.cpp` 400-416) serves the device
  record of an invoke ID; no record is ever given out, so it reaches nobody.
* What a text with a quote or a backslash in it makes of an SQL statement or a message: the
  models allow any rows of the table, any line, or any text in its place.
* `att_event` is read after `attPrivateData` whether or not that succeeded; the values it
  then has are only printed or put into texts.
* 32 bit overflow of the invoke ID: the bound stops before it.
* The loss of the database connection inside one query (`MySQLInterface.cpp:163`).
* A route select that the library refuses is not repeated (T 2586); the call waits
  in the switch. `RequestsDecided` counts the select as an answer either way.
* `produce`, `consume` and `consume_clear` have no caller at this commit, and neither have the
  classes of `Tsapi.cpp`: they are modelled as what a caller may do with them.
* The counter of instances across processes; every process has a counter of its own.
* Vendored code. Of the 52000 lines of the repository some 45000 are headers of the Kafka,
  TSAPI and MySQL clients and the parts of jsoncpp the program does not call (values,
  writers, `OurReader`, paths). Declarations have no behaviour to model, and code that no
  path of the program reaches has no states. This is why the share of mapped lines stays
  low although nearly all of the program's own code with state is modelled. The switch, TSAPI,
  Kafka and MySQL are modelled as far as the code relies on them and marked external in
  the map.

---------------------------- MODULE CallTracking ----------------------------
(***************************************************************************)
(* The part of HandleCSTAUnsolicited that follows calls: m_activeCall and  *)
(* m_heldCall, which tell later requests (conference, consultation, single *)
(* step transfer and conference) which calls an extension has.             *)
(*                                                                         *)
(* The switch is the environment: it knows the state of every connection   *)
(* and reports each change of a monitored extension over the stream, in    *)
(* order, once per monitor that sees it.  The window handles one report at *)
(* a time, some time later.                                                *)
(*                                                                         *)
(* Each map is keyed by the extension in the connection ID.  A ConnectionID *)
(* is modelled by its call: operator[] makes an entry whose callID is 0.   *)
(***************************************************************************)
EXTENDS Naturals, Sequences

CONSTANTS
  Device,     \* the monitored extensions
  Call,       \* call IDs
  CharCode,   \* per extension, the extension whose number is the decimal
              \* code of the first character of its number, or NoDevice
  Routed,     \* the extensions with numbers in both maps of the routing object
  MaxReports  \* bound on the reports under way

NoCall   == "callID 0"
NoDevice == "no such extension"

ASSUME CharCodeAssumption == CharCode \in [Device -> Device \cup {NoDevice}]
ASSUME RoutedAssumption   == Routed \subseteq Device
ASSUME CallAssumption     == NoCall \notin Call /\ MaxReports \in Nat

States   == {"none", "alerting", "connected", "held"}
Events   == {"DELIVERED", "ESTABLISHED", "HELD", "RETRIEVED", "CONNECTION_CLEARED",
             "TRANSFERRED", "CONFERENCED", "SNAPSHOT"}
Entries  == [Device -> Call \cup {NoCall}]

VARIABLES
  conn,        \* the switch: the state of each extension in each call
  reports,     \* the reports under way, oldest first
  snapshots,   \* the extensions whose calls have been asked for
  activeCall, heldCall,  \* m_activeCall, m_heldCall
  asked,       \* what the last request named, if it used the maps
  ended,       \* the program has followed a null pointer
  has,         \* history: per extension, the calls it has been part of
  latest       \* history: per extension, what the switch reported last that
               \* the maps have to follow, and whether that call was cleared since

switch  == <<conn, snapshots, has, latest>>
tracked == <<activeCall, heldCall>>
vars    == <<switch, reports, tracked, asked, ended>>

Report == [event : Events, dev : Device, call : Call \cup {NoCall}]
Nothing == [event |-> "none", call |-> NoCall, cleared |-> FALSE]
NoRequest == [op |-> "none"]

TypeOK ==
  /\ conn \in [Device -> [Call -> States]]
  /\ reports \in Seq(Report) /\ Len(reports) <= MaxReports
  /\ snapshots \subseteq Device
  /\ activeCall \in Entries /\ heldCall \in Entries
  /\ asked \in {NoRequest} \cup
       [ op : {"conference", "consultation", "single step"}, dev : Device,
         held : Call \cup {NoCall}, active : Call \cup {NoCall} ]
  /\ ended \in BOOLEAN
  /\ has \in [Device -> SUBSET Call]
  /\ latest \in [Device -> [event : Events \cup {"none"}, call : Call \cup {NoCall},
                            cleared : BOOLEAN]]

Init ==
  /\ conn = [d \in Device |-> [c \in Call |-> "none"]]
  /\ reports = <<>> /\ snapshots = {}
  /\ activeCall = [d \in Device |-> NoCall] /\ heldCall = [d \in Device |-> NoCall]
  /\ asked = NoRequest /\ ended = FALSE
  /\ has = [d \in Device |-> {}]
  /\ latest = [d \in Device |-> Nothing]

-----------------------------------------------------------------------------
(* The switch. *)

Tracked == {"HELD", "RETRIEVED", "SNAPSHOT"}

\* One report, or two when the other party of the call is monitored as well.
Tell(event, d, c) ==
  LET r == [event |-> event, dev |-> d, call |-> c]
  IN
  /\ \E copies \in {<<r>>, <<r, r>>} :
       /\ Len(reports) + Len(copies) <= MaxReports
       /\ reports' = reports \o copies
  /\ has' = [has EXCEPT ![d] = IF c = NoCall THEN @ ELSE @ \cup {c}]
  /\ latest' = [latest EXCEPT ![d] =
                  IF event \in Tracked THEN [event |-> event, call |-> c, cleared |-> FALSE]
                  ELSE IF event = "CONNECTION_CLEARED" /\ c = @.call
                  THEN [@ EXCEPT !.cleared = TRUE] ELSE @]

\* An extension talks in at most one call at a time.
Talking(d) == \E c \in Call : conn[d][c] = "connected"

Move(d, c, from, to, event) ==
  /\ conn[d][c] \in from
  /\ conn' = [conn EXCEPT ![d][c] = to]
  /\ Tell(event, d, c)
  /\ asked' = NoRequest
  /\ UNCHANGED <<snapshots, tracked, ended>>

Ring(d, c)     == Move(d, c, {"none"}, "alerting", "DELIVERED")
Answer(d, c)   == ~Talking(d) /\ Move(d, c, {"none", "alerting"}, "connected", "ESTABLISHED")
Hold(d, c)     == Move(d, c, {"connected"}, "held", "HELD")
Retrieve(d, c) == ~Talking(d) /\ Move(d, c, {"held"}, "connected", "RETRIEVED")
Clear(d, c)    == Move(d, c, States \ {"none"}, "none", "CONNECTION_CLEARED")

\* The extension joins the two others and leaves, or stays with both.
Merge(d, c, other, after, event) ==
  /\ conn[d][c] = "connected" /\ conn[d][other] = "held"
  /\ conn' = [conn EXCEPT ![d] = [@ EXCEPT ![c] = after, ![other] = "none"]]
  /\ Tell(event, d, c)
  /\ asked' = NoRequest
  /\ UNCHANGED <<snapshots, tracked, ended>>

Transfer(d, c, other)   == Merge(d, c, other, "none", "TRANSFERRED")
Conference(d, c, other) == Merge(d, c, other, "connected", "CONFERENCED")

\* A snapshot lists the calls of the extension, in no particular order; the
\* confirmation comes over the same stream as the reports.
Snapshot(d) ==
  /\ d \in snapshots
  /\ snapshots' = snapshots \ {d}
  /\ \E c \in Call \cup {NoCall} :
       /\ IF c = NoCall THEN \A b \in Call : conn[d][b] = "none" ELSE conn[d][c] # "none"
       /\ Tell("SNAPSHOT", d, c)
  /\ asked' = NoRequest
  /\ UNCHANGED <<conn, tracked, ended>>

Switch ==
  \E d \in Device :
    \/ Snapshot(d)
    \/ \E c \in Call :
         \/ Ring(d, c) \/ Answer(d, c) \/ Hold(d, c) \/ Retrieve(d, c) \/ Clear(d, c)
         \/ \E other \in Call : Transfer(d, c, other) \/ Conference(d, c, other)

-----------------------------------------------------------------------------
(* HandleCSTAUnsolicited, and HandleCSTAConfirmation for a snapshot. *)

\* Mutant: the held call stays active.
HeldKeepsActive(r) ==
  heldCall' = [heldCall EXCEPT ![r.dev] = r.call] /\ UNCHANGED activeCall

Held(r) ==
  /\ activeCall' = [activeCall EXCEPT ![r.dev] = NoCall]
  /\ heldCall' = [heldCall EXCEPT ![r.dev] = r.call]

\* Mutant: the key of the test is used for the assignment as well.
RetrievedUnderCode(r) ==
  /\ activeCall' = [activeCall EXCEPT ![CharCode[r.dev]] = r.call]
  /\ UNCHANGED heldCall

\* The test looks at the entry of to_string(*retrieved_devID), which is the
\* decimal code of a character; only then the entry of the extension goes.
Retrieved(r) ==
  LET key == CharCode[r.dev]
      found == key # NoDevice /\ heldCall[key] # NoCall
  IN /\ heldCall' = IF found THEN [heldCall EXCEPT ![r.dev] = NoCall] ELSE heldCall
     /\ activeCall' = [activeCall EXCEPT ![r.dev] = r.call]

\* Mutant: the entry of the map is gone, and not read as callID 0.
SnapshotErases(r) ==
  /\ activeCall' = [d \in Device \ {r.dev} |-> activeCall[d]]
  /\ UNCHANGED heldCall

\* The first call of the list becomes the active one whatever its state.
Snapshotted(r) ==
  /\ activeCall' = [activeCall EXCEPT ![r.dev] = r.call]
  /\ UNCHANGED heldCall

\* An idle extension has no first call, and a cleared connection ends the route
\* of its extension: stoi("") throws when routing knows nothing of it.
Fatal(r) ==
  \/ r.event = "SNAPSHOT" /\ r.call = NoCall
  \/ r.event = "CONNECTION_CLEARED" /\ r.dev \notin Routed

HandleReport ==
  /\ ~ended /\ reports # <<>>
  /\ LET r == Head(reports)
     IN /\ ended' = Fatal(r)
        /\ \/ r.event = "HELD" /\ Held(r)
           \/ r.event = "RETRIEVED" /\ Retrieved(r)
           \/ r.event = "SNAPSHOT" /\ ~Fatal(r) /\ Snapshotted(r)
           \/ (r.event \notin Tracked \/ Fatal(r)) /\ UNCHANGED tracked
  /\ reports' = Tail(reports)
  /\ asked' = NoRequest
  /\ UNCHANGED switch

-----------------------------------------------------------------------------
(* The requests that take their calls from the maps. *)

Ask(op, d, held) ==
  /\ ~ended
  /\ asked' = [op |-> op, dev |-> d, held |-> held, active |-> activeCall[d]]
  /\ UNCHANGED <<switch, reports, tracked, ended>>

AgentConferenceCall(d)   == Ask("conference", d, heldCall[d])
AgentConsultationCall(d) == Ask("consultation", d, NoCall)
SingleStep(d)            == Ask("single step", d, NoCall)

SnapshotDevice(d) ==
  /\ ~ended /\ d \notin snapshots
  /\ snapshots' = snapshots \cup {d}
  /\ asked' = NoRequest
  /\ UNCHANGED <<conn, has, latest, reports, tracked, ended>>

Requests ==
  \E d \in Device : \/ AgentConferenceCall(d) \/ AgentConsultationCall(d)
                    \/ SingleStep(d) \/ SnapshotDevice(d)

Next == Switch \/ HandleReport \/ Requests
Spec == Init /\ [][Next]_vars

-----------------------------------------------------------------------------
(* Properties. *)

\* Whatever the interleaving of reports, snapshots and requests, the two maps
\* and the requests made from them (AgentConferenceCall, AgentConsultationCall,
\* SingleStep*) never name a call the extension has had no part in.
OwnCallsOnly ==
  /\ \A d \in Device : {activeCall[d], heldCall[d]} \subseteq has[d] \cup {NoCall}
  /\ asked # NoRequest => {asked.held, asked.active} \subseteq has[asked.dev] \cup {NoCall}

\* No report about extension d is under way.
Settled(d) == \A i \in DOMAIN reports : reports[i].dev # d

\* Once HandleCSTAUnsolicited has handled the reports about an extension the
\* maps say what the switch said last: a call it held is the held one and no
\* call is active; a call it retrieved, or listed first, is the active one.  If
\* it has cleared that call since, the entry is of that call or none: the comment
\* at TSAPIInterface.cpp:1014 to 1016 says none, but the case deletes nothing.
FollowsSwitch ==
  \A d \in Device :
    Settled(d) /\ ~ended =>
      LET last == latest[d]
          follows(entry) == entry = last.call \/ (last.cleared /\ entry = NoCall)
      IN /\ last.event = "HELD" => follows(heldCall[d]) /\ activeCall[d] = NoCall
         /\ last.event \in {"RETRIEVED", "SNAPSHOT"} => follows(activeCall[d])

\* TSAPIInterface.h:170 says of m_heldCall that it holds the connection ID the
\* device is holding, and TSAPIInterface.cpp:1095 deletes the element when the
\* call is retrieved.
HeldIsHeld ==
  \A d \in Device :
    Settled(d) /\ ~ended /\ heldCall[d] # NoCall => conn[d][heldCall[d]] # "connected"
=============================================================================

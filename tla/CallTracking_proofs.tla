------------------------ MODULE CallTracking_proofs -------------------------
(* Proofs about CallTracking, for every number of extensions, calls and       *)
(* reports under way: the types, that the maps and the requests made from      *)
(* them name no call of another extension, and that the maps follow the        *)
(* switch once the reports about an extension have been handled.              *)
EXTENDS CallTracking, SequenceTheorems, TLAPS

-----------------------------------------------------------------------------
(* The stream of reports.                                                    *)

\* The stream is a sequence of reports.
LEMMA StreamTyped ==
  ASSUME TypeOK
  PROVE  /\ reports \in Seq(Report) /\ Len(reports) \in Nat
         /\ DOMAIN reports = 1..Len(reports)
         /\ \A i \in 1..Len(reports) :
              reports[i].dev \in Device /\ reports[i].call \in Call \cup {NoCall}
<1>1. reports \in Seq(Report)
  BY DEF TypeOK
<1>2. Len(reports) \in Nat /\ DOMAIN reports = 1..Len(reports)
  BY <1>1
<1>3. \A i \in 1..Len(reports) : reports[i] \in Report
  BY <1>1
<1>. QED  BY <1>1, <1>2, <1>3 DEF Report

\* What Tell puts on the stream: the reports that were under way keep their
\* places and the new ones, all of them the same, come last.
LEMMA ToldReports ==
  ASSUME TypeOK, NEW event \in Events, NEW d \in Device, NEW c \in Call \cup {NoCall},
         Tell(event, d, c)
  PROVE  /\ reports' \in Seq(Report) /\ Len(reports') <= MaxReports
         /\ Len(reports) < Len(reports')
         /\ \A i \in 1..Len(reports) : reports'[i] = reports[i]
         /\ \A i \in (Len(reports) + 1)..Len(reports') :
              reports'[i] = [event |-> event, dev |-> d, call |-> c]
<1>. DEFINE r == [event |-> event, dev |-> d, call |-> c]
<1>1. r \in Report
  BY DEF Report
<1>2. PICK copies \in {<<r>>, <<r, r>>} :
        /\ Len(reports) + Len(copies) <= MaxReports
        /\ reports' = reports \o copies
  BY DEF Tell
<1>3. /\ copies \in Seq(Report) /\ Len(copies) \in {1, 2}
      /\ \A i \in 1..Len(copies) : copies[i] = r
  <2>. HIDE DEF r
  <2>1. CASE copies = <<r>>
    BY <1>1, <2>1
  <2>2. CASE copies = <<r, r>>
    BY <1>1, <2>2
  <2>. QED  BY <2>1, <2>2
<1>. HIDE DEF r
<1>4. /\ reports' \in Seq(Report) /\ Len(reports') = Len(reports) + Len(copies)
      /\ \A i \in 1..Len(reports) + Len(copies) :
           reports'[i] = IF i <= Len(reports) THEN reports[i] ELSE copies[i - Len(reports)]
  BY <1>2, <1>3, StreamTyped, ConcatProperties
<1>5. Len(reports) \in Nat
  BY StreamTyped
<1>6. ASSUME NEW i \in (Len(reports) + 1)..Len(reports')
      PROVE  reports'[i] = r
  <2>1. i - Len(reports) \in 1..Len(copies) /\ ~(i <= Len(reports)) /\ i \in 1..Len(reports) + Len(copies)
    BY <1>3, <1>4, <1>5
  <2>. QED  BY <1>3, <1>4, <2>1
<1>7. Len(reports') <= MaxReports /\ Len(reports) < Len(reports')
  <2>1. Len(reports') = Len(reports) + Len(copies)
    BY <1>4
  <2>2. Len(reports) + Len(copies) <= MaxReports
    BY <1>2
  <2>3. Len(copies) \in {1, 2}
    BY <1>3
  <2>. QED  BY <1>5, <2>1, <2>2, <2>3
<1>8. ASSUME NEW i \in 1..Len(reports)  PROVE reports'[i] = reports[i]
  <2>1. i \in 1..Len(reports) + Len(copies) /\ i <= Len(reports)
    BY <1>3, <1>5
  <2>. QED  BY <1>4, <2>1
<1>. QED  BY <1>4, <1>6, <1>7, <1>8 DEF r

\* HandleReport takes the oldest report off the stream; the others move up.
LEMMA TakenReport ==
  ASSUME TypeOK, HandleReport
  PROVE  /\ reports[1] = Head(reports) /\ Head(reports) \in Report
         /\ 1 \in DOMAIN reports
         /\ reports' \in Seq(Report) /\ Len(reports') = Len(reports) - 1
         /\ \A i \in DOMAIN reports' : i + 1 \in DOMAIN reports /\ reports'[i] = reports[i + 1]
         /\ \A i \in DOMAIN reports \ {1} : i - 1 \in DOMAIN reports'
<1>1. reports \in Seq(Report) /\ reports # <<>> /\ reports' = Tail(reports)
  BY StreamTyped DEF HandleReport
<1>2. /\ Len(reports) \in Nat \ {0} /\ DOMAIN reports = 1..Len(reports)
      /\ \A i \in 1..Len(reports) : reports[i] \in Report
  BY <1>1
<1>3. /\ reports' \in Seq(Report) /\ Len(reports') = Len(reports) - 1
      /\ \A i \in 1..Len(reports') : reports'[i] = reports[i + 1]
      /\ DOMAIN reports' = 1..Len(reports')
  BY <1>1
<1>4. reports[1] = Head(reports)
  BY <1>1
<1>. QED  BY <1>2, <1>3, <1>4

-----------------------------------------------------------------------------
(* Types.                                                                    *)

\* Every step of the switch is a report, or two of the same, of one kind about
\* one extension and one call, with no effect on the maps.
LEMMA SwitchTells ==
  ASSUME Switch
  PROVE  /\ \E event \in Events, d \in Device, c \in Call \cup {NoCall} : Tell(event, d, c)
         /\ UNCHANGED <<tracked, ended>> /\ asked' = NoRequest
<1>. USE DEF Events
<1>1. ASSUME NEW d \in Device, Snapshot(d)
      PROVE  /\ \E c \in Call \cup {NoCall} : Tell("SNAPSHOT", d, c)
             /\ UNCHANGED <<tracked, ended>> /\ asked' = NoRequest
  BY <1>1 DEF Snapshot
<1>2. ASSUME NEW d \in Device, NEW c \in Call,
             Ring(d, c) \/ Answer(d, c) \/ Hold(d, c) \/ Retrieve(d, c) \/ Clear(d, c)
      PROVE  /\ \E event \in Events : Tell(event, d, c)
             /\ UNCHANGED <<tracked, ended>> /\ asked' = NoRequest
  BY <1>2 DEF Ring, Answer, Hold, Retrieve, Clear, Move
<1>3. ASSUME NEW d \in Device, NEW c \in Call, NEW other \in Call,
             Transfer(d, c, other) \/ Conference(d, c, other)
      PROVE  /\ \E event \in Events : Tell(event, d, c)
             /\ UNCHANGED <<tracked, ended>> /\ asked' = NoRequest
  BY <1>3 DEF Transfer, Conference, Merge
<1>. QED  BY <1>1, <1>2, <1>3 DEF Switch

\* A step of the switch moves connections between their four states.
LEMMA SwitchConn ==
  ASSUME TypeOK, Switch
  PROVE  conn' \in [Device -> [Call -> States]] /\ snapshots' \subseteq Device
<1>. USE DEF TypeOK, States
<1>1. ASSUME NEW d \in Device, Snapshot(d)
      PROVE  conn' = conn /\ snapshots' \subseteq snapshots
  BY <1>1 DEF Snapshot
<1>2. ASSUME NEW d \in Device, NEW c \in Call,
             Ring(d, c) \/ Answer(d, c) \/ Hold(d, c) \/ Retrieve(d, c) \/ Clear(d, c)
      PROVE  conn' \in [Device -> [Call -> States]] /\ snapshots' = snapshots
  <2>1. snapshots' = snapshots /\ \E s \in States : conn' = [conn EXCEPT ![d][c] = s]
    BY <1>2 DEF Ring, Answer, Hold, Retrieve, Clear, Move
  <2>2. PICK s \in States : conn' = [conn EXCEPT ![d][c] = s]
    BY <2>1
  <2>. QED  BY <2>1, <2>2
<1>3. ASSUME NEW d \in Device, NEW c \in Call, NEW other \in Call,
             Transfer(d, c, other) \/ Conference(d, c, other)
      PROVE  conn' \in [Device -> [Call -> States]] /\ snapshots' = snapshots
  <2>1. /\ snapshots' = snapshots
        /\ \E s \in States :
             conn' = [conn EXCEPT ![d] = [@ EXCEPT ![c] = s, ![other] = "none"]]
    BY <1>3 DEF Transfer, Conference, Merge
  <2>2. PICK s \in States :
             conn' = [conn EXCEPT ![d] = [@ EXCEPT ![c] = s, ![other] = "none"]]
    BY <2>1
  <2>3. [conn[d] EXCEPT ![c] = s, ![other] = "none"] \in [Call -> States]
    OBVIOUS
  <2>. QED  BY <2>1, <2>2, <2>3
<1>. QED  BY <1>1, <1>2, <1>3 DEF Switch

\* What the switch may have said last of an extension.
Said == [event : Events \cup {"none"}, call : Call \cup {NoCall}, cleared : BOOLEAN]

\* Tell keeps the types of the histories and of the stream.
LEMMA TellTypes ==
  ASSUME TypeOK, NEW event \in Events, NEW d \in Device, NEW c \in Call \cup {NoCall},
         Tell(event, d, c)
  PROVE  /\ reports' \in Seq(Report) /\ Len(reports') <= MaxReports
         /\ has' \in [Device -> SUBSET Call]
         /\ latest' \in [Device -> Said]
<1>1. has' = [has EXCEPT ![d] = IF c = NoCall THEN @ ELSE @ \cup {c}]
  BY DEF Tell
<1>2. latest \in [Device -> Said]
  BY DEF TypeOK, Said
<1>3. has' \in [Device -> SUBSET Call]
  BY <1>1 DEF TypeOK
<1>4. latest' \in [Device -> Said]
  <2>1. latest[d] \in Said /\ [latest[d] EXCEPT !.cleared = TRUE] \in Said
    BY <1>2 DEF Said
  <2>2. [event |-> event, call |-> c, cleared |-> FALSE] \in Said
    BY DEF Said
  <2>3. PICK s : s \in Said /\ latest' = [latest EXCEPT ![d] = s]
    BY <2>1, <2>2 DEF Tell
  <2>. HIDE DEF Said
  <2>. QED  BY <1>2, <2>3
<1>. QED  BY <1>3, <1>4, ToldReports

\* What handling a report leaves in the maps.
LEMMA HandledMaps ==
  ASSUME TypeOK, HandleReport
  PROVE  LET r == Head(reports)
         IN /\ activeCall' \in [Device -> Call \cup {NoCall}]
            /\ heldCall' \in [Device -> Call \cup {NoCall}]
            /\ \A d \in Device \ {r.dev} :
                 activeCall'[d] = activeCall[d] /\ heldCall'[d] = heldCall[d]
            /\ activeCall'[r.dev] \in {activeCall[r.dev], NoCall, r.call}
            /\ heldCall'[r.dev] \in {heldCall[r.dev], NoCall, r.call}
            /\ r.event \notin Tracked => UNCHANGED tracked
            /\ r.event = "HELD" => heldCall'[r.dev] = r.call /\ activeCall'[r.dev] = NoCall
            /\ r.event = "RETRIEVED" => activeCall'[r.dev] = r.call
            /\ r.event = "SNAPSHOT" /\ ~Fatal(r) => activeCall'[r.dev] = r.call
<1>. DEFINE r == Head(reports)
<1>1. r \in Report /\ r.dev \in Device /\ r.call \in Call \cup {NoCall}
  BY TakenReport DEF Report
<1>2. \/ r.event = "HELD" /\ Held(r)
      \/ r.event = "RETRIEVED" /\ Retrieved(r)
      \/ r.event = "SNAPSHOT" /\ ~Fatal(r) /\ Snapshotted(r)
      \/ (r.event \notin Tracked \/ Fatal(r)) /\ UNCHANGED tracked
  BY DEF HandleReport
<1>3. activeCall \in [Device -> Call \cup {NoCall}] /\ heldCall \in [Device -> Call \cup {NoCall}]
  BY DEF TypeOK, Entries
<1>. HIDE DEF r
<1>4. CASE r.event = "HELD" /\ Held(r)
  BY <1>1, <1>3, <1>4 DEF Held, Tracked, r
<1>5. CASE r.event = "RETRIEVED" /\ Retrieved(r)
  <2>1. /\ activeCall' = [activeCall EXCEPT ![r.dev] = r.call]
        /\ heldCall' \in {heldCall, [heldCall EXCEPT ![r.dev] = NoCall]}
    BY <1>5 DEF Retrieved
  <2>. QED  BY <1>1, <1>3, <1>5, <2>1 DEF Tracked, r
<1>6. CASE r.event = "SNAPSHOT" /\ ~Fatal(r) /\ Snapshotted(r)
  BY <1>1, <1>3, <1>6 DEF Snapshotted, Tracked, r
<1>7. CASE (r.event \notin Tracked \/ Fatal(r)) /\ UNCHANGED tracked
  <2>1. r.event \in {"HELD", "RETRIEVED"} => r.event \in Tracked /\ ~Fatal(r)
    BY DEF Fatal, Tracked
  <2>. QED  BY <1>3, <1>7, <2>1 DEF tracked, r, Tracked
<1>. QED  BY <1>2, <1>4, <1>5, <1>6, <1>7

\* The types hold at first.
LEMMA InitTypeOK == Init => TypeOK
<1>. SUFFICES ASSUME Init  PROVE TypeOK
  OBVIOUS
<1>1. reports \in Seq(Report) /\ Len(reports) <= MaxReports
  BY CallAssumption DEF Init
<1>. QED  BY <1>1 DEF Init, TypeOK, States, Entries, Nothing

\* A request changes nothing that the switch or the window keeps; it names what
\* the maps say of its own extension, or no call.
LEMMA AskedFrom ==
  ASSUME Requests
  PROVE  /\ UNCHANGED <<conn, has, latest, reports, tracked, ended>>
         /\ \/ /\ asked' = NoRequest
               /\ \E d \in Device : snapshots' = snapshots \cup {d}
            \/ /\ UNCHANGED snapshots
               /\ \E op \in {"conference", "consultation", "single step"}, d \in Device :
                    \E held \in {NoCall, heldCall[d]} :
                      asked' = [op |-> op, dev |-> d, held |-> held, active |-> activeCall[d]]
<1>1. ASSUME NEW d \in Device, SnapshotDevice(d)
      PROVE  /\ UNCHANGED <<conn, has, latest, reports, tracked, ended>>
             /\ asked' = NoRequest /\ snapshots' = snapshots \cup {d}
  BY <1>1 DEF SnapshotDevice
<1>2. ASSUME NEW d \in Device, AgentConferenceCall(d) \/ AgentConsultationCall(d) \/ SingleStep(d)
      PROVE  /\ UNCHANGED <<conn, has, latest, reports, tracked, ended, snapshots>>
             /\ \E op \in {"conference", "consultation", "single step"} :
                  \E held \in {NoCall, heldCall[d]} :
                      asked' = [op |-> op, dev |-> d, held |-> held, active |-> activeCall[d]]
  BY <1>2 DEF AgentConferenceCall, AgentConsultationCall, SingleStep, Ask, switch
<1>. QED  BY <1>1, <1>2 DEF Requests

\* Every step keeps the types.
LEMMA NextTypeOK == TypeOK /\ [Next]_vars => TypeOK'
<1>. SUFFICES ASSUME TypeOK, [Next]_vars  PROVE TypeOK'
  OBVIOUS
<1>1. CASE Switch
  <2>1. PICK event \in Events, d \in Device, c \in Call \cup {NoCall} : Tell(event, d, c)
    BY <1>1, SwitchTells
  <2>. QED  BY <1>1, <2>1, SwitchTells, SwitchConn, TellTypes DEF TypeOK, Said, tracked
<1>2. CASE HandleReport
  <2>1. /\ reports' \in Seq(Report) /\ Len(reports') <= MaxReports
        /\ activeCall' \in Entries /\ heldCall' \in Entries
    <3>1. Len(reports) \in Nat /\ Len(reports') = Len(reports) - 1 /\ reports' \in Seq(Report)
      BY <1>2, TakenReport, StreamTyped
    <3>2. Len(reports') <= MaxReports
      <4>1. Len(reports) <= MaxReports /\ MaxReports \in Nat
        BY CallAssumption DEF TypeOK
      <4>. QED  BY <3>1, <4>1
    <3>. QED  BY <1>2, <3>1, <3>2, HandledMaps DEF Entries
  <2>2. ended' \in BOOLEAN /\ asked' = NoRequest /\ UNCHANGED switch
    BY <1>2 DEF HandleReport, Fatal
  <2>. QED  BY <2>1, <2>2 DEF TypeOK, switch
<1>3. CASE Requests
  <2>1. asked' \in {NoRequest} \cup
          [ op : {"conference", "consultation", "single step"}, dev : Device,
            held : Call \cup {NoCall}, active : Call \cup {NoCall} ]
    <3>1. activeCall \in [Device -> Call \cup {NoCall}] /\ heldCall \in [Device -> Call \cup {NoCall}]
      BY DEF TypeOK, Entries
    <3>2. CASE asked' = NoRequest
      BY <3>2
    <3>3. ASSUME NEW op \in {"conference", "consultation", "single step"}, NEW d \in Device,
                 NEW held \in {NoCall, heldCall[d]},
                 asked' = [op |-> op, dev |-> d, held |-> held, active |-> activeCall[d]]
          PROVE  asked' \in [ op : {"conference", "consultation", "single step"}, dev : Device,
                              held : Call \cup {NoCall}, active : Call \cup {NoCall} ]
      <4>1. held \in Call \cup {NoCall} /\ activeCall[d] \in Call \cup {NoCall}
        BY <3>1
      <4>. QED  BY <3>3, <4>1
    <3>. QED  BY <1>3, <3>2, <3>3, AskedFrom
  <2>. QED  BY <1>3, <2>1, AskedFrom DEF TypeOK, tracked
<1>4. CASE UNCHANGED vars
  BY <1>4 DEF vars, switch, tracked, TypeOK
<1>. QED  BY <1>1, <1>2, <1>3, <1>4 DEF Next

\* HandleCSTAUnsolicited and the requests keep every variable in its type: the
\* two maps have an entry for every monitored extension and no other, although
\* the entries are written through operator[].
THEOREM TypeCorrect == Spec => []TypeOK
<1>. QED  BY InitTypeOK, NextTypeOK, PTL DEF Spec

-----------------------------------------------------------------------------
(* Own calls.                                                                *)

\* The reports under way are about calls their extensions have had a part in.
ReportsOwn ==
  \A i \in DOMAIN reports : reports[i].call \in has[reports[i].dev] \cup {NoCall}

OwnInv == TypeOK /\ ReportsOwn /\ OwnCallsOnly

\* The switch only adds to the calls an extension has been part of, and the
\* call of a new report is one of them.
LEMMA SwitchOwn == OwnInv /\ Switch => (ReportsOwn /\ OwnCallsOnly)'
<1>. SUFFICES ASSUME OwnInv, Switch  PROVE ReportsOwn' /\ OwnCallsOnly'
  OBVIOUS
<1>. USE DEF OwnInv
<1>1. PICK event \in Events, d \in Device, c \in Call \cup {NoCall} : Tell(event, d, c)
  BY SwitchTells
<1>2. has' = [has EXCEPT ![d] = IF c = NoCall THEN @ ELSE @ \cup {c}]
  BY <1>1 DEF Tell
<1>3. /\ \A e \in Device : has[e] \subseteq has'[e]
      /\ c \in has'[d] \cup {NoCall}
  BY <1>2 DEF TypeOK
<1>4. ReportsOwn'
  <2>. SUFFICES ASSUME NEW i \in DOMAIN reports'
                PROVE  reports'[i].call \in has'[reports'[i].dev] \cup {NoCall}
    BY DEF ReportsOwn
  <2>1. i \in 1..Len(reports') /\ Len(reports) \in Nat /\ Len(reports') \in Nat
    <3>1. reports' \in Seq(Report)
      BY <1>1, ToldReports
    <3>. QED  BY <3>1, StreamTyped
  <2>2. CASE i \in 1..Len(reports)
    <3>1. reports'[i] = reports[i] /\ reports[i].dev \in Device /\ i \in DOMAIN reports
      BY <1>1, <2>2, ToldReports, StreamTyped
    <3>. QED  BY <1>3, <3>1 DEF ReportsOwn
  <2>3. CASE i \in (Len(reports) + 1)..Len(reports')
    <3>1. \A k \in (Len(reports) + 1)..Len(reports') :
            reports'[k] = [event |-> event, dev |-> d, call |-> c]
      BY <1>1, ToldReports
    <3>2. reports'[i].dev = d /\ reports'[i].call = c
      BY <2>3, <3>1
    <3>. QED  BY <1>3, <3>2
  <2>. QED  BY <2>1, <2>2, <2>3
<1>5. OwnCallsOnly'
  BY <1>3, SwitchTells DEF OwnCallsOnly, tracked
<1>. QED  BY <1>4, <1>5

\* A handled report puts its own call, or none, into the entries of its extension.
LEMMA HandleOwn == OwnInv /\ HandleReport => (ReportsOwn /\ OwnCallsOnly)'
<1>. SUFFICES ASSUME OwnInv, HandleReport  PROVE ReportsOwn' /\ OwnCallsOnly'
  OBVIOUS
<1>. USE DEF OwnInv
<1>. DEFINE r == Head(reports)
<1>1. has' = has /\ asked' = NoRequest
  BY DEF HandleReport, switch
<1>2. r.dev \in Device /\ r.call \in has[r.dev] \cup {NoCall}
  BY TakenReport DEF ReportsOwn, Report
<1>3. ReportsOwn'
  BY <1>1, TakenReport DEF ReportsOwn
<1>4. ASSUME NEW d \in Device
      PROVE  {activeCall'[d], heldCall'[d]} \subseteq has'[d] \cup {NoCall}
  <2>1. {activeCall[d], heldCall[d]} \subseteq has[d] \cup {NoCall}
    BY DEF OwnCallsOnly
  <2>2. CASE d = r.dev
    <3>1. /\ activeCall'[d] \in {activeCall[d], NoCall, r.call}
          /\ heldCall'[d] \in {heldCall[d], NoCall, r.call}
      BY <2>2, HandledMaps
    <3>. QED  BY <1>1, <1>2, <2>1, <2>2, <3>1
  <2>3. CASE d # r.dev
    <3>1. activeCall'[d] = activeCall[d] /\ heldCall'[d] = heldCall[d]
      BY <2>3, HandledMaps
    <3>. QED  BY <1>1, <2>1, <3>1
  <2>. QED  BY <2>2, <2>3
<1>. QED  BY <1>1, <1>3, <1>4 DEF OwnCallsOnly

\* Every step keeps the invariant.
LEMMA NextOwn == OwnInv /\ [Next]_vars => OwnInv'
<1>. SUFFICES ASSUME OwnInv, [Next]_vars  PROVE OwnInv'
  OBVIOUS
<1>1. TypeOK'
  BY NextTypeOK DEF OwnInv
<1>2. CASE Requests
  <2>1. ReportsOwn'
    BY <1>2, AskedFrom DEF OwnInv, ReportsOwn
  <2>2. has' = has /\ UNCHANGED tracked
    BY <1>2, AskedFrom
  <2>3. asked' # NoRequest => {asked'.held, asked'.active} \subseteq has'[asked'.dev] \cup {NoCall}
    <3>1. CASE asked' = NoRequest
      BY <3>1
    <3>2. ASSUME NEW op, NEW d \in Device, NEW held \in {NoCall, heldCall[d]},
                 asked' = [op |-> op, dev |-> d, held |-> held, active |-> activeCall[d]]
          PROVE  {asked'.held, asked'.active} \subseteq has'[asked'.dev] \cup {NoCall}
      <4>1. {activeCall[d], heldCall[d]} \subseteq has[d] \cup {NoCall}
        BY DEF OwnInv, OwnCallsOnly
      <4>2. asked'.held = held /\ asked'.active = activeCall[d] /\ asked'.dev = d
        BY <3>2
      <4>. QED  BY <2>2, <3>2, <4>1, <4>2
    <3>. QED  BY <1>2, <3>1, <3>2, AskedFrom
  <2>4. OwnCallsOnly'
    BY <2>2, <2>3 DEF OwnInv, OwnCallsOnly, tracked
  <2>. QED  BY <1>1, <2>1, <2>4 DEF OwnInv
<1>3. CASE UNCHANGED vars
  BY <1>1, <1>3 DEF OwnInv, ReportsOwn, OwnCallsOnly, vars, switch, tracked
<1>. QED  BY <1>1, <1>2, <1>3, SwitchOwn, HandleOwn DEF OwnInv, Next

\* m_activeCall and m_heldCall, and so AgentConferenceCall, AgentConsultationCall
\* and SingleStep*, never name a call the extension has had no part in.
THEOREM OwnCalls == Spec => []OwnCallsOnly
<1>1. Init => OwnInv
  BY InitTypeOK DEF Init, OwnInv, ReportsOwn, OwnCallsOnly
<1>2. OwnInv => OwnCallsOnly
  BY DEF OwnInv
<1>. QED  BY <1>1, <1>2, NextOwn, PTL DEF Spec

-----------------------------------------------------------------------------
(* Following the switch.                                                     *)

\* The reports about extension d under way that the maps have to follow.
Waiting(d) == { i \in DOMAIN reports : reports[i].dev = d /\ reports[i].event \in Tracked }

\* The last of them is what the switch said last.
LastIsLatest ==
  \A d \in Device : \A i \in Waiting(d) :
    (\A j \in Waiting(d) : j <= i) =>
      reports[i].event = latest[d].event /\ reports[i].call = latest[d].call

\* What the maps say of extension d is what the switch said last, even of a call that
\* was cleared since.
Agrees(d) ==
  /\ latest[d].event = "HELD" => heldCall[d] = latest[d].call /\ activeCall[d] = NoCall
  /\ latest[d].event \in {"RETRIEVED", "SNAPSHOT"} => activeCall[d] = latest[d].call

CaughtUp == \A d \in Device : Waiting(d) = {} /\ ~ended => Agrees(d)

FollowInv == TypeOK /\ LastIsLatest /\ CaughtUp

\* A new report of a kind the maps follow is the last one about its extension;
\* any other report leaves the ones to be followed as they are.
LEMMA SwitchFollow == FollowInv /\ Switch => (LastIsLatest /\ CaughtUp)'
<1>. SUFFICES ASSUME FollowInv, Switch  PROVE LastIsLatest' /\ CaughtUp'
  OBVIOUS
<1>. USE DEF FollowInv
<1>1. PICK event \in Events, e \in Device, c \in Call \cup {NoCall} : Tell(event, e, c)
  BY SwitchTells
<1>2. UNCHANGED <<activeCall, heldCall, ended>>
  BY SwitchTells DEF tracked
<1>3. /\ Len(reports) \in Nat /\ DOMAIN reports = 1..Len(reports)
      /\ Len(reports') \in Nat /\ DOMAIN reports' = 1..Len(reports')
      /\ Len(reports) < Len(reports')
      /\ \A i \in 1..Len(reports) : reports'[i] = reports[i]
      /\ \A i \in (Len(reports) + 1)..Len(reports') :
              reports'[i] = [event |-> event, dev |-> e, call |-> c]
  <2>1. reports' \in Seq(Report)
    BY <1>1, ToldReports
  <2>2. Len(reports') \in Nat /\ DOMAIN reports' = 1..Len(reports')
    BY <2>1
  <2>. QED  BY <1>1, <2>2, ToldReports, StreamTyped
<1>4. /\ \A d \in Device \ {e} : latest'[d] = latest[d]
      /\ event \in Tracked => latest'[e].event = event /\ latest'[e].call = c
      /\ event \notin Tracked =>
           latest'[e].event = latest[e].event /\ latest'[e].call = latest[e].call
  BY <1>1 DEF Tell, TypeOK
<1>5. ASSUME NEW d \in Device, ~(d = e /\ event \in Tracked)
      PROVE  /\ Waiting(d)' = Waiting(d)
             /\ latest'[d].event = latest[d].event /\ latest'[d].call = latest[d].call
  <2>1. latest'[d].event = latest[d].event /\ latest'[d].call = latest[d].call
    BY <1>4, <1>5
  <2>2. ASSUME NEW i \in 1..Len(reports')
        PROVE  reports'[i].dev = d /\ reports'[i].event \in Tracked =>
                 i \in 1..Len(reports)
    BY <1>3, <1>5
  <2>3. Waiting(d)' = { i \in 1..Len(reports) : reports[i].dev = d /\ reports[i].event \in Tracked }
    BY <1>3, <2>2 DEF Waiting
  <2>. QED  BY <1>3, <2>1, <2>3 DEF Waiting
<1>6. ASSUME event \in Tracked
      PROVE  /\ Len(reports') \in Waiting(e)'
             /\ reports'[Len(reports')] = [event |-> event, dev |-> e, call |-> c]
             /\ latest'[e].event = event /\ latest'[e].call = c
  <2>1. Len(reports') \in (Len(reports) + 1)..Len(reports') /\ Len(reports') \in 1..Len(reports')
    BY <1>3
  <2>2. reports'[Len(reports')] = [event |-> event, dev |-> e, call |-> c]
    BY <1>3, <2>1
  <2>3. latest'[e].event = event /\ latest'[e].call = c
    BY <1>4, <1>6
  <2>. QED  BY <1>3, <1>6, <2>1, <2>2, <2>3 DEF Waiting
<1>7. ASSUME NEW d \in Device, NEW i \in Waiting(d)', \A j \in Waiting(d)' : j <= i
      PROVE  reports'[i].event = latest'[d].event /\ reports'[i].call = latest'[d].call
  <2>1. CASE d = e /\ event \in Tracked
    <3>1. i = Len(reports')
      <4>1. i \in 1..Len(reports') /\ Len(reports') \in Nat
        BY <1>3 DEF Waiting
      <4>2. Len(reports') <= i
        BY <1>6, <1>7, <2>1
      <4>. QED  BY <4>1, <4>2
    <3>. QED  BY <1>6, <2>1, <3>1
  <2>2. CASE ~(d = e /\ event \in Tracked)
    <3>1. i \in Waiting(d) /\ \A j \in Waiting(d) : j <= i
      BY <1>5, <1>7, <2>2
    <3>2. reports'[i] = reports[i]
      BY <1>3, <3>1 DEF Waiting
    <3>. QED  BY <1>5, <2>2, <3>1, <3>2 DEF LastIsLatest
  <2>. QED  BY <2>1, <2>2
<1>8. ASSUME NEW d \in Device, Waiting(d)' = {}, ~ended'  PROVE Agrees(d)'
  <2>1. ~(d = e /\ event \in Tracked)
    BY <1>6, <1>8
  <2>2. /\ Waiting(d) = {}
        /\ latest'[d].event = latest[d].event /\ latest'[d].call = latest[d].call
    BY <1>5, <1>8, <2>1
  <2>. QED  BY <1>2, <1>8, <2>2 DEF CaughtUp, Agrees
<1>. QED  BY <1>7, <1>8 DEF LastIsLatest, CaughtUp

\* A handled report that was the last one to be followed brings the maps to what
\* the switch said last; any other leaves one under way, or changes nothing.
LEMMA HandleFollow == FollowInv /\ HandleReport => (LastIsLatest /\ CaughtUp)'
<1>. SUFFICES ASSUME FollowInv, HandleReport  PROVE LastIsLatest' /\ CaughtUp'
  OBVIOUS
<1>. USE DEF FollowInv
<1>. DEFINE r == Head(reports)
<1>1. latest' = latest /\ ~ended /\ ended' = Fatal(r)
  BY DEF HandleReport, switch
<1>2. /\ r = reports[1] /\ r \in Report /\ 1 \in DOMAIN reports
      /\ DOMAIN reports = 1..Len(reports) /\ Len(reports) \in Nat
      /\ \A i \in DOMAIN reports' : i + 1 \in DOMAIN reports /\ reports'[i] = reports[i + 1]
      /\ \A i \in DOMAIN reports \ {1} : i - 1 \in DOMAIN reports'
      /\ DOMAIN reports' = 1..Len(reports')
  <2>1. reports' \in Seq(Report)
    BY TakenReport
  <2>2. DOMAIN reports' = 1..Len(reports')
    BY <2>1
  <2>. QED  BY <2>2, TakenReport, StreamTyped
<1>. HIDE DEF r
<1>3. ASSUME NEW d \in Device
      PROVE  /\ \A i \in Waiting(d)' : i + 1 \in Waiting(d)
             /\ \A i \in Waiting(d) \ {1} : i - 1 \in Waiting(d)'
             /\ Waiting(d)' \subseteq Nat /\ Waiting(d) \subseteq Nat
  <2>1. \A i \in Waiting(d)' : i + 1 \in Waiting(d)
    BY <1>2 DEF Waiting
  <2>2. ASSUME NEW i \in Waiting(d) \ {1}  PROVE i - 1 \in Waiting(d)'
    <3>1. i \in DOMAIN reports \ {1} /\ i \in Nat /\ i - 1 \in DOMAIN reports'
      BY <1>2 DEF Waiting
    <3>2. reports'[i - 1] = reports[(i - 1) + 1] /\ (i - 1) + 1 = i
      BY <1>2, <3>1
    <3>. QED  BY <2>2, <3>1, <3>2 DEF Waiting
  <2>. QED  BY <1>2, <2>1, <2>2 DEF Waiting
<1>4. ASSUME NEW d \in Device, NEW i \in Waiting(d)', \A j \in Waiting(d)' : j <= i
      PROVE  reports'[i].event = latest'[d].event /\ reports'[i].call = latest'[d].call
  <2>1. i + 1 \in Waiting(d) /\ i \in Nat /\ i >= 1
    BY <1>2, <1>3 DEF Waiting
  <2>2. ASSUME NEW j \in Waiting(d)  PROVE j <= i + 1
    <3>1. j \in Nat /\ (j # 1 => j - 1 <= i)
      BY <1>3, <1>4
    <3>. QED  BY <2>1, <3>1
  <2>3. reports[i + 1].event = latest[d].event /\ reports[i + 1].call = latest[d].call
    BY <2>1, <2>2 DEF LastIsLatest
  <2>4. reports'[i] = reports[i + 1]
    BY <1>2 DEF Waiting
  <2>. QED  BY <1>1, <2>3, <2>4
<1>5. ASSUME NEW d \in Device, Waiting(d)' = {}, ~ended'  PROVE Agrees(d)'
  <2>1. Waiting(d) \subseteq {1}
    BY <1>3, <1>5
  <2>2. CASE 1 \in Waiting(d)
    <3>1. r.dev = d /\ r.event \in Tracked /\ r.event = latest[d].event /\ r.call = latest[d].call
      BY <1>2, <2>1, <2>2 DEF Waiting, LastIsLatest
    <3>2. ~Fatal(r)
      BY <1>1, <1>5
    <3>3. /\ r.event = "HELD" => heldCall'[d] = r.call /\ activeCall'[d] = NoCall
          /\ r.event = "RETRIEVED" => activeCall'[d] = r.call
          /\ r.event = "SNAPSHOT" => activeCall'[d] = r.call
      BY <3>1, <3>2, HandledMaps DEF r
    <3>. QED  BY <1>1, <3>1, <3>3 DEF Agrees
  <2>3. CASE 1 \notin Waiting(d)
    <3>1. Waiting(d) = {} /\ Agrees(d)
      BY <1>1, <2>1, <2>3 DEF CaughtUp
    <3>2. r.dev # d \/ r.event \notin Tracked
      BY <1>2, <2>3 DEF Waiting
    <3>3. activeCall'[d] = activeCall[d] /\ heldCall'[d] = heldCall[d]
      BY <3>2, HandledMaps DEF r, tracked
    <3>. QED  BY <1>1, <3>1, <3>3 DEF Agrees
  <2>. QED  BY <2>2, <2>3
<1>. QED  BY <1>4, <1>5 DEF LastIsLatest, CaughtUp

\* Every step keeps the invariant.
LEMMA NextFollow == FollowInv /\ [Next]_vars => FollowInv'
<1>. SUFFICES ASSUME FollowInv, [Next]_vars  PROVE FollowInv'
  OBVIOUS
<1>1. TypeOK'
  BY NextTypeOK DEF FollowInv
<1>2. ASSUME UNCHANGED <<reports, latest, activeCall, heldCall, ended>>
      PROVE  LastIsLatest' /\ CaughtUp'
  BY <1>2 DEF FollowInv, LastIsLatest, CaughtUp, Waiting, Agrees
<1>3. CASE Requests
  BY <1>1, <1>2, <1>3, AskedFrom DEF FollowInv, tracked
<1>4. CASE UNCHANGED vars
  BY <1>1, <1>2, <1>4 DEF FollowInv, vars, switch, tracked
<1>. QED  BY <1>1, <1>3, <1>4, SwitchFollow, HandleFollow DEF FollowInv, Next

\* HandleCSTAUnsolicited catches up with the switch: once no report about an
\* extension is under way the maps say what the switch said of it last, but for a
\* call cleared since, however many reports were under way and however those of
\* several extensions mixed.
THEOREM Follows == Spec => []FollowsSwitch
<1>1. Init => FollowInv
  <2>. SUFFICES ASSUME Init  PROVE FollowInv
    OBVIOUS
  <2>1. \A d \in Device : Agrees(d)
    BY DEF Init, Agrees, Nothing
  <2>2. DOMAIN reports = {}
    BY DEF Init
  <2>. QED  BY <2>1, <2>2, InitTypeOK DEF FollowInv, LastIsLatest, CaughtUp, Waiting
<1>2. FollowInv => FollowsSwitch
  <2>1. ASSUME FollowInv, NEW d \in Device, Settled(d), ~ended  PROVE Agrees(d)
    <3>1. Waiting(d) = {}
      BY <2>1 DEF Settled, Waiting
    <3>. QED  BY <2>1, <3>1 DEF FollowInv, CaughtUp
  <2>. QED  BY <2>1 DEF FollowsSwitch, Agrees
<1>. QED  BY <1>1, <1>2, NextFollow, PTL DEF Spec
=============================================================================

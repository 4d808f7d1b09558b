---------------------- MODULE MessageDispatcher_proofs ----------------------
(* Proofs about JsonReader and MessageDispatcher, for texts of every length,  *)
(* every depth of nesting and every set of strings: a button makes the        *)
(* request it is there for, and what is called is what the text says.         *)
EXTENDS MessageDispatcher, SequenceTheorems, FiniteSetTheorems, TLAPS

-----------------------------------------------------------------------------
(* The text of a button.                                                     *)

\* What a concatenation is, element by element.
LEMMA ConcatIs ==
  ASSUME NEW S, NEW s \in Seq(S), NEW t \in Seq(S), NEW u \in Seq(S),
         Len(u) = Len(s) + Len(t),
         \A i \in 1 .. Len(s) : u[i] = s[i],
         \A i \in 1 .. Len(t) : u[Len(s) + i] = t[i]
  PROVE  s \o t = u
<1>1. /\ s \o t \in Seq(S) /\ Len(s \o t) = Len(s) + Len(t)
      /\ Len(s) \in Nat /\ Len(t) \in Nat
  BY ConcatProperties, LenProperties
<1>2. ASSUME NEW i \in 1 .. Len(u)  PROVE (s \o t)[i] = u[i]
  <2>1. (s \o t)[i] = IF i <= Len(s) THEN s[i] ELSE t[i - Len(s)]
    BY ConcatProperties
  <2>2. CASE i <= Len(s)
    BY <1>1, <2>1, <2>2
  <2>3. CASE ~(i <= Len(s))
    <3>1. i - Len(s) \in 1 .. Len(t) /\ i = Len(s) + (i - Len(s))
      BY <1>1, <2>3
    <3>2. u[Len(s) + (i - Len(s))] = t[i - Len(s)]
      BY <3>1
    <3>. QED  BY <2>1, <2>3, <3>1, <3>2
  <2>. QED  BY <2>2, <2>3
<1>. QED  BY <1>1, <1>2, SeqEqual

\* The tokens of an object, by pair (AvayaCtiUI.cpp 460 to 812).
LEMMA ObjectParts ==
  ASSUME NEW pairs, Len(pairs) \in Nat \ {0}
  PROVE  /\ DOMAIN ObjectOf(pairs) = 1 .. 4 * Len(pairs) + 1
         /\ ObjectOf(pairs)[1] = Plain("{")
         /\ \A i \in 1 .. Len(pairs), j \in 1 .. 4 :
              ObjectOf(pairs)[4 * i - 3 + j] = Four(pairs, i)[j]
<1>1. DOMAIN ObjectOf(pairs) = 1 .. 4 * Len(pairs) + 1
  BY DEF ObjectOf
<1>2. ObjectOf(pairs)[1] = Plain("{")
  <2>1. 1 \in 1 .. 4 * Len(pairs) + 1
    OBVIOUS
  <2>. QED  BY <2>1 DEF ObjectOf
<1>3. ASSUME NEW i \in 1 .. Len(pairs), NEW j \in 1 .. 4
      PROVE  ObjectOf(pairs)[4 * i - 3 + j] = Four(pairs, i)[j]
  <2>. DEFINE k == 4 * i - 3 + j
  <2>1. k \in 1 .. 4 * Len(pairs) + 1 /\ k # 1 /\ (k + 2) \div 4 = i /\ ((k - 2) % 4) + 1 = j
    OBVIOUS
  <2>. HIDE DEF k
  <2>2. ObjectOf(pairs)[k] = Four(pairs, (k + 2) \div 4)[((k - 2) % 4) + 1]
    BY <2>1 DEF ObjectOf
  <2>3. ObjectOf(pairs)[k] = Four(pairs, i)[j]
    BY <2>1, <2>2
  <2>. QED  BY <2>3 DEF k
<1>. QED  BY <1>1, <1>2, <1>3

\* The keys of a message: none is written twice, none is "method", and those a
\* case of SelectTSAPIInterface reads are among them.
Covers(written, read) ==
  /\ \E n \in Nat : n > 0 /\ DOMAIN written = 1 .. n
  /\ \A i \in DOMAIN read : \E j \in DOMAIN written : written[j] = read[i]
  /\ \A i, j \in DOMAIN written : written[i] = written[j] => i = j
  /\ \A i \in DOMAIN written : written[i] # "method"

\* Three elements and one more, as the lists of keys are put together.
LEMMA ThreeAnd ==
  ASSUME NEW a, NEW b, NEW c, NEW d
  PROVE  /\ Append(<<a, b, c>>, d) = <<a, b, c, d>>
         /\ <<a, b, c>> \o <<d>> = <<a, b, c, d>>
<1>. DEFINE S == {a, b, c, d}
            s == <<a, b, c>>
            t == <<d>>
            u == <<a, b, c, d>>
<1>1. a \in S /\ b \in S /\ c \in S /\ d \in S
  OBVIOUS
<1>2. /\ u[1] = s[1] /\ u[2] = s[2] /\ u[3] = s[3]
      /\ u[4] = t[1]
  OBVIOUS
<1>. HIDE DEF S
<1>3. s \in Seq(S) /\ Len(s) = 3 /\ t \in Seq(S) /\ Len(t) = 1
  BY <1>1
<1>4. u \in Seq(S) /\ Len(u) = 4
  BY <1>1
<1>9. Append(s, d) = s \o t
  BY <1>1, <1>3, AppendIsConcat
<1>. HIDE DEF s, t, u
<1>5. /\ \A i \in 1 .. 3 : i = 1 \/ i = 2 \/ i = 3
      /\ \A i \in 1 .. 1 : i = 1
      /\ 3 + 1 = 4
  OBVIOUS
<1>6. (\A i \in 1 .. 3 : u[i] = s[i]) /\ \A i \in 1 .. 1 : u[3 + i] = t[i]
  BY <1>2, <1>5
<1>7. /\ Len(u) = Len(s) + Len(t) /\ \A i \in 1 .. Len(s) : u[i] = s[i]
      /\ \A i \in 1 .. Len(t) : u[Len(s) + i] = t[i]
  BY <1>3, <1>4, <1>5, <1>6
<1>8. s \o t = u
  BY <1>3, <1>4, <1>7, ConcatIs
<1>. QED  BY <1>8, <1>9 DEF s, t, u
\* Three elements and two more.
LEMMA ThreeAndTwo ==
  ASSUME NEW a, NEW b, NEW c, NEW d, NEW e
  PROVE  <<a, b, c>> \o <<d, e>> = <<a, b, c, d, e>>
<1>. DEFINE S == {a, b, c, d, e}
            s == <<a, b, c>>
            t == <<d, e>>
            u == <<a, b, c, d, e>>
<1>1. a \in S /\ b \in S /\ c \in S /\ d \in S /\ e \in S
  OBVIOUS
<1>2. /\ u[1] = s[1] /\ u[2] = s[2] /\ u[3] = s[3]
      /\ u[4] = t[1] /\ u[5] = t[2]
  OBVIOUS
<1>. HIDE DEF S
<1>3. s \in Seq(S) /\ Len(s) = 3 /\ t \in Seq(S) /\ Len(t) = 2
  BY <1>1
<1>4. u \in Seq(S) /\ Len(u) = 5
  BY <1>1
<1>. HIDE DEF s, t, u
<1>5. /\ \A i \in 1 .. 3 : i = 1 \/ i = 2 \/ i = 3
      /\ \A i \in 1 .. 2 : i = 1 \/ i = 2
      /\ 3 + 1 = 4 /\ 3 + 2 = 5
  OBVIOUS
<1>6. (\A i \in 1 .. 3 : u[i] = s[i]) /\ \A i \in 1 .. 2 : u[3 + i] = t[i]
  BY <1>2, <1>5
<1>7. /\ Len(u) = Len(s) + Len(t) /\ \A i \in 1 .. Len(s) : u[i] = s[i]
      /\ \A i \in 1 .. Len(t) : u[Len(s) + i] = t[i]
  BY <1>3, <1>4, <1>5, <1>6
<1>8. s \o t = u
  BY <1>3, <1>4, <1>7, ConcatIs
<1>. QED  BY <1>8 DEF s, t, u
\* Three elements and three more.
LEMMA ThreeAndThree ==
  ASSUME NEW a, NEW b, NEW c, NEW d, NEW e, NEW f
  PROVE  <<a, b, c>> \o <<d, e, f>> = <<a, b, c, d, e, f>>
<1>. DEFINE S == {a, b, c, d, e, f}
            s == <<a, b, c>>
            t == <<d, e, f>>
            u == <<a, b, c, d, e, f>>
<1>1. a \in S /\ b \in S /\ c \in S /\ d \in S /\ e \in S /\ f \in S
  OBVIOUS
<1>2. /\ u[1] = s[1] /\ u[2] = s[2] /\ u[3] = s[3]
      /\ u[4] = t[1] /\ u[5] = t[2] /\ u[6] = t[3]
  OBVIOUS
<1>. HIDE DEF S
<1>3. s \in Seq(S) /\ Len(s) = 3 /\ t \in Seq(S) /\ Len(t) = 3
  BY <1>1
<1>4. u \in Seq(S) /\ Len(u) = 6
  BY <1>1
<1>. HIDE DEF s, t, u
<1>5. /\ \A i \in 1 .. 3 : i = 1 \/ i = 2 \/ i = 3
      /\ \A i \in 1 .. 3 : i = 1 \/ i = 2 \/ i = 3
      /\ 3 + 1 = 4 /\ 3 + 2 = 5 /\ 3 + 3 = 6
  OBVIOUS
<1>6. (\A i \in 1 .. 3 : u[i] = s[i]) /\ \A i \in 1 .. 3 : u[3 + i] = t[i]
  BY <1>2, <1>5
<1>7. /\ Len(u) = Len(s) + Len(t) /\ \A i \in 1 .. Len(s) : u[i] = s[i]
      /\ \A i \in 1 .. Len(t) : u[Len(s) + i] = t[i]
  BY <1>3, <1>4, <1>5, <1>6
<1>8. s \o t = u
  BY <1>3, <1>4, <1>7, ConcatIs
<1>. QED  BY <1>8 DEF s, t, u
\* The lists of keys that are put together.
LEMMA AgentKeys ==
  ASSUME NEW d, NEW e, NEW f
  PROVE  LET agent == <<"DeviceID", "AgentID", "AgentPassword">>
         IN /\ Append(agent, d) = <<"DeviceID", "AgentID", "AgentPassword", d>>
            /\ agent \o <<d, e>> = <<"DeviceID", "AgentID", "AgentPassword", d, e>>
            /\ agent \o <<d, e, f>> = <<"DeviceID", "AgentID", "AgentPassword", d, e, f>>
<1>. DEFINE agent == <<"DeviceID", "AgentID", "AgentPassword">>
<1>1. Append(agent, d) = <<"DeviceID", "AgentID", "AgentPassword", d>>
  BY ThreeAnd
<1>2. agent \o <<d, e>> = <<"DeviceID", "AgentID", "AgentPassword", d, e>>
  BY ThreeAndTwo
<1>3. agent \o <<d, e, f>> = <<"DeviceID", "AgentID", "AgentPassword", d, e, f>>
  BY ThreeAndThree
<1>. QED  BY <1>1, <1>2, <1>3

\* AgentLogin hands its mode on before the last of its four arguments.
LEMMA InsertedFourth ==
  ASSUME NEW a, NEW b, NEW c, NEW d, NEW e
  PROVE  InsertAt(<<a, b, c, d>>, 4, e) = <<a, b, c, e, d>>
<1>. DEFINE S == {a, b, c, d}
            s == <<a, b, c, d>>
            t == <<a, b, c>>
<1>1. a \in S /\ b \in S /\ c \in S /\ d \in S
  OBVIOUS
<1>2. s[1] = a /\ s[2] = b /\ s[3] = c /\ s[4] = d /\ t[1] = a /\ t[2] = b /\ t[3] = c
  OBVIOUS
<1>. HIDE DEF S
<1>3. s \in Seq(S) /\ Len(s) = 4 /\ t \in Seq(S) /\ Len(t) = 3 /\ <<d>> \in Seq(S) /\ Len(<<d>>) = 1
  BY <1>1
<1>4. <<d>>[1] = d
  OBVIOUS
<1>. HIDE DEF s, t
<1>5. \A i \in 1 .. 4 : s[i] \in S
  BY <1>3, ElementOfSeq
<1>6. SubSeq(s, 1, 3) = t
  <2>1. /\ SubSeq(s, 1, 3) \in Seq(S) /\ Len(SubSeq(s, 1, 3)) = IF 1 <= 3 THEN 3 - 1 + 1 ELSE 0
        /\ \A i \in 1 .. 3 - 1 + 1 : SubSeq(s, 1, 3)[i] = s[1 + i - 1]
    BY <1>5, SubSeqProperties
  <2>2. Len(SubSeq(s, 1, 3)) = 3 /\ \A i \in 1 .. 3 : SubSeq(s, 1, 3)[i] = s[i]
    BY <2>1
  <2>3. \A i \in 1 .. 3 : s[i] = t[i]
    <3>1. \A i \in 1 .. 3 : i = 1 \/ i = 2 \/ i = 3
      OBVIOUS
    <3>. QED  BY <1>2, <3>1
  <2>. QED  BY <1>3, <2>1, <2>2, <2>3, SeqEqual
<1>7. SubSeq(s, 4, Len(s)) = <<d>>
  <2>1. /\ SubSeq(s, 4, 4) \in Seq(S) /\ Len(SubSeq(s, 4, 4)) = IF 4 <= 4 THEN 4 - 4 + 1 ELSE 0
        /\ \A i \in 1 .. 4 - 4 + 1 : SubSeq(s, 4, 4)[i] = s[4 + i - 1]
    BY <1>5, SubSeqProperties
  <2>2. Len(SubSeq(s, 4, 4)) = 1 /\ \A i \in 1 .. 1 : SubSeq(s, 4, 4)[i] = <<d>>[i]
    <3>1. 4 + 1 - 1 = 4 /\ 4 - 4 + 1 = 1 /\ \A i \in 1 .. 1 : i = 1
      OBVIOUS
    <3>. QED  BY <1>2, <1>4, <2>1, <3>1
  <2>3. SubSeq(s, 4, 4) = <<d>>
    BY <1>3, <2>1, <2>2, SeqEqual
  <2>. QED  BY <1>3, <2>3
<1>8. t \o <<e>> \o <<d>> = <<a, b, c, e, d>>
  <2>1. t \o <<e>> \o <<d>> = <<a, b, c, e>> \o <<d>>
    BY ThreeAnd DEF t
  <2>2. <<a, b, c, e>> \o <<d>> = <<a, b, c, e, d>>
    <3>. DEFINE T == {a, b, c, d, e}
                v == <<a, b, c, e>>
                w == <<a, b, c, e, d>>
    <3>1. a \in T /\ b \in T /\ c \in T /\ d \in T /\ e \in T
      OBVIOUS
    <3>2. /\ v[1] = w[1] /\ v[2] = w[2] /\ v[3] = w[3] /\ v[4] = w[4] /\ w[5] = <<d>>[1]
      OBVIOUS
    <3>. HIDE DEF T
    <3>3. v \in Seq(T) /\ Len(v) = 4 /\ <<d>> \in Seq(T) /\ w \in Seq(T) /\ Len(w) = 5
      BY <3>1
    <3>. HIDE DEF v, w
    <3>4. /\ \A i \in 1 .. 4 : i = 1 \/ i = 2 \/ i = 3 \/ i = 4
          /\ \A i \in 1 .. 1 : i = 1
          /\ 4 + 1 = 5
      OBVIOUS
    <3>5. (\A i \in 1 .. 4 : w[i] = v[i]) /\ \A i \in 1 .. 1 : w[4 + i] = <<d>>[i]
      BY <3>2, <3>4
    <3>6. /\ Len(w) = Len(v) + Len(<<d>>) /\ \A i \in 1 .. Len(v) : w[i] = v[i]
          /\ \A i \in 1 .. Len(<<d>>) : w[Len(v) + i] = <<d>>[i]
      BY <1>3, <3>3, <3>4, <3>5
    <3>7. v \o <<d>> = w
      BY <1>3, <3>3, <3>6, ConcatIs
    <3>. QED  BY <3>7 DEF v, w
  <2>. QED  BY <2>1, <2>2
<1>9. 4 - 1 = 3
  OBVIOUS
<1>. QED  BY <1>6, <1>7, <1>8, <1>9 DEF InsertAt, s

\* The buttons.
LEMMA Buttons ==
  DOMAIN Written = {"LoginBtn", "LogoutBtn", "StateChangeBtn", "ChkstateBtn", "CallBtn",
    "MonitorStartBtn", "MonitorStopBtn", "AnswerBtn", "ClearconBtn", "HoldBtn",
    "CancelholdBtn", "PickupBtn", "Monitorcallbtn", "SnapshotBtn", "SnapshotBtn2",
    "ConsultBtn", "ConfBtn", "ConfBtnChecked", "TransferBtn"}
BY DEF Written

\* There is a case for the method of every button, and the members it reads are among
\* those the button writes (AvayaCtiUI.cpp 268 to 393 against 460 to 812).
LEMMA ButtonKeys ==
  ASSUME NEW b \in DOMAIN Written
  PROVE  Written[b][1] \in DOMAIN Keys /\ Covers(Written[b][2], Keys[Written[b][1]])
<1>. DEFINE Fine(x) == Written[x][1] \in DOMAIN Keys /\ Covers(Written[x][2], Keys[Written[x][1]])
<1>1. Fine("LogoutBtn") /\ Fine("ChkstateBtn") /\ Fine("CallBtn")
  BY SMTT(30) DEF Written, Keys, Covers
<1>10. Fine("MonitorStartBtn") /\ Fine("MonitorStopBtn")
  BY SMTT(30) DEF Written, Keys, Covers
<1>2. /\ Fine("AnswerBtn") /\ Fine("ClearconBtn") /\ Fine("HoldBtn") /\ Fine("CancelholdBtn")
  BY SMTT(30) DEF Written, Keys, Covers
<1>3. Fine("PickupBtn") /\ Fine("Monitorcallbtn")
  BY SMTT(30) DEF Written, Keys, Covers
<1>4. /\ Fine("SnapshotBtn") /\ Fine("SnapshotBtn2") /\ Fine("ConsultBtn")
      /\ Fine("TransferBtn")
  BY SMTT(30) DEF Written, Keys, Covers
<1>5. Fine("LoginBtn")
  <2>1. /\ Written["LoginBtn"][1] = "AgentLogin" /\ "AgentLogin" \in DOMAIN Keys
        /\ Written["LoginBtn"][2] = <<"DeviceID", "AgentID", "AgentPassword", "WorkMode">>
        /\ Keys["AgentLogin"] = <<"DeviceID", "AgentID", "AgentPassword", "WorkMode">>
    BY AgentKeys DEF Written, Keys
  <2>. QED  BY <2>1 DEF Covers
<1>6. Fine("StateChangeBtn")
  <2>1. /\ Written["StateChangeBtn"][1] = "AgentSetState" /\ "AgentSetState" \in DOMAIN Keys
        /\ Written["StateChangeBtn"][2] = <<"DeviceID", "AgentID", "AgentPassword",
                                            "agentState", "enablePending", "WorkMode">>
        /\ Keys["AgentSetState"] = <<"DeviceID", "AgentID", "AgentPassword",
                                     "WorkMode", "agentState", "enablePending">>
    BY AgentKeys DEF Written, Keys
  <2>. QED  BY <2>1 DEF Covers
<1>7. Fine("ConfBtn")
  <2>1. /\ Written["ConfBtn"][1] = "AgentConferenceCall" /\ "AgentConferenceCall" \in DOMAIN Keys
        /\ Written["ConfBtn"][2] = <<"CalledDevice", "CheckedDevice", "ParticipationType">>
        /\ Keys["AgentConferenceCall"] = <<"CheckedDevice", "CalledDevice">>
    BY DEF Written, Keys
  <2>. QED  BY <2>1 DEF Covers
<1>8. Fine("ConfBtnChecked")
  <2>1. /\ Written["ConfBtnChecked"][1] = "AgentSingleStepConferenceCall"
        /\ "AgentSingleStepConferenceCall" \in DOMAIN Keys
        /\ Written["ConfBtnChecked"][2] = <<"CalledDevice", "CheckedDevice", "ParticipationType">>
        /\ Keys["AgentSingleStepConferenceCall"]
             = <<"CheckedDevice", "CalledDevice", "ParticipationType">>
    BY DEF Written, Keys
  <2>. QED  BY <2>1 DEF Covers
<1>. HIDE DEF Fine
<1>9. Fine(b)
  BY <1>1, <1>2, <1>3, <1>4, <1>5, <1>6, <1>7, <1>8, <1>10, Buttons
<1>. QED  BY <1>9 DEF Fine

\* The buttons but those of the log-in: the case reads the arguments of the request
\* meant, in its order, and calls it by the name the user agent gives it.
LEMMA ButtonMeant ==
  ASSUME NEW b \in DOMAIN Written \ {"LoginBtn", "LogoutBtn"}
  PROVE  LET name == Written[b][1]
             method == Method(name)
         IN /\ Meant[b][2] = Keys[name]
            /\ Meant[b][1] = IF method \in DOMAIN Renamed THEN Renamed[method] ELSE method
            /\ method \notin {"AgentLogin", "AgentLogout"}
            /\ method = "AgentMonitorCall" =>
                 3 \in DOMAIN Keys[name] /\ Keys[name][3] = "ParticipationType"
<1>. DEFINE Fits(x) ==
       LET name == Written[x][1]
           method == Method(name)
       IN /\ Meant[x][2] = Keys[name]
          /\ Meant[x][1] = IF method \in DOMAIN Renamed THEN Renamed[method] ELSE method
          /\ method \notin {"AgentLogin", "AgentLogout"}
          /\ method = "AgentMonitorCall" =>
               3 \in DOMAIN Keys[name] /\ Keys[name][3] = "ParticipationType"
<1>1. Fits("StateChangeBtn") /\ Fits("ChkstateBtn") /\ Fits("CallBtn")
  BY DEF Written, Keys, Meant, Method, Renamed
<1>2. Fits("MonitorStartBtn") /\ Fits("MonitorStopBtn") /\ Fits("AnswerBtn")
  BY DEF Written, Keys, Meant, Method, Renamed
<1>3. Fits("ClearconBtn") /\ Fits("HoldBtn") /\ Fits("CancelholdBtn")
  BY DEF Written, Keys, Meant, Method, Renamed
<1>4. Fits("PickupBtn") /\ Fits("Monitorcallbtn") /\ Fits("SnapshotBtn")
  BY DEF Written, Keys, Meant, Method, Renamed
<1>5. Fits("SnapshotBtn2") /\ Fits("ConsultBtn") /\ Fits("ConfBtn")
  BY DEF Written, Keys, Meant, Method, Renamed
<1>6. Fits("ConfBtnChecked") /\ Fits("TransferBtn")
  BY DEF Written, Keys, Meant, Method, Renamed
<1>. HIDE DEF Fits
<1>7. Fits(b)
  BY <1>1, <1>2, <1>3, <1>4, <1>5, <1>6, Buttons
<1>. QED  BY <1>7 DEF Fits

\* A message: the method, and each key with its text.
LEMMA MessageShape ==
  ASSUME NEW b \in DOMAIN Written, NEW modes, NEW held
  PROVE  \E k \in Nat \ {0} :
           /\ DOMAIN Written[b][2] = 1 .. k /\ Len(Message(b, modes, held)) = k + 1
           /\ Message(b, modes, held)[1] = <<"method", Written[b][1]>>
           /\ \A i \in 1 .. k : Message(b, modes, held)[i + 1]
                = <<Written[b][2][i], WrittenText(b, Written[b][2][i], modes, held)>>
<1>. DEFINE keys == Written[b][2]
            pair(i) == <<keys[i], WrittenText(b, keys[i], modes, held)>>
            first == <<"method", Written[b][1]>>
            others == [i \in DOMAIN keys |-> pair(i)]
            S == {first} \cup {pair(i) : i \in DOMAIN keys}
<1>1. PICK k \in Nat : k > 0 /\ DOMAIN keys = 1 .. k
  BY ButtonKeys DEF Covers
<1>2. Message(b, modes, held) = <<first>> \o others
  BY DEF Message
<1>3. first \in S /\ \A i \in 1 .. k : pair(i) \in S
  BY <1>1
<1>4. others = [i \in 1 .. k |-> pair(i)]
  BY <1>1
<1>. HIDE DEF keys, pair, first, others, S
<1>5. others \in [1 .. k -> S]
  BY <1>3, <1>4
<1>6. others \in Seq(S) /\ Len(others) = k
  BY <1>1, <1>5, SeqDef
<1>7. <<first>> \in Seq(S) /\ Len(<<first>>) = 1 /\ <<first>>[1] = first
  BY <1>3
<1>8. /\ Len(<<first>> \o others) = 1 + k
      /\ \A i \in 1 .. 1 + k :
           (<<first>> \o others)[i] = IF i <= 1 THEN <<first>>[i] ELSE others[i - 1]
  BY <1>6, <1>7, ConcatProperties
<1>9. (<<first>> \o others)[1] = first
  BY <1>1, <1>7, <1>8
<1>10. ASSUME NEW i \in 1 .. k  PROVE (<<first>> \o others)[i + 1] = pair(i)
  <2>1. i + 1 \in 1 .. 1 + k /\ ~(i + 1 <= 1) /\ (i + 1) - 1 = i
    BY <1>1
  <2>2. (<<first>> \o others)[i + 1] = others[i]
    BY <1>8, <2>1
  <2>. QED  BY <1>4, <2>2
<1>11. /\ DOMAIN keys = 1 .. k /\ Len(Message(b, modes, held)) = k + 1
       /\ Message(b, modes, held)[1] = first
       /\ \A i \in 1 .. k : Message(b, modes, held)[i + 1] = pair(i)
  BY <1>1, <1>2, <1>8, <1>9, <1>10
<1>. QED  BY <1>1, <1>11 DEF keys, pair, first

\* The members a message has when it has been read: no name twice.
LEMMA MessageNames ==
  ASSUME NEW b \in DOMAIN Written, NEW modes, NEW held
  PROVE  LET pairs == Message(b, modes, held)
         IN /\ Len(pairs) \in Nat \ {0}
            /\ \A i, j \in 1 .. Len(pairs) : pairs[i][1] = pairs[j][1] => i = j
<1>. DEFINE pairs == Message(b, modes, held)
            keys == Written[b][2]
<1>1. PICK k \in Nat \ {0} :
        /\ DOMAIN keys = 1 .. k /\ Len(pairs) = k + 1
        /\ pairs[1] = <<"method", Written[b][1]>>
        /\ \A i \in 1 .. k : pairs[i + 1] = <<keys[i], WrittenText(b, keys[i], modes, held)>>
  BY MessageShape, ZenonT(40)
<1>2. /\ \A i, j \in 1 .. k : keys[i] = keys[j] => i = j
      /\ \A i \in 1 .. k : keys[i] # "method"
  BY <1>1, ButtonKeys DEF Covers
<1>. HIDE DEF pairs, keys
<1>3. pairs[1][1] = "method" /\ \A i \in 1 .. k : pairs[i + 1][1] = keys[i]
  BY <1>1
<1>4. ASSUME NEW i \in 1 .. k + 1, i # 1
      PROVE  \E l \in 1 .. k : i = l + 1
  <2>1. i - 1 \in 1 .. k /\ i = (i - 1) + 1
    BY <1>1, <1>4
  <2>. QED  BY <2>1
<1>5. ASSUME NEW i \in 1 .. k + 1, NEW j \in 1 .. k + 1, pairs[i][1] = pairs[j][1]
      PROVE  i = j
  <2>1. CASE i = 1 /\ j = 1
    BY <2>1
  <2>2. CASE i = 1 /\ j # 1
    BY <1>2, <1>3, <1>4, <1>5, <2>2
  <2>3. CASE i # 1 /\ j = 1
    BY <1>2, <1>3, <1>4, <1>5, <2>3
  <2>4. CASE i # 1 /\ j # 1
    BY <1>2, <1>3, <1>4, <1>5, <2>4
  <2>. QED  BY <2>1, <2>2, <2>3, <2>4
<1>6. Len(pairs) \in Nat \ {0}
  BY <1>1
<1>. QED  BY <1>1, <1>5, <1>6 DEF pairs

-----------------------------------------------------------------------------
(* Reading the text of a button.                                             *)

\* After p tokens of the text.
Left(pairs, p) ==
  /\ rest \in Seq({ObjectOf(pairs)[k] : k \in DOMAIN ObjectOf(pairs)})
  /\ Len(rest) = 4 * Len(pairs) + 1 - p
  /\ \A k \in 1 .. Len(rest) : rest[k] = ObjectOf(pairs)[p + k]

\* The members are those of the first k pairs.
Holds(pairs, k) ==
  /\ DOMAIN members = {pairs[l][1] : l \in 1 .. k}
  /\ \A l \in 1 .. k : members[pairs[l][1]] = String(pairs[l][2])

\* No error has been found, and nothing been read but the text.
Quiet == typed = FALSE /\ errors = 0 /\ (past = -1 \/ at = "parsed")

AtStart(pairs) ==
  Left(pairs, 0) /\ Holds(pairs, 0) /\ at = "value" /\ frames = <<>>

\* After j tokens of the pair i.
AtPair(pairs, i, j) ==
  /\ Left(pairs, 4 * i - 3 + j)
  /\ Holds(pairs, IF j = 3 THEN i ELSE i - 1)
  /\ \/ j = 0 /\ at = "name" /\ \E name : frames = <<Object(name)>>
     \/ j = 1 /\ at = "colon" /\ frames = <<Object(pairs[i][1])>>
     \/ j = 2 /\ at = "value" /\ frames = <<Object(pairs[i][1])>>
     \/ j = 3 /\ at = "comma" /\ frames = <<Object(pairs[i][1])>>

AtEnd(pairs) ==
  /\ at \in {"root", "parsed"} /\ (at = "root" => rest = <<>>)
  /\ frames = <<>> /\ value = Plain("{") /\ Holds(pairs, Len(pairs))

Reading(pairs) ==
  /\ Quiet
  /\ \/ AtStart(pairs)
     \/ \E i \in 1 .. Len(pairs), j \in 0 .. 3 : AtPair(pairs, i, j)
     \/ AtEnd(pairs)

\* A token of the text is taken as it is (jsoncpp.cpp 475).
LEMMA TokenTaken ==
  ASSUME Quiet, at # "parsed", NEW pairs, Len(pairs) \in Nat \ {0},
         NEW p \in 0 .. 4 * Len(pairs), Left(pairs, p),
         ObjectOf(pairs)[p + 1].type # "end",
         NEW t \in Coming, Take(t)
  PROVE  /\ t = ObjectOf(pairs)[p + 1] /\ Left(pairs, p + 1)'
         /\ past' = -1 /\ typed' = FALSE
<1>. DEFINE S == {ObjectOf(pairs)[k] : k \in DOMAIN ObjectOf(pairs)}
            n == 4 * Len(pairs) + 1
            o == ObjectOf(pairs)
<1>1. rest \in Seq(S) /\ Len(rest) = n - p /\ \A k \in 1 .. Len(rest) : rest[k] = o[p + k]
  BY DEF Left
<1>2. n \in Nat /\ Len(rest) > 0 /\ p \in Nat
  BY <1>1
<1>. HIDE DEF S, n, o
<1>3. rest # <<>>
  BY <1>2
<1>4. Head(rest) = o[p + 1]
  BY <1>1, <1>2, <1>3
<1>5. /\ Tail(rest) \in Seq(S) /\ Len(Tail(rest)) = Len(rest) - 1
      /\ \A k \in 1 .. Len(Tail(rest)) : Tail(rest)[k] = rest[k + 1]
  BY <1>1, <1>3, HeadTailProperties
<1>6. Len(Tail(rest)) = n - (p + 1)
  BY <1>1, <1>2, <1>5
<1>7. ASSUME NEW k \in 1 .. Len(Tail(rest))  PROVE Tail(rest)[k] = o[(p + 1) + k]
  <2>1. k + 1 \in 1 .. Len(rest) /\ p + (k + 1) = (p + 1) + k
    BY <1>2, <1>5
  <2>. QED  BY <1>1, <1>5, <2>1
<1>8. past = -1 /\ ~typed
  BY DEF Quiet
<1>9. t = Head(rest)
  BY <1>3, <1>8 DEF Coming
<1>10. rest' = Tail(rest) /\ past' = -1 /\ typed' = typed
  BY <1>3, <1>4, <1>8, <1>9 DEF Take, Cut, o
<1>11. Left(pairs, p + 1)'
  BY <1>5, <1>6, <1>7, <1>10 DEF Left, S, n, o
<1>. QED  BY <1>4, <1>8, <1>9, <1>10, <1>11 DEF o

\* The depth of an object of texts is one.
LEMMA Shallow ==
  ASSUME StackLimit \in Nat, StackLimit >= 2, NEW name,
         frames = <<>> \/ frames = <<Object(name)>>
  PROVE  ~TooDeep
<1>1. CASE frames = <<>>
  <2>1. Len(frames) = 0
    BY <1>1
  <2>. QED  BY <2>1 DEF TooDeep
<1>2. CASE frames = <<Object(name)>>
  <2>1. Len(frames) = 1
    BY <1>2
  <2>. QED  BY <2>1 DEF TooDeep
<1>. QED  BY <1>1, <1>2

\* One open object, and none when it is closed.
LEMMA OneFrame ==
  ASSUME NEW name, frames = <<Object(name)>>
  PROVE  /\ Len(frames) = 1 /\ Top = Object(name) /\ Top.type = "{" /\ Pop = <<>>
         /\ frames # <<>> /\ frames[1] = Object(name)
         /\ \A f : Append(Pop, f) = <<f>>
<1>1. Len(frames) = 1 /\ frames[1] = Object(name) /\ frames # <<>>
  OBVIOUS
<1>2. Top = Object(name)
  BY <1>1 DEF Top, Last
<1>3. Pop = <<>>
  BY <1>1, SubSeqEmpty DEF Pop, Front
<1>4. Top.type = "{"
  BY <1>2 DEF Object
<1>5. \A f : Append(<<>>, f) = <<f>>
  OBVIOUS
<1>. QED  BY <1>1, <1>2, <1>3, <1>4, <1>5

\* The four tokens of a pair.
LEMMA FourTokens ==
  ASSUME NEW pairs, NEW i
  PROVE  /\ Four(pairs, i)[1] = String(pairs[i][1]) /\ Four(pairs, i)[2] = Plain(":")
         /\ Four(pairs, i)[3] = String(pairs[i][2])
         /\ Four(pairs, i)[4] = IF i = Len(pairs) THEN Plain("}") ELSE Plain(",")
         /\ \A j \in 1 .. 4 : Four(pairs, i)[j].type # "end"
<1>1. /\ Four(pairs, i)[1] = String(pairs[i][1]) /\ Four(pairs, i)[2] = Plain(":")
      /\ Four(pairs, i)[3] = String(pairs[i][2])
      /\ Four(pairs, i)[4] = Plain(IF i = Len(pairs) THEN "}" ELSE ",")
  BY DEF Four
<1>2. Four(pairs, i)[4] = IF i = Len(pairs) THEN Plain("}") ELSE Plain(",")
  BY <1>1
<1>3. /\ \A x : String(x).type = "string"
      /\ Plain(":").type = ":" /\ Plain("}").type = "}" /\ Plain(",").type = ","
  BY DEF String, Plain
<1>4. /\ Four(pairs, i)[1].type # "end" /\ Four(pairs, i)[2].type # "end"
      /\ Four(pairs, i)[3].type # "end" /\ Four(pairs, i)[4].type # "end"
  BY <1>1, <1>2, <1>3
<1>5. \A j \in 1 .. 4 : j = 1 \/ j = 2 \/ j = 3 \/ j = 4
  OBVIOUS
<1>. QED  BY <1>1, <1>2, <1>4, <1>5

\* The text begins with "{": readObject (jsoncpp.cpp 405, 680).
LEMMA StartRead ==
  ASSUME StackLimit \in Nat, StackLimit >= 2, Quiet,
         NEW pairs, Len(pairs) \in Nat \ {0}, AtStart(pairs), ReadToken
  PROVE  Quiet' /\ AtPair(pairs, 1, 0)'
<1>1. PICK t \in Coming : Take(t) /\ at = "value" /\ Value(t)
  BY DEF ReadToken, AtStart
<1>2. 0 \in 0 .. 4 * Len(pairs) /\ 0 + 1 = 1 /\ 4 * 1 - 3 + 0 = 1
  OBVIOUS
<1>3. t = Plain("{") /\ Left(pairs, 0 + 1)' /\ past' = -1 /\ typed' = FALSE
  <2>1. ObjectOf(pairs)[1] = Plain("{")
    BY ObjectParts
  <2>2. Plain("{").type # "end"
    BY DEF Plain
  <2>3. ObjectOf(pairs)[0 + 1] = Plain("{") /\ ObjectOf(pairs)[0 + 1].type # "end"
    BY <1>2, <2>1, <2>2
  <2>. QED  BY <1>1, <1>2, <2>3, TokenTaken DEF AtStart
<1>4. frames' = Append(frames, Object(Empty)) /\ at' = "name" /\ UNCHANGED <<members, errors>>
  BY <1>1, <1>3, Shallow DEF Value, AtStart, Plain
<1>5. frames' = <<Object(Empty)>>
  BY <1>4 DEF AtStart
<1>6. Left(pairs, 4 * 1 - 3 + 0)'
  BY <1>2, <1>3
<1>7. Holds(pairs, 0)'
  BY <1>4 DEF Holds, AtStart
<1>8. AtPair(pairs, 1, 0)'
  BY <1>4, <1>5, <1>6, <1>7 DEF AtPair
<1>. QED  BY <1>3, <1>4, <1>8 DEF Quiet

\* Inside a pair the token taken is the next of its four.
Taken(pairs, i, j, t) ==
  /\ t = Four(pairs, i)[j + 1]
  /\ Left(pairs, 4 * i - 3 + (j + 1))' /\ past' = -1 /\ typed' = FALSE

\* Reading inside a pair, what was taken is that token.
LEMMA PairTaken ==
  ASSUME Quiet, NEW pairs, Len(pairs) \in Nat \ {0},
         NEW i \in 1 .. Len(pairs), NEW j \in 0 .. 3, AtPair(pairs, i, j),
         NEW t \in Coming, Take(t)
  PROVE  Taken(pairs, i, j, t)
<1>. DEFINE p == 4 * i - 3 + j
<1>1. /\ p \in 0 .. 4 * Len(pairs) /\ j + 1 \in 1 .. 4
      /\ 4 * i - 3 + (j + 1) = p + 1
  OBVIOUS
<1>2. ObjectOf(pairs)[p + 1] = Four(pairs, i)[j + 1]
  <2>1. ObjectOf(pairs)[4 * i - 3 + (j + 1)] = Four(pairs, i)[j + 1]
    BY <1>1, ObjectParts
  <2>. HIDE DEF p
  <2>. QED  BY <1>1, <2>1
<1>3. Four(pairs, i)[j + 1].type # "end"
  BY <1>1, FourTokens
<1>4. Left(pairs, p) /\ at # "parsed"
  BY DEF AtPair
<1>5. t = Four(pairs, i)[j + 1] /\ Left(pairs, p + 1)' /\ past' = -1 /\ typed' = FALSE
  <2>. HIDE DEF p
  <2>. QED  BY <1>1, <1>2, <1>3, <1>4, TokenTaken
<1>. QED  BY <1>1, <1>5 DEF Taken

\* A name, the colon and a value of text: the member is set (jsoncpp.cpp 691, 720, 394).
LEMMA MemberRead ==
  ASSUME StackLimit \in Nat, StackLimit >= 2, Quiet,
         NEW pairs, Len(pairs) \in Nat \ {0},
         \A k, l \in 1 .. Len(pairs) : pairs[k][1] = pairs[l][1] => k = l,
         NEW i \in 1 .. Len(pairs), NEW j \in 0 .. 2, AtPair(pairs, i, j), ReadToken
  PROVE  Quiet' /\ AtPair(pairs, i, j + 1)'
<1>1. PICK t \in Coming :
        /\ Take(t)
        /\ \/ at = "name" /\ Name(t)
           \/ at = "colon" /\ Colon(t)
           \/ at = "value" /\ Value(t)
  BY DEF ReadToken, AtPair
<1>2. Taken(pairs, i, j, t)
  <2>1. j \in 0 .. 3 /\ t \in Coming /\ Take(t)
    BY <1>1
  <2>. QED  BY <2>1, PairTaken
<1>3. t = Four(pairs, i)[j + 1] /\ past' = -1 /\ typed' = FALSE
  BY <1>2 DEF Taken
<1>4. Left(pairs, 4 * i - 3 + (j + 1))'
  BY <1>2 DEF Taken
<1>5. PICK name : frames = <<Object(name)>> /\ (j # 0 => name = pairs[i][1])
  BY DEF AtPair
<1>6. CASE j = 0
  <2>0. j + 1 = 1
    BY <1>6
  <2>1. t = String(pairs[i][1]) /\ at = "name"
    <3>1. t = String(pairs[i][1])
      <4>1. t = Four(pairs, i)[1]
        BY <1>3, <2>0
      <4>2. Four(pairs, i)[1] = String(pairs[i][1])
        BY FourTokens
      <4>. QED  BY <4>1, <4>2
    <3>2. at = "name"
      BY <1>6 DEF AtPair
    <3>. QED  BY <3>1, <3>2
  <2>2. /\ frames' = Append(Pop, Object(pairs[i][1])) /\ at' = "colon"
        /\ UNCHANGED <<members, errors>>
    BY <1>1, <2>1 DEF Name, String
  <2>3. frames' = <<Object(pairs[i][1])>>
    BY <1>5, <2>2, OneFrame
  <2>4. Holds(pairs, i - 1)'
    BY <1>6, <2>2 DEF AtPair, Holds
  <2>5. AtPair(pairs, i, 1)'
    BY <1>4, <1>6, <2>2, <2>3, <2>4 DEF AtPair
  <2>. QED  BY <1>3, <1>6, <2>2, <2>5 DEF Quiet
<1>7. CASE j = 1
  <2>0. j + 1 = 2
    BY <1>7
  <2>1. t = Plain(":") /\ at = "colon"
    <3>1. t = Plain(":")
      <4>1. t = Four(pairs, i)[2]
        BY <1>3, <2>0
      <4>2. Four(pairs, i)[2] = Plain(":")
        BY FourTokens
      <4>. QED  BY <4>1, <4>2
    <3>2. at = "colon"
      BY <1>7 DEF AtPair
    <3>. QED  BY <3>1, <3>2
  <2>2. at' = "value" /\ UNCHANGED <<frames, members, errors>>
    BY <1>1, <2>1 DEF Colon, Go, Plain
  <2>3. Holds(pairs, i - 1)' /\ frames' = <<Object(pairs[i][1])>>
    BY <1>5, <1>7, <2>2 DEF AtPair, Holds
  <2>4. AtPair(pairs, i, 2)'
    BY <1>4, <1>7, <2>2, <2>3 DEF AtPair
  <2>. QED  BY <1>3, <1>7, <2>2, <2>4 DEF Quiet
<1>8. CASE j = 2
  <2>0. j + 1 = 3
    BY <1>8
  <2>1. t = String(pairs[i][2]) /\ at = "value" /\ frames = <<Object(pairs[i][1])>>
    <3>1. t = String(pairs[i][2])
      <4>1. t = Four(pairs, i)[3]
        BY <1>3, <2>0
      <4>2. Four(pairs, i)[3] = String(pairs[i][2])
        BY FourTokens
      <4>. QED  BY <4>1, <4>2
    <3>2. at = "value" /\ frames = <<Object(pairs[i][1])>>
      BY <1>8 DEF AtPair
    <3>. QED  BY <3>1, <3>2
  <2>2. Complete(frames, t)
    BY <1>1, <2>1, Shallow DEF Value, String
  <2>3. /\ Len(frames) = 1 /\ frames[1] = Object(pairs[i][1]) /\ frames # <<>>
        /\ Last(frames).type = "{"
    BY <2>1, OneFrame DEF Top
  <2>4. frames' = frames /\ at' = "comma" /\ UNCHANGED errors
    BY <2>2, <2>3 DEF Complete
  <2>5. members' = [n \in DOMAIN members \cup {pairs[i][1]} |->
                      IF n = pairs[i][1] THEN t ELSE members[n]]
    <3>1. frames[1].type = "{" /\ frames[1].name = pairs[i][1]
      <4>1. \A x : Object(x).type = "{" /\ Object(x).name = x
        BY DEF Object
      <4>. QED  BY <2>3, <4>1
    <3>. QED  BY <2>2, <2>3, <3>1 DEF Complete
  <2>6. Holds(pairs, i - 1)
    BY <1>8 DEF AtPair
  <2>7. /\ DOMAIN members' = {pairs[l][1] : l \in 1 .. i - 1} \cup {pairs[i][1]}
        /\ \A l \in 1 .. i : members'[pairs[l][1]] = String(pairs[l][2])
    <3>1. DOMAIN members' = {pairs[l][1] : l \in 1 .. i - 1} \cup {pairs[i][1]}
      BY <2>5, <2>6 DEF Holds
    <3>2. ASSUME NEW l \in 1 .. i  PROVE members'[pairs[l][1]] = String(pairs[l][2])
      <4>1. CASE l = i
        BY <2>1, <2>5, <3>1, <4>1
      <4>2. CASE l # i
        <5>1. l \in 1 .. i - 1 /\ l \in 1 .. Len(pairs)
          BY <4>2
        <5>2. pairs[l][1] # pairs[i][1] /\ pairs[l][1] \in DOMAIN members
          BY <2>6, <4>2, <5>1 DEF Holds
        <5>. QED  BY <2>5, <2>6, <5>1, <5>2 DEF Holds
      <4>. QED  BY <4>1, <4>2
    <3>. QED  BY <3>1, <3>2
  <2>8. {pairs[l][1] : l \in 1 .. i - 1} \cup {pairs[i][1]} = {pairs[l][1] : l \in 1 .. i}
    <3>1. 1 .. i = (1 .. i - 1) \cup {i}
      OBVIOUS
    <3>. QED  BY <3>1
  <2>9. Holds(pairs, i)'
    BY <2>7, <2>8 DEF Holds
  <2>10. AtPair(pairs, i, 3)'
    BY <1>4, <1>8, <2>1, <2>4, <2>9 DEF AtPair
  <2>. QED  BY <1>3, <1>8, <2>4, <2>10 DEF Quiet
<1>. QED  BY <1>6, <1>7, <1>8

\* After a member comes the next, or the end of the object (jsoncpp.cpp 724).
LEMMA CommaRead ==
  ASSUME Quiet, NEW pairs, Len(pairs) \in Nat \ {0},
         NEW i \in 1 .. Len(pairs), AtPair(pairs, i, 3), ReadToken
  PROVE  /\ Quiet'
         /\ (i < Len(pairs) /\ AtPair(pairs, i + 1, 0)') \/ AtEnd(pairs)'
<1>1. PICK t \in Coming : Take(t) /\ Comma(t)
  BY DEF ReadToken, AtPair
<1>2. Taken(pairs, i, 3, t)
  BY <1>1, PairTaken
<1>3. t = Four(pairs, i)[4] /\ past' = -1 /\ typed' = FALSE
  <2>1. 3 + 1 = 4
    OBVIOUS
  <2>. QED  BY <1>2, <2>1 DEF Taken
<1>4. Left(pairs, 4 * i + 1)'
  <2>1. 4 * i - 3 + (3 + 1) = 4 * i + 1
    OBVIOUS
  <2>. QED  BY <1>2, <2>1 DEF Taken
<1>5. Holds(pairs, i) /\ frames = <<Object(pairs[i][1])>> /\ at = "comma"
  BY DEF AtPair
<1>6. CASE i = Len(pairs)
  <2>1. t = Plain("}")
    <3>1. Four(pairs, i)[4] = Plain("}")
      BY <1>6, FourTokens
    <3>. QED  BY <1>3, <3>1
  <2>2. Complete(Pop, Plain("{"))
    <3>1. t.type = "}"
      BY <2>1 DEF Plain
    <3>. QED  BY <1>1, <3>1 DEF Comma
  <2>3. Pop = <<>>
    BY <1>5, OneFrame
  <2>4. Len(<<>>) # 1
    OBVIOUS
  <2>5. Complete(<<>>, Plain("{"))
    BY <2>2, <2>3
  <2>6. /\ frames' = <<>> /\ at' = "root" /\ value' = Plain("{")
        /\ members' = members /\ errors' = errors
    BY <2>4, <2>5 DEF Complete
  <2>7. rest' = <<>>
    <3>1. Len(rest') = 4 * Len(pairs) + 1 - (4 * Len(pairs) + 1) /\ rest' \in Seq({ObjectOf(pairs)[k] : k \in DOMAIN ObjectOf(pairs)})
      BY <1>4, <1>6 DEF Left
    <3>2. Len(rest') = 0
      BY <3>1
    <3>. QED  BY <3>1, <3>2, EmptySeq
  <2>8. Holds(pairs, Len(pairs))'
    BY <1>5, <1>6, <2>6 DEF Holds
  <2>9. AtEnd(pairs)'
    BY <2>6, <2>7, <2>8 DEF AtEnd
  <2>. QED  BY <1>3, <2>6, <2>9 DEF Quiet
<1>7. CASE i # Len(pairs)
  <2>1. t = Plain(",")
    <3>1. Four(pairs, i)[4] = Plain(",")
      BY <1>7, FourTokens
    <3>. QED  BY <1>3, <3>1
  <2>2. Go("name")
    <3>1. t.type = ","
      BY <2>1 DEF Plain
    <3>. QED  BY <1>1, <3>1 DEF Comma
  <2>3. at' = "name" /\ UNCHANGED <<frames, members, errors>>
    BY <2>2 DEF Go
  <2>4. 4 * (i + 1) - 3 + 0 = 4 * i + 1 /\ (i + 1) - 1 = i /\ i < Len(pairs)
    BY <1>7
  <2>5. Left(pairs, 4 * (i + 1) - 3 + 0)'
    BY <1>4, <2>4
  <2>6. Holds(pairs, (i + 1) - 1)'
    BY <1>5, <2>3, <2>4 DEF Holds
  <2>7. AtPair(pairs, i + 1, 0)'
    BY <1>5, <2>3, <2>5, <2>6 DEF AtPair
  <2>. QED  BY <1>3, <2>3, <2>4, <2>7 DEF Quiet
<1>. QED  BY <1>6, <1>7

\* After the object one more token is read, which is the end (jsoncpp.cpp 352).
LEMMA EndRead ==
  ASSUME Quiet, NEW pairs, AtEnd(pairs), ReadToken
  PROVE  Quiet' /\ AtEnd(pairs)'
<1>1. PICK t \in Coming : Take(t) /\ at = "root" /\ Root(t)
  BY DEF ReadToken, AtEnd
<1>2. rest = <<>> /\ past = -1 /\ typed = FALSE
  BY <1>1 DEF AtEnd, Quiet
<1>3. t = Plain("end")
  BY <1>2 DEF Coming
<1>4. at' = "parsed" /\ UNCHANGED <<frames, value, members, errors>>
  BY <1>1, <1>3 DEF Root, Go, Plain
<1>5. typed' = typed
  BY <1>1 DEF Take
<1>6. Holds(pairs, Len(pairs))'
  BY <1>4 DEF AtEnd, Holds
<1>. QED  BY <1>2, <1>4, <1>5, <1>6 DEF AtEnd, Quiet

\* A token of a button's text is no error, and its members are set one by one.
LEMMA ButtonRead ==
  ASSUME StackLimit \in Nat, StackLimit >= 2,
         NEW pairs, Len(pairs) \in Nat \ {0},
         \A k, l \in 1 .. Len(pairs) : pairs[k][1] = pairs[l][1] => k = l,
         Reading(pairs), ReadToken
  PROVE  Reading(pairs)'
<1>1. CASE AtStart(pairs)
  <2>1. Quiet' /\ AtPair(pairs, 1, 0)'
    BY <1>1, StartRead DEF Reading
  <2>2. 1 \in 1 .. Len(pairs) /\ 0 \in 0 .. 3
    OBVIOUS
  <2>. QED  BY <2>1, <2>2 DEF Reading
<1>2. ASSUME NEW i \in 1 .. Len(pairs), NEW j \in 0 .. 3, AtPair(pairs, i, j)
      PROVE  Reading(pairs)'
  <2>1. CASE j = 3
    <3>1. /\ Quiet'
          /\ (i < Len(pairs) /\ AtPair(pairs, i + 1, 0)') \/ AtEnd(pairs)'
      BY <1>2, <2>1, CommaRead DEF Reading
    <3>2. i < Len(pairs) => i + 1 \in 1 .. Len(pairs)
      OBVIOUS
    <3>3. 0 \in 0 .. 3
      OBVIOUS
    <3>. QED  BY <3>1, <3>2, <3>3 DEF Reading
  <2>2. CASE j # 3
    <3>1. j \in 0 .. 2 /\ j + 1 \in 0 .. 3
      BY <2>2
    <3>2. Quiet' /\ AtPair(pairs, i, j + 1)'
      BY <1>2, <3>1, MemberRead DEF Reading
    <3>. QED  BY <3>1, <3>2 DEF Reading
  <2>. QED  BY <2>1, <2>2
<1>3. CASE AtEnd(pairs)
  <2>1. Quiet' /\ AtEnd(pairs)'
    BY <1>3, EndRead DEF Reading
  <2>. QED  BY <2>1 DEF Reading
<1>. QED  BY <1>1, <1>2, <1>3 DEF Reading

-----------------------------------------------------------------------------
(* What is called.                                                           *)

\* What the radio buttons have set is one of the texts of their group.
Modes(modes) ==
  /\ DOMAIN modes = DOMAIN Setting
  /\ \A key \in DOMAIN Setting : \E i \in DOMAIN Setting[key] : modes[key] = Setting[key][i]

\* The texts of a message that are not what an edit box holds (AvayaCtiUI.cpp 460 to 812).
LEMMA TextsWritten ==
  ASSUME NEW b, NEW held, NEW modes, Modes(modes)
  PROVE  /\ WrittenText(b, "WorkMode", modes, held) \in {"3", "4"}
         /\ WrittenText(b, "enablePending", modes, held) = "1"
         /\ WrittenText(b, "ParticipationType", modes, held) \in {"PT_ACTIVE", "PT_SILENT"}
         /\ WrittenText(b, "AM_LOG_IN", modes, held) = "AM_LOG_IN"
         /\ WrittenText(b, "AM_LOG_OUT", modes, held) = "AM_LOG_OUT"
<1>1. DOMAIN modes = {"WorkMode", "agentState", "ParticipationType"}
  BY DEF Modes, Setting
<1>2. modes["WorkMode"] \in {"3", "4"}
  <2>1. Setting["WorkMode"] = <<"3", "4">> /\ "WorkMode" \in DOMAIN Setting
    BY DEF Setting
  <2>. QED  BY <2>1 DEF Modes
<1>3. modes["ParticipationType"] \in {"PT_ACTIVE", "PT_SILENT"}
  <2>1. /\ Setting["ParticipationType"] = <<"PT_ACTIVE", "PT_SILENT">>
        /\ "ParticipationType" \in DOMAIN Setting
    BY DEF Setting
  <2>. QED  BY <2>1 DEF Modes
<1>4. /\ WrittenText(b, "WorkMode", modes, held) = modes["WorkMode"]
      /\ WrittenText(b, "enablePending", modes, held) = "1"
  BY <1>1 DEF WrittenText, Boxes, NumberKeys
<1>5. WrittenText(b, "ParticipationType", modes, held) \in {"PT_ACTIVE", "PT_SILENT"}
  <2>1. CASE b \in Conference
    <3>1. WrittenText(b, "ParticipationType", modes, held) = "PT_ACTIVE"
      BY <2>1 DEF WrittenText, Boxes, NumberKeys
    <3>. QED  BY <3>1
  <2>2. CASE b \notin Conference
    <3>1. WrittenText(b, "ParticipationType", modes, held) = modes["ParticipationType"]
      BY <1>1, <2>2 DEF WrittenText, Boxes, NumberKeys
    <3>. QED  BY <1>3, <3>1
  <2>. QED  BY <2>1, <2>2
<1>6. /\ WrittenText(b, "AM_LOG_IN", modes, held) = "AM_LOG_IN"
      /\ WrittenText(b, "AM_LOG_OUT", modes, held) = "AM_LOG_OUT"
  BY <1>1 DEF WrittenText, Boxes, NumberKeys
<1>. QED  BY <1>2, <1>4, <1>5, <1>6

\* The other numbers are what their edit box holds.
LEMMA NumbersWritten ==
  ASSUME NEW b, NEW held, NEW modes, Modes(modes),
         NEW key, key \in NumberKeys, key # "WorkMode", key # "enablePending"
  PROVE  key \in Boxes /\ WrittenText(b, key, modes, held) = held[key]
<1>1. DOMAIN modes = {"WorkMode", "agentState", "ParticipationType"}
  BY DEF Modes, Setting
<1>. QED  BY <1>1 DEF WrittenText, NumberKeys, Boxes

\* All members of the message of a button, read to its end, by their names.
LEMMA MembersRead ==
  ASSUME NEW b \in DOMAIN Written, NEW modes, NEW held,
         Holds(Message(b, modes, held), Len(Message(b, modes, held)))
  PROVE  /\ StringMembers /\ Member("method") = Written[b][1]
         /\ \A i \in DOMAIN Keys[Written[b][1]] :
              Member(Keys[Written[b][1]][i]) = WrittenText(b, Keys[Written[b][1]][i], modes, held)
<1>. DEFINE pairs == Message(b, modes, held)
            keys == Written[b][2]
            read == Keys[Written[b][1]]
<1>1. PICK k \in Nat \ {0} :
        /\ DOMAIN keys = 1 .. k /\ Len(pairs) = k + 1
        /\ pairs[1] = <<"method", Written[b][1]>>
        /\ \A i \in 1 .. k : pairs[i + 1] = <<keys[i], WrittenText(b, keys[i], modes, held)>>
  BY MessageShape, ZenonT(40)
<1>2. Holds(pairs, k + 1)
  BY <1>1
<1>3. \A i \in DOMAIN read : \E j \in 1 .. k : keys[j] = read[i]
  BY <1>1, ButtonKeys DEF Covers
<1>. HIDE DEF pairs, keys, read
<1>4. \A x : String(x).type = "string" /\ String(x).text = x
  BY DEF String
<1>5. StringMembers
  BY <1>2, <1>4 DEF StringMembers, Holds
<1>6. ASSUME NEW l \in 1 .. k + 1  PROVE Member(pairs[l][1]) = pairs[l][2]
  BY <1>2, <1>4 DEF Member, Holds
<1>7. Member("method") = Written[b][1]
  <2>1. 1 \in 1 .. k + 1
    BY <1>1
  <2>2. pairs[1][1] = "method" /\ pairs[1][2] = Written[b][1]
    BY <1>1
  <2>3. Member(pairs[1][1]) = pairs[1][2]
    BY <1>6, <2>1
  <2>. QED  BY <2>2, <2>3
<1>8. ASSUME NEW i \in DOMAIN read
      PROVE  Member(read[i]) = WrittenText(b, read[i], modes, held)
  <2>1. PICK j \in 1 .. k : keys[j] = read[i]
    BY <1>3
  <2>2. j + 1 \in 1 .. k + 1
    BY <1>1
  <2>3. pairs[j + 1] = <<keys[j], WrittenText(b, keys[j], modes, held)>>
    BY <1>1
  <2>4. Member(pairs[j + 1][1]) = pairs[j + 1][2]
    BY <1>6, <2>2
  <2>. QED  BY <2>1, <2>3, <2>4
<1>. QED  BY <1>5, <1>7, <1>8 DEF read

\* The request each button is there for, as its outcome (the first part of ButtonsCall).
Request(b, modes, held) ==
  [method |-> Meant[b][1], args |->
     [i \in DOMAIN Meant[b][2] |-> WrittenText(b, Meant[b][2][i], modes, held)]]

\* The arguments of the call the message of a button ends in.
Arguments(b, modes, held) ==
  [i \in DOMAIN Keys[Written[b][1]] |-> WrittenText(b, Keys[Written[b][1]][i], modes, held)]

\* The user agent makes that request of the arguments (AvayaCallCenterUserAgent.cpp 33
\* to 177): AgentLogin and AgentLogout get their mode in the place it is meant for.
LEMMA AgentForwards ==
  ASSUME NEW b \in DOMAIN Written, NEW modes, Modes(modes), NEW held
  PROVE  Forward(Method(Written[b][1]), Arguments(b, modes, held)) = Request(b, modes, held)
<1>. DEFINE W(key) == WrittenText(b, key, modes, held)
            name == Written[b][1]
            method == Method(name)
            args == Arguments(b, modes, held)
<1>1. CASE b \notin {"LoginBtn", "LogoutBtn"}
  <2>1. /\ Meant[b][2] = Keys[name]
        /\ Meant[b][1] = IF method \in DOMAIN Renamed THEN Renamed[method] ELSE method
        /\ method \notin {"AgentLogin", "AgentLogout"}
        /\ method = "AgentMonitorCall" =>
             3 \in DOMAIN Keys[name] /\ Keys[name][3] = "ParticipationType"
    BY <1>1, ButtonMeant
  <2>2. method = "AgentMonitorCall" => args[3] \in {"PT_ACTIVE", "PT_SILENT"}
    BY <2>1, TextsWritten DEF Arguments
  <2>3. args = [i \in DOMAIN Meant[b][2] |-> W(Meant[b][2][i])]
    BY <2>1 DEF Arguments
  <2>. HIDE DEF method, args, name
  <2>4. WithMode(method, args) = args
    BY <2>1 DEF WithMode
  <2>5. Forward(method, args) =
          [method |-> IF method \in DOMAIN Renamed THEN Renamed[method] ELSE method,
           args |-> args]
    BY <2>2, <2>4 DEF Forward
  <2>6. Forward(method, args) = [method |-> Meant[b][1], args |-> args]
    BY <2>1, <2>5
  <2>7. Forward(method, args) = Request(b, modes, held)
    BY <2>3, <2>6 DEF Request
  <2>. QED  BY <2>7 DEF method, args, name
<1>2. CASE b = "LoginBtn"
  <2>1. /\ Written["LoginBtn"][1] = "AgentLogin" /\ Method("AgentLogin") = "AgentLogin"
        /\ Keys["AgentLogin"] = <<"DeviceID", "AgentID", "AgentPassword", "WorkMode">>
        /\ Meant["LoginBtn"][1] = "AgentLogin"
        /\ Meant["LoginBtn"][2]
             = <<"DeviceID", "AgentID", "AgentPassword">> \o <<"AM_LOG_IN", "WorkMode">>
        /\ "AgentLogin" \notin DOMAIN Renamed
    BY AgentKeys DEF Written, Keys, Method, Meant, Renamed
  <2>2. Meant["LoginBtn"][2]
          = <<"DeviceID", "AgentID", "AgentPassword", "AM_LOG_IN", "WorkMode">>
    BY <2>1, AgentKeys
  <2>3. args = <<W("DeviceID"), W("AgentID"), W("AgentPassword"), W("WorkMode")>>
    BY <1>2, <2>1 DEF Arguments
  <2>4. Request(b, modes, held) = [method |-> "AgentLogin", args |->
          <<W("DeviceID"), W("AgentID"), W("AgentPassword"), "AM_LOG_IN", W("WorkMode")>>]
    <3>1. W("AM_LOG_IN") = "AM_LOG_IN"
      BY TextsWritten
    <3>. QED  BY <1>2, <2>1, <2>2, <3>1 DEF Request
  <2>. HIDE DEF W, args
  <2>5. WithMode("AgentLogin", args)
          = <<W("DeviceID"), W("AgentID"), W("AgentPassword"), "AM_LOG_IN", W("WorkMode")>>
    BY <2>3, InsertedFourth DEF WithMode
  <2>. QED  BY <1>2, <2>1, <2>4, <2>5 DEF Forward, args
<1>3. CASE b = "LogoutBtn"
  <2>1. /\ Written["LogoutBtn"][1] = "AgentLogout" /\ Method("AgentLogout") = "AgentLogout"
        /\ Keys["AgentLogout"] = <<"DeviceID", "AgentID", "AgentPassword">>
        /\ Meant["LogoutBtn"][1] = "AgentLogout"
        /\ Meant["LogoutBtn"][2] = <<"DeviceID", "AgentID", "AgentPassword", "AM_LOG_OUT">>
        /\ "AgentLogout" \notin DOMAIN Renamed
    BY AgentKeys DEF Written, Keys, Method, Meant, Renamed
  <2>2. args = <<W("DeviceID"), W("AgentID"), W("AgentPassword")>>
    BY <1>3, <2>1 DEF Arguments
  <2>3. Request(b, modes, held) = [method |-> "AgentLogout", args |->
          <<W("DeviceID"), W("AgentID"), W("AgentPassword"), "AM_LOG_OUT">>]
    <3>1. W("AM_LOG_OUT") = "AM_LOG_OUT"
      BY TextsWritten
    <3>. QED  BY <1>3, <2>1, <3>1 DEF Request
  <2>. HIDE DEF W, args
  <2>4. WithMode("AgentLogout", args)
          = <<W("DeviceID"), W("AgentID"), W("AgentPassword"), "AM_LOG_OUT">>
    BY <2>2, ThreeAnd DEF WithMode
  <2>. QED  BY <1>3, <2>1, <2>3, <2>4 DEF Forward, args
<1>. QED  BY <1>1, <1>2, <1>3


\* A log-in reads one number, its mode, and a log-out none (AvayaCtiUI.cpp 268 to 278).
LEMMA LoginKeys ==
  /\ \A i \in DOMAIN Keys["AgentLogin"] :
       Keys["AgentLogin"][i] \in {"DeviceID", "AgentID", "AgentPassword", "WorkMode"}
  /\ \A i \in DOMAIN Keys["AgentLogout"] :
       Keys["AgentLogout"][i] \in {"DeviceID", "AgentID", "AgentPassword"}
<1>1. ASSUME NEW a, NEW b, NEW c, NEW d, NEW i \in DOMAIN <<a, b, c, d>>
      PROVE  <<a, b, c, d>>[i] \in {a, b, c, d}
  <2>1. i = 1 \/ i = 2 \/ i = 3 \/ i = 4
    OBVIOUS
  <2>. QED  BY <2>1
<1>2. ASSUME NEW a, NEW b, NEW c, NEW i \in DOMAIN <<a, b, c>>
      PROVE  <<a, b, c>>[i] \in {a, b, c}
  <2>1. i = 1 \/ i = 2 \/ i = 3
    OBVIOUS
  <2>. QED  BY <2>1
<1>3. /\ Keys["AgentLogin"] = <<"DeviceID", "AgentID", "AgentPassword", "WorkMode">>
      /\ Keys["AgentLogout"] = <<"DeviceID", "AgentID", "AgentPassword">>
  BY AgentKeys DEF Keys
<1>. QED  BY <1>1, <1>2, <1>3

\* The case of a button's method makes the request the button is there for, or throws
\* on a number of it that comes from an edit box (AvayaCtiUI.cpp 243 to 393).
LEMMA ButtonDispatch ==
  ASSUME {"1", "3", "4"} \subseteq Digits,
         NEW b \in DOMAIN Written, NEW modes, Modes(modes), NEW held,
         errors = 0, AtEnd(Message(b, modes, held))
  PROVE  \/ Dispatch = Request(b, modes, held)
         \/ /\ Dispatch = Ended("thrown")
            /\ \E key \in NumberKeys \cap Boxes : key \in ToSet(Meant[b][2]) /\ held[key] \notin Digits
<1>. DEFINE name == Written[b][1]
            keys == Keys[name]
            W(key) == WrittenText(b, key, modes, held)
            odd == \E i \in DOMAIN keys : keys[i] \in NumberKeys /\ W(keys[i]) \notin Digits
<1>0. ~(errors > 0)
  OBVIOUS
<1>1. StringMembers /\ Member("method") = name /\ \A i \in DOMAIN keys : Member(keys[i]) = W(keys[i])
  BY MembersRead DEF AtEnd
<1>2. name \in DOMAIN Keys
  BY ButtonKeys
<1>3. [i \in DOMAIN Keys[name] |-> Member(Keys[name][i])] = Arguments(b, modes, held)
  BY <1>1 DEF Arguments
<1>4. value.type = "{"
  BY DEF AtEnd, Plain
<1>5. Dispatch =
        IF \E i \in DOMAIN Arguments(b, modes, held) :
             keys[i] \in NumberKeys /\ Arguments(b, modes, held)[i] \notin Digits
        THEN Ended("thrown") ELSE Forward(Method(name), Arguments(b, modes, held))
  <2>. DEFINE args == [i \in DOMAIN Keys[name] |-> Member(Keys[name][i])]
  <2>1. args = Arguments(b, modes, held)
    BY <1>3
  <2>2. Dispatch = IF \E i \in DOMAIN args : Keys[name][i] \in NumberKeys /\ args[i] \notin Digits
                   THEN Ended("thrown") ELSE Forward(Method(name), args)
    <3>. HIDE DEF name
    <3>1. ~(errors > 0)
      BY <1>0
    <3>2. value.type \in {"{", "null"}
      BY <1>4
    <3>3. StringMembers
      BY <1>1
    <3>4. Member("method") = name
      BY <1>1
    <3>. QED  BY <1>2, <3>1, <3>2, <3>3, <3>4 DEF Dispatch
  <2>. HIDE DEF args
  <2>. QED  BY <2>1, <2>2
<1>6. DOMAIN Arguments(b, modes, held) = DOMAIN keys
      /\ \A i \in DOMAIN keys : Arguments(b, modes, held)[i] = W(keys[i])
  BY DEF Arguments
<1>7. Dispatch = IF odd THEN Ended("thrown") ELSE Forward(Method(name), Arguments(b, modes, held))
  <2>. HIDE DEF name, W
  <2>. QED  BY <1>5, <1>6
<1>8. CASE ~odd
  BY <1>7, <1>8, AgentForwards
<1>9. CASE odd
  <2>0. /\ W("WorkMode") \in {"3", "4"} /\ W("enablePending") = "1"
        /\ \A key \in NumberKeys \ {"WorkMode", "enablePending"} :
             key \in Boxes /\ W(key) = held[key]
    <3>1. W("WorkMode") \in {"3", "4"}
      BY TextsWritten
    <3>2. W("enablePending") = "1"
      BY TextsWritten
    <3>3. ASSUME NEW key \in NumberKeys \ {"WorkMode", "enablePending"}
          PROVE  key \in Boxes /\ W(key) = held[key]
      BY NumbersWritten
    <3>. QED  BY <3>1, <3>2, <3>3
  <2>1. PICK i \in DOMAIN keys : keys[i] \in NumberKeys /\ W(keys[i]) \notin Digits
    BY <1>9
  <2>2. /\ keys[i] \notin {"WorkMode", "enablePending"}
        /\ keys[i] \in Boxes /\ held[keys[i]] \notin Digits
    <3>1. keys[i] # "WorkMode"
      <4>1. W("WorkMode") \in Digits
        <5>. HIDE DEF W
        <5>. QED  BY <2>0
      <4>. QED  BY <2>1, <4>1
    <3>2. keys[i] # "enablePending"
      <4>1. W("enablePending") \in Digits
        <5>. HIDE DEF W
        <5>. QED  BY <2>0
      <4>. QED  BY <2>1, <4>1
    <3>3. keys[i] \in Boxes /\ W(keys[i]) = held[keys[i]]
      <4>. HIDE DEF W, keys
      <4>. QED  BY <2>0, <2>1, <3>1, <3>2
    <3>. HIDE DEF W, keys
    <3>. QED  BY <2>1, <3>1, <3>2, <3>3
  <2>3. b \notin {"LoginBtn", "LogoutBtn"}
    <3>1. /\ Written["LoginBtn"][1] = "AgentLogin"
          /\ Written["LogoutBtn"][1] = "AgentLogout"
      BY DEF Written
    <3>2. CASE b = "LoginBtn"
      <4>1. keys = Keys["AgentLogin"]
        BY <3>1, <3>2
      <4>. HIDE DEF keys
      <4>2. i \in DOMAIN Keys["AgentLogin"] /\ keys[i] = Keys["AgentLogin"][i]
        BY <2>1, <4>1
      <4>3. keys[i] \in {"DeviceID", "AgentID", "AgentPassword", "WorkMode"}
        BY <4>2, LoginKeys
      <4>. QED  BY <2>1, <2>2, <4>3 DEF NumberKeys
    <3>3. CASE b = "LogoutBtn"
      <4>1. keys = Keys["AgentLogout"]
        BY <3>1, <3>3
      <4>. HIDE DEF keys
      <4>2. i \in DOMAIN Keys["AgentLogout"] /\ keys[i] = Keys["AgentLogout"][i]
        BY <2>1, <4>1
      <4>3. keys[i] \in {"DeviceID", "AgentID", "AgentPassword"}
        BY <4>2, LoginKeys
      <4>. QED  BY <2>1, <2>2, <4>3 DEF NumberKeys
    <3>. QED  BY <3>2, <3>3
  <2>4. keys[i] \in ToSet(Meant[b][2])
    BY <2>3, ButtonMeant DEF ToSet
  <2>. HIDE DEF keys, odd
  <2>. QED  BY <1>7, <1>9, <2>1, <2>2, <2>4
<1>. QED  BY <1>8, <1>9

-----------------------------------------------------------------------------
(* The dialog and its buttons.                                               *)

\* What the radio buttons show.
Displayed == [key \in DOMAIN Setting |-> Setting[key][shown[key]]]

\* workmode, agentmode and participationType are what the radio buttons show.
SettingsShown ==
  /\ DOMAIN shown = DOMAIN Setting
  /\ \A key \in DOMAIN Setting : shown[key] \in DOMAIN Setting[key]
  /\ settings = Displayed

\* Nothing is read before a button is pressed.
Untouched ==
  /\ at = "value" /\ frames = <<>> /\ members = <<>> /\ errors = 0
  /\ typed = FALSE /\ past = -1 /\ outcome = Ended("none")

\* A button whose edit boxes hold plain texts.
PlainButton == button \in DOMAIN Written /\ PlainHeld(boxes)

\* The inductive invariant: the text of such a button is read as it was written.
ButtonsInv ==
  /\ SettingsShown
  /\ button = "none" => Untouched
  /\ PlainButton => Reading(Message(button, settings, boxes)) /\ ButtonsCall

\* What is shown is one of the texts of its group.
LEMMA ShownModes ==
  ASSUME SettingsShown  PROVE Modes(settings)
BY DEF SettingsShown, Displayed, Modes

\* At the start the first radio button of every group is shown (AvayaCtiUI.cpp 453).
LEMMA ButtonsInit ==
  ASSUME DInit  PROVE ButtonsInv
<1>1. DOMAIN Setting = {"WorkMode", "agentState", "ParticipationType"}
  BY DEF Setting
<1>2. /\ 1 \in DOMAIN Setting["WorkMode"] /\ Setting["WorkMode"][1] = "3"
      /\ 1 \in DOMAIN Setting["agentState"] /\ Setting["agentState"][1] = "Not Ready"
      /\ 1 \in DOMAIN Setting["ParticipationType"] /\ Setting["ParticipationType"][1] = "PT_ACTIVE"
  <2>1. Setting["WorkMode"] = <<"3", "4">>
    BY DEF Setting
  <2>2. Setting["agentState"] = <<"Not Ready", "Ready", "Busy">>
    BY DEF Setting
  <2>3. Setting["ParticipationType"] = <<"PT_ACTIVE", "PT_SILENT">>
    BY DEF Setting
  <2>4. ASSUME NEW x, NEW y  PROVE 1 \in DOMAIN <<x, y>> /\ <<x, y>>[1] = x
    OBVIOUS
  <2>5. ASSUME NEW x, NEW y, NEW z  PROVE 1 \in DOMAIN <<x, y, z>> /\ <<x, y, z>>[1] = x
    OBVIOUS
  <2>6. ASSUME NEW s, NEW x, NEW y, s = <<x, y>>  PROVE 1 \in DOMAIN s /\ s[1] = x
    BY <2>4, <2>6
  <2>7. ASSUME NEW s, NEW x, NEW y, NEW z, s = <<x, y, z>>
        PROVE  1 \in DOMAIN s /\ s[1] = x
    BY <2>5, <2>7
  <2>8. 1 \in DOMAIN Setting["WorkMode"] /\ Setting["WorkMode"][1] = "3"
    BY <2>1, <2>6
  <2>9. /\ 1 \in DOMAIN Setting["ParticipationType"]
        /\ Setting["ParticipationType"][1] = "PT_ACTIVE"
    BY <2>3, <2>6
  <2>10. 1 \in DOMAIN Setting["agentState"] /\ Setting["agentState"][1] = "Not Ready"
    BY <2>2, <2>7
  <2>. QED  BY <2>8, <2>9, <2>10
<1>3. \A key \in DOMAIN Setting : 1 \in DOMAIN Setting[key] /\ shown[key] = 1
  <2>1. shown = [key \in DOMAIN Setting |-> 1]
    BY DEF DInit
  <2>. QED  BY <1>1, <1>2, <2>1
<1>4. settings = Displayed
  <2>1. /\ settings["WorkMode"] = Setting["WorkMode"][1]
        /\ settings["agentState"] = Setting["agentState"][1]
        /\ settings["ParticipationType"] = Setting["ParticipationType"][1]
    <3>1. /\ settings["WorkMode"] = "3" /\ settings["agentState"] = "Not Ready"
          /\ settings["ParticipationType"] = "PT_ACTIVE"
      BY DEF DInit
    <3>. QED  BY <1>2, <3>1
  <2>2. settings = [key \in DOMAIN Setting |-> settings[key]]
    BY <1>1 DEF DInit
  <2>3. \A key \in DOMAIN Setting : settings[key] = Setting[key][shown[key]]
    BY <1>1, <1>3, <2>1
  <2>. QED  BY <2>2, <2>3 DEF Displayed
<1>5. SettingsShown
  BY <1>3, <1>4 DEF SettingsShown, DInit
<1>6. button = "none" /\ Untouched
  BY DEF DInit, ReaderInit, Untouched
<1>7. "none" \notin DOMAIN Written
  BY Buttons
<1>. QED  BY <1>5, <1>6, <1>7 DEF ButtonsInv, PlainButton

\* A radio button sets what it shows (AvayaCtiUI.cpp 494 to 564).
LEMMA RadioStep ==
  ASSUME ButtonsInv, NEW key \in DOMAIN Setting, NEW i \in DOMAIN Setting[key], Radio(key, i)
  PROVE  ButtonsInv'
<1>1. SettingsShown'
  <2>1. /\ DOMAIN shown' = DOMAIN Setting /\ shown'[key] = i
        /\ \A k \in DOMAIN Setting \ {key} : shown'[k] = shown[k]
    BY DEF Radio, ButtonsInv, SettingsShown
  <2>2. settings' = [k \in DOMAIN Setting |-> IF k = key THEN Setting[key][i] ELSE settings[k]]
    BY DEF Radio, ButtonsInv, SettingsShown, Displayed
  <2>3. settings' = Displayed'
    BY <2>1, <2>2 DEF ButtonsInv, SettingsShown, Displayed
  <2>. QED  BY <2>1, <2>3 DEF ButtonsInv, SettingsShown
<1>2. button' = "none" /\ Untouched'
  BY DEF Radio, ButtonsInv, Untouched, readerVars
<1>3. "none" \notin DOMAIN Written
  BY Buttons
<1>. QED  BY <1>1, <1>2, <1>3 DEF ButtonsInv, PlainButton

\* A button's text is handed to the dialog (AvayaCtiUI.cpp 460 to 812).
LEMMA PlainPressStep ==
  ASSUME ButtonsInv, NEW b \in DOMAIN Written, NEW held, Press(b, held), PlainHeld(held)
  PROVE  ButtonsInv'
<1>. DEFINE pairs == Message(b, settings, held)
            S == {ObjectOf(pairs)[k] : k \in DOMAIN ObjectOf(pairs)}
<1>1. b # "none"
  BY Buttons
<1>2. Untouched /\ button' = b /\ boxes' = held /\ settings' = settings /\ shown' = shown
  BY DEF Press, ButtonsInv
<1>3. SettingsShown'
  BY <1>2 DEF ButtonsInv, SettingsShown, Displayed
<1>4. rest' = ObjectOf(pairs) /\ UNCHANGED <<typed, past, frames, at, members, errors, outcome>>
  BY DEF Press
<1>5. Len(pairs) \in Nat \ {0}
  BY MessageNames
<1>. HIDE DEF pairs
<1>6. DOMAIN ObjectOf(pairs) = 1 .. 4 * Len(pairs) + 1
  BY <1>5, ObjectParts
<1>7. ObjectOf(pairs) \in Seq(S) /\ Len(ObjectOf(pairs)) = 4 * Len(pairs) + 1
  <2>1. 4 * Len(pairs) + 1 \in Nat
    BY <1>5
  <2>2. ObjectOf(pairs) = [k \in 1 .. 4 * Len(pairs) + 1 |-> ObjectOf(pairs)[k]]
    BY <1>6 DEF ObjectOf
  <2>3. ObjectOf(pairs) \in [1 .. 4 * Len(pairs) + 1 -> S]
    BY <1>6, <2>2
  <2>. HIDE DEF S
  <2>. QED  BY <2>1, <2>3, SeqDef
<1>8. Left(pairs, 0)'
  <2>1. 4 * Len(pairs) + 1 - 0 = 4 * Len(pairs) + 1
    BY <1>5
  <2>2. \A k \in 1 .. 4 * Len(pairs) + 1 : k = 0 + k
    BY <1>5
  <2>3. rest' \in Seq(S) /\ Len(rest') = 4 * Len(pairs) + 1 - 0
    BY <1>4, <1>7, <2>1
  <2>4. \A k \in 1 .. 4 * Len(pairs) + 1 : rest'[k] = ObjectOf(pairs)[0 + k]
    BY <1>4, <2>2
  <2>5. \A k \in 1 .. Len(rest') : rest'[k] = ObjectOf(pairs)[0 + k]
    BY <1>4, <1>7, <2>4
  <2>6. pairs' = pairs
    BY <1>2 DEF pairs
  <2>. QED  BY <2>3, <2>5, <2>6 DEF Left
<1>9. Holds(pairs, 0)'
  <2>1. DOMAIN members' = {}
    BY <1>2, <1>4 DEF Untouched
  <2>2. 1 .. 0 = {}
    OBVIOUS
  <2>. QED  BY <2>1, <2>2 DEF Holds
<1>10. AtStart(pairs)' /\ Quiet'
  BY <1>2, <1>4, <1>8, <1>9 DEF AtStart, Quiet, Untouched
<1>11. Reading(pairs)'
  BY <1>10 DEF Reading
<1>12. Reading(Message(button, settings, boxes))'
  BY <1>2, <1>11 DEF pairs
<1>13. ButtonsCall'
  BY <1>2, <1>4 DEF ButtonsCall, Untouched
<1>. QED  BY <1>1, <1>2, <1>3, <1>12, <1>13 DEF ButtonsInv, PlainButton

\* A text that is not plain makes the message some other, of which nothing is said.
LEMMA PressStep ==
  ASSUME ButtonsInv, NEW b \in DOMAIN Written, NEW held, Press(b, held)
  PROVE  ButtonsInv'
<1>1. b # "none"
  BY Buttons
<1>2. button' = b /\ boxes' = held /\ settings' = settings /\ shown' = shown
  BY DEF Press
<1>3. SettingsShown'
  BY <1>2 DEF ButtonsInv, SettingsShown, Displayed
<1>4. ~PlainHeld(held) => ~PlainButton'
  BY <1>2 DEF PlainButton, PlainHeld
<1>. QED  BY <1>1, <1>2, <1>3, <1>4, PlainPressStep DEF ButtonsInv

\* OnBnClickedBegin is no button with a text of its own.
LEMMA BeginStep ==
  ASSUME ButtonsInv, Begin  PROVE ButtonsInv'
<1>1. "Begin" \notin DOMAIN Written
  BY Buttons
<1>2. SettingsShown'
  BY DEF Begin, ButtonsInv, SettingsShown, Displayed
<1>. QED  BY <1>1, <1>2 DEF ButtonsInv, PlainButton, Begin

\* A token is read.
LEMMA ReadStep ==
  ASSUME StackLimit \in Nat, StackLimit >= 2, ButtonsInv, Parse
  PROVE  ButtonsInv'
<1>1. button # "none" /\ ReadToken /\ UNCHANGED <<button, outcome, shown, settings, boxes>>
  BY DEF Parse
<1>2. SettingsShown'
  BY <1>1 DEF ButtonsInv, SettingsShown, Displayed
<1>3. ASSUME PlainButton
      PROVE  Reading(Message(button, settings, boxes))' /\ ButtonsCall'
  <2>. DEFINE pairs == Message(button, settings, boxes)
  <2>1. /\ Len(pairs) \in Nat \ {0}
        /\ \A k, l \in 1 .. Len(pairs) : pairs[k][1] = pairs[l][1] => k = l
    BY <1>3, MessageNames DEF PlainButton
  <2>2. Reading(pairs) /\ ButtonsCall
    BY <1>3 DEF ButtonsInv
  <2>3. pairs' = pairs
    BY <1>1
  <2>4. ButtonsCall'
    BY <1>1, <2>2 DEF ButtonsCall, PlainHeld
  <2>. HIDE DEF pairs
  <2>5. Reading(pairs)'
    BY <1>1, <2>1, <2>2, <2>3, ButtonRead
  <2>. QED  BY <2>4, <2>5 DEF pairs
<1>4. PlainButton' <=> PlainButton
  BY <1>1 DEF PlainButton, PlainHeld
<1>. QED  BY <1>1, <1>2, <1>3, <1>4 DEF ButtonsInv

\* The text of a button has been read when it is handled (AvayaCtiUI.cpp 243).
LEMMA SelectStep ==
  ASSUME {"1", "3", "4"} \subseteq Digits, ButtonsInv, SelectTSAPIInterface
  PROVE  ButtonsInv'
<1>1. /\ Over /\ outcome' = IF at = "thrown" THEN Ended("thrown") ELSE Dispatch
      /\ UNCHANGED <<readerVars, shown, settings, button, boxes>>
  BY DEF SelectTSAPIInterface
<1>2. SettingsShown'
  BY <1>1 DEF ButtonsInv, SettingsShown, Displayed
<1>3. button # "none"
  BY <1>1 DEF ButtonsInv, Untouched, Over
<1>4. ASSUME PlainButton
      PROVE  Reading(Message(button, settings, boxes))' /\ ButtonsCall'
  <2>. DEFINE pairs == Message(button, settings, boxes)
  <2>1. Reading(pairs)
    BY <1>4 DEF ButtonsInv
  <2>2. Modes(settings)
    BY ShownModes DEF ButtonsInv
  <2>3. AtEnd(pairs) /\ at = "parsed" /\ errors = 0
    <3>. HIDE DEF pairs
    <3>. QED  BY <1>1, <2>1 DEF Reading, AtStart, AtPair, AtEnd, Over, Quiet
  <2>4. outcome' = Dispatch
    BY <1>1, <2>3
  <2>5. \/ Dispatch = Request(button, settings, boxes)
        \/ /\ Dispatch = Ended("thrown")
           /\ \E key \in NumberKeys \cap Boxes :
                key \in ToSet(Meant[button][2]) /\ boxes[key] \notin Digits
    BY <1>4, <2>2, <2>3, ButtonDispatch DEF PlainButton
  <2>6. settings = Displayed
    BY DEF ButtonsInv, SettingsShown
  <2>7. ButtonsCall'
    BY <1>1, <2>4, <2>5, <2>6 DEF ButtonsCall, Request, Displayed
  <2>8. Reading(pairs)'
    <3>1. pairs' = pairs
      BY <1>1
    <3>2. UNCHANGED <<rest, typed, past, frames, at, value, members, errors>>
      BY <1>1 DEF readerVars
    <3>. HIDE DEF pairs
    <3>3. AtEnd(pairs)'
      BY <2>3, <3>1, <3>2 DEF AtEnd, Holds
    <3>4. Quiet'
      BY <2>1, <3>2 DEF Reading, Quiet
    <3>. QED  BY <3>3, <3>4 DEF Reading
  <2>. QED  BY <2>7, <2>8 DEF pairs
<1>5. PlainButton' <=> PlainButton
  BY <1>1 DEF PlainButton, PlainHeld
<1>. QED  BY <1>1, <1>2, <1>3, <1>4, <1>5 DEF ButtonsInv

\* ButtonsCall, whatever plain texts the edit boxes hold and however many tokens are
\* read: every button makes the request it is there for, with what the dialog shows, or
\* the program ends on a box for a number that holds none (AvayaCtiUI.cpp 243 to 393,
\* 460 to 812, AvayaCallCenterUserAgent.cpp 33 to 177, jsoncpp.cpp 343 to 463, 680 to
\* 740).  The depth StackLimit is a thousand in the code, and stoi takes the texts "1",
\* "3" and "4" for numbers.
THEOREM ButtonRequests ==
  ASSUME StackLimit \in Nat, StackLimit >= 2, {"1", "3", "4"} \subseteq Digits
  PROVE  DSpec => []ButtonsCall
<1>1. DInit => ButtonsInv
  BY ButtonsInit
<1>2. ButtonsInv /\ [DNext]_dvars => ButtonsInv'
  <2>. SUFFICES ASSUME ButtonsInv, [DNext]_dvars  PROVE ButtonsInv'
    OBVIOUS
  <2>1. ASSUME NEW key \in DOMAIN Setting, NEW i \in DOMAIN Setting[key], Radio(key, i)
        PROVE  ButtonsInv'
    BY <2>1, RadioStep
  <2>2. ASSUME NEW b \in DOMAIN Written, NEW held \in [BoxesOf(b) -> BoxTexts], Press(b, held)
        PROVE  ButtonsInv'
    BY <2>2, PressStep
  <2>3. CASE Begin
    BY <2>3, BeginStep
  <2>4. CASE Parse
    BY <2>4, ReadStep
  <2>5. CASE SelectTSAPIInterface
    BY <2>5, SelectStep
  <2>6. CASE UNCHANGED dvars
    <3>1. /\ UNCHANGED <<rest, typed, past, frames, at, value, members, errors>>
          /\ UNCHANGED <<shown, settings, button, boxes, outcome>>
      BY <2>6 DEF dvars, readerVars
    <3>2. SettingsShown' = SettingsShown /\ Untouched' = Untouched /\ ButtonsCall' = ButtonsCall
          /\ PlainButton' = PlainButton
      BY <3>1 DEF SettingsShown, Displayed, Untouched, ButtonsCall, PlainButton, PlainHeld
    <3>3. ASSUME NEW pairs, Reading(pairs)  PROVE Reading(pairs)'
      BY <3>1, <3>3 DEF Reading, Quiet, AtStart, AtPair, AtEnd, Left, Holds
    <3>4. Reading(Message(button, settings, boxes)) => Reading(Message(button, settings, boxes))'
      BY <3>1, <3>3
    <3>. QED  BY <3>1, <3>2, <3>4 DEF ButtonsInv
  <2>. QED  BY <2>1, <2>2, <2>3, <2>4, <2>5, <2>6 DEF DNext
<1>3. ButtonsInv => ButtonsCall
  BY DEF ButtonsInv, ButtonsCall, PlainButton
<1>. QED  BY <1>1, <1>2, <1>3, PTL DEF DSpec

-----------------------------------------------------------------------------
(* Texts of every kind: what is needed of sequences and of depth.            *)

\* A sequence, of whatever elements.
IsSeq(s) == \E S : s \in Seq(S)

\* A sequence that has got an element at its end.
Grown(s, e, u) ==
  /\ IsSeq(u) /\ Len(s) \in Nat /\ Len(u) = Len(s) + 1 /\ u[Len(s) + 1] = e /\ u # <<>>
  /\ \A i \in 1 .. Len(s) : u[i] = s[i]

\* A token is put behind the input, and a frame on the stack.
LEMMA AppendGrows ==
  ASSUME NEW s, IsSeq(s), NEW e  PROVE Grown(s, e, Append(s, e))
<1>1. PICK S : s \in Seq(S)
  BY DEF IsSeq
<1>. DEFINE T == S \cup {e}
<1>2. s \in Seq(T)
  BY <1>1, SeqMonotonic
<1>3. e \in T
  OBVIOUS
<1>. HIDE DEF T
<1>4. Append(s, e) \in Seq(T) /\ Len(Append(s, e)) = Len(s) + 1 /\ Len(s) \in Nat
  BY <1>2, <1>3
<1>5. /\ \A i \in 1 .. Len(s) : Append(s, e)[i] = s[i]
      /\ Append(s, e)[Len(s) + 1] = e
  BY <1>2, <1>3
<1>6. Append(s, e) # <<>>
  <2>1. Len(Append(s, e)) # 0
    BY <1>4
  <2>. QED  BY <2>1, EmptySeq
<1>. QED  BY <1>4, <1>5, <1>6 DEF Grown, IsSeq

\* A sequence that has lost its last element.
LEMMA FrontFalls ==
  ASSUME NEW s, IsSeq(s), s # <<>>
  PROVE  /\ IsSeq(Front(s)) /\ Len(s) \in Nat \ {0} /\ Len(Front(s)) = Len(s) - 1
         /\ \A i \in 1 .. Len(s) - 1 : Front(s)[i] = s[i]
<1>1. PICK S : s \in Seq(S)
  BY DEF IsSeq
<1>2. Len(s) \in Nat \ {0}
  BY <1>1, EmptySeq
<1>3. \A i \in 1 .. Len(s) - 1 : s[i] \in S
  BY <1>1, <1>2, ElementOfSeq
<1>. DEFINE n == Len(s) - 1
<1>4. n \in Int /\ 1 \in Int
  BY <1>2
<1>5. /\ SubSeq(s, 1, n) \in Seq(S) /\ Len(SubSeq(s, 1, n)) = IF 1 <= n THEN n - 1 + 1 ELSE 0
      /\ \A i \in 1 .. n - 1 + 1 : SubSeq(s, 1, n)[i] = s[1 + i - 1]
  <2>. HIDE DEF n
  <2>1. \A i \in 1 .. n : s[i] \in S
    BY <1>3 DEF n
  <2>. QED  BY <1>4, <2>1, SubSeqProperties
<1>6. Len(SubSeq(s, 1, n)) = n /\ \A i \in 1 .. n : SubSeq(s, 1, n)[i] = s[i]
  <2>1. n \in Nat
    BY <1>2
  <2>. HIDE DEF n
  <2>2. n - 1 + 1 = n /\ (1 <= n \/ n = 0) /\ \A i \in 1 .. n : 1 + i - 1 = i
    BY <2>1
  <2>. QED  BY <1>5, <2>2
<1>. QED  BY <1>2, <1>5, <1>6 DEF Front, IsSeq

\* The empty sequence.
LEMMA EmptyIsSeq ==
  /\ IsSeq(<<>>) /\ Len(<<>>) = 0
  /\ \A s : IsSeq(s) => Len(s) \in Nat /\ (s = <<>> <=> Len(s) = 0)
<1>1. \A S : <<>> \in Seq(S) /\ Len(<<>>) = 0
  BY EmptySeq
<1>2. ASSUME NEW s, IsSeq(s)  PROVE Len(s) \in Nat /\ (s = <<>> <=> Len(s) = 0)
  <2>1. PICK S : s \in Seq(S)
    BY <1>2 DEF IsSeq
  <2>. QED  BY <2>1, EmptySeq, LenProperties
<1>. QED  BY <1>1, <1>2 DEF IsSeq

\* A set of numbers up to a bound has a greatest one, which Max names.
LEMMA MaxIsGreatest ==
  ASSUME NEW n \in Nat, NEW S \in SUBSET (1 .. n), S # {}
  PROVE  Max(S) \in S /\ \A m \in S : m <= Max(S)
<1>. DEFINE T == { m .. n : m \in S }
<1>1. T \subseteq FiniteSubsetsOf(Nat) /\ T # {}
  <2>1. \A m \in S : IsFiniteSet(m .. n) /\ m .. n \in SUBSET Nat
    BY FS_Interval
  <2>. QED  BY <2>1 DEF FiniteSubsetsOf
<1>2. \E x \in T : \A y \in T : <<y, x>> \notin StrictSubsetOrdering(Nat)
  <2>. HIDE DEF T
  <2>. QED  BY <1>1, FS_StrictSubsetOrderingWellFounded, WFMin
<1>3. PICK m \in S : \A k \in S : <<k .. n, m .. n>> \notin StrictSubsetOrdering(Nat)
  BY <1>2
<1>4. ASSUME NEW k \in S  PROVE m >= k
  <2>1. SUFFICES ASSUME k > m  PROVE FALSE
    OBVIOUS
  <2>2. k .. n \subseteq m .. n /\ m \in m .. n /\ m \notin k .. n /\ m .. n \subseteq Nat
    BY <2>1
  <2>3. <<k .. n, m .. n>> \in StrictSubsetOrdering(Nat)
    BY <2>2 DEF StrictSubsetOrdering
  <2>. QED  BY <1>3, <2>3
<1>5. Max(S) \in S /\ \A k \in S : Max(S) >= k
  BY <1>4 DEF Max
<1>. QED  BY <1>5

\* What opens an object or an array, what closes one, and what is neither.
Opens(t) == t.type \in {"{", "["}
Closes(t) == t.type \in {"}", "]"}

\* The places up to i of tokens that open, and of those that close.
Opened(s, i) == {j \in 1 .. i : Opens(s[j])}
Closed(s, i) == {j \in 1 .. i : Closes(s[j])}

\* One more token in a set of places, or not.
LEMMA PlacesCounted ==
  ASSUME NEW n \in Nat, NEW S \in SUBSET (1 .. n), NEW T, T = S \/ T = S \cup {n + 1}
  PROVE  /\ Cardinality(S) \in Nat
         /\ Cardinality(T) = IF T = S THEN Cardinality(S) ELSE Cardinality(S) + 1
<1>1. IsFiniteSet(S)
  <2>1. IsFiniteSet(1 .. n)
    BY FS_Interval
  <2>. QED  BY <2>1, FS_Subset
<1>2. n + 1 \notin S
  OBVIOUS
<1>. QED  BY <1>1, <1>2, FS_CardinalityType, FS_AddElement

\* A token put behind the input changes the depth of no other, and goes up or down
\* by itself.
LEMMA DepthGrows ==
  ASSUME IsSeq(input), NEW t, input' = Append(input, t), ~(Opens(t) /\ Closes(t)),
         NEW n, n = Len(input)
  PROVE  /\ \A i \in 0 .. n : Depth(i)' = Depth(i) /\ Depth(i) \in Int
         /\ Depth(n + 1)' =
              IF Opens(t) THEN Depth(n) + 1 ELSE IF Closes(t) THEN Depth(n) - 1 ELSE Depth(n)
<1>1. /\ n \in Nat /\ input'[n + 1] = t
      /\ \A i \in 1 .. n : input'[i] = input[i]
  BY AppendGrows DEF Grown
<1>2. ASSUME NEW i \in 0 .. n
      PROVE  /\ Opened(input', i) = Opened(input, i) /\ Closed(input', i) = Closed(input, i)
             /\ Cardinality(Opened(input, i)) \in Nat /\ Cardinality(Closed(input, i)) \in Nat
  <2>1. \A j \in 1 .. i : input'[j] = input[j]
    <3>1. \A j \in 1 .. i : j \in 1 .. n
      BY <1>1
    <3>. QED  BY <1>1, <3>1
  <2>2. Opened(input', i) = Opened(input, i) /\ Closed(input', i) = Closed(input, i)
    BY <2>1 DEF Opened, Closed
  <2>3. Opened(input, i) \in SUBSET (1 .. i) /\ Closed(input, i) \in SUBSET (1 .. i) /\ i \in Nat
    BY <1>1 DEF Opened, Closed
  <2>. QED  BY <2>2, <2>3, PlacesCounted
<1>3. ASSUME NEW i \in 0 .. n  PROVE Depth(i)' = Depth(i) /\ Depth(i) \in Int
  <2>1. /\ Depth(i) = Cardinality(Opened(input, i)) - Cardinality(Closed(input, i))
        /\ Depth(i)' = Cardinality(Opened(input', i)) - Cardinality(Closed(input', i))
    BY DEF Depth, Opened, Closed, Opens, Closes
  <2>2. Depth(i)' = Depth(i)
    BY <1>2, <2>1
  <2>3. Depth(i) \in Int
    BY <1>2, <2>1
  <2>. QED  BY <2>2, <2>3
<1>4. /\ Opens(t) => Opened(input', n + 1) = Opened(input, n) \cup {n + 1}
      /\ ~Opens(t) => Opened(input', n + 1) = Opened(input, n)
      /\ Closes(t) => Closed(input', n + 1) = Closed(input, n) \cup {n + 1}
      /\ ~Closes(t) => Closed(input', n + 1) = Closed(input, n)
  <2>1. 1 .. n + 1 = (1 .. n) \cup {n + 1}
    BY <1>1
  <2>. QED  BY <1>1, <2>1 DEF Opened, Closed
<1>5. /\ Depth(n) = Cardinality(Opened(input, n)) - Cardinality(Closed(input, n))
      /\ Depth(n + 1)' = Cardinality(Opened(input', n + 1)) - Cardinality(Closed(input', n + 1))
  BY DEF Depth, Opened, Closed, Opens, Closes
<1>6. /\ Cardinality(Opened(input, n)) \in Nat /\ Cardinality(Closed(input, n)) \in Nat
      /\ Cardinality(Opened(input, n) \cup {n + 1}) = Cardinality(Opened(input, n)) + 1
      /\ Cardinality(Closed(input, n) \cup {n + 1}) = Cardinality(Closed(input, n)) + 1
  <2>1. Opened(input, n) \in SUBSET (1 .. n) /\ Closed(input, n) \in SUBSET (1 .. n)
    BY DEF Opened, Closed
  <2>2. n + 1 \notin 1 .. n
    BY <1>1
  <2>. QED  BY <1>1, <2>1, <2>2, PlacesCounted
<1>7. Depth(n + 1)' = IF Opens(t) THEN Depth(n) + 1 ELSE IF Closes(t) THEN Depth(n) - 1 ELSE Depth(n)
  <2>1. CASE Opens(t)
    <3>1. Depth(n + 1)' = (Cardinality(Opened(input, n)) + 1) - Cardinality(Closed(input, n))
      BY <1>4, <1>5, <1>6, <2>1
    <3>. QED  BY <1>5, <1>6, <2>1, <3>1
  <2>2. CASE Closes(t) /\ ~Opens(t)
    <3>1. Depth(n + 1)' = Cardinality(Opened(input, n)) - (Cardinality(Closed(input, n)) + 1)
      BY <1>4, <1>5, <1>6, <2>2
    <3>. QED  BY <1>5, <1>6, <2>2, <3>1
  <2>3. CASE ~Closes(t) /\ ~Opens(t)
    BY <1>4, <1>5, <1>6, <2>3
  <2>. QED  BY <2>1, <2>2, <2>3
<1>. QED  BY <1>3, <1>7

-----------------------------------------------------------------------------
(* What a token does that is no error.                                       *)

\* What has a name and what has none; neither opens nor closes nor separates a name.
IsObject(t) == t.type = "{"
IsArray(t) == t.type = "["
Flat(t) == ~Opens(t) /\ ~Closes(t) /\ t.type # ":"

\* A token is what Plain or String makes.
IsToken(t) == t = Plain(t.type) \/ t = String(t.text)

\* So are the tokens of the text of a button.
RestOK == IsSeq(rest) /\ \A k \in 1 .. Len(rest) : IsToken(rest[k])

\* The types of tokens, apart from the words for them.
LEMMA Types3 ==
  /\ \A x : String(x).type = "string" /\ String(x).text = x /\ IsToken(String(x))
  /\ \A x : Plain(x).type = x /\ IsToken(Plain(x))
  /\ \A t : ~(Opens(t) /\ Closes(t)) /\ ~(IsObject(t) /\ IsArray(t))
  /\ \A t : IsToken(t) /\ t.type = "string" => t = String(t.text)
<1>1. \A x : String(x).type = "string" /\ String(x).text = x
  BY DEF String
<1>2. \A x : Plain(x).type = x /\ Plain(x).text = Empty
  BY DEF Plain
<1>3. (\A x : IsToken(String(x))) /\ \A x : IsToken(Plain(x))
  BY <1>1, <1>2 DEF IsToken
<1>4. \A t : ~(Opens(t) /\ Closes(t)) /\ ~(IsObject(t) /\ IsArray(t))
  BY DEF Opens, Closes, IsObject, IsArray
<1>5. Plain("string") = String(Empty)
  BY DEF Plain, String
<1>6. ASSUME NEW t, IsToken(t), t.type = "string"  PROVE t = String(t.text)
  <2>1. CASE t = Plain(t.type)
    BY <1>1, <1>5, <1>6, <2>1
  <2>. QED  BY <1>6, <2>1 DEF IsToken
<1>. QED  BY <1>1, <1>2, <1>3, <1>4, <1>6

\* What is read is a token (jsoncpp.cpp 475).
LEMMA ComingTokens ==
  ASSUME RestOK, NEW t \in Coming  PROVE IsToken(t)
<1>1. CASE t = Plain("end")
  BY <1>1, Types3
<1>2. CASE t \in Token
  <2>1. (\E x : t = Plain(x)) \/ \E x : t = String(x)
    BY <1>2 DEF Token
  <2>. QED  BY <2>1, Types3
<1>3. CASE rest # <<>> /\ t = Head(rest)
  <2>1. PICK S : rest \in Seq(S)
    BY DEF RestOK, IsSeq
  <2>2. Len(rest) \in Nat \ {0} /\ Head(rest) = rest[1]
    BY <1>3, <2>1, EmptySeq
  <2>3. 1 \in 1 .. Len(rest)
    BY <2>2
  <2>. QED  BY <1>3, <2>2, <2>3 DEF RestOK
<1>. QED  BY <1>1, <1>2, <1>3 DEF Coming

\* A token less to come.
LEMMA RestKept ==
  ASSUME RestOK, NEW t, Take(t)  PROVE RestOK'
<1>1. rest' = IF rest = <<>> THEN <<>> ELSE Tail(rest)
  BY DEF Take
<1>2. CASE rest = <<>>
  BY <1>1, <1>2 DEF RestOK
<1>3. CASE rest # <<>>
  <2>1. PICK S : rest \in Seq(S)
    BY DEF RestOK, IsSeq
  <2>2. /\ Tail(rest) \in Seq(S) /\ Len(Tail(rest)) = Len(rest) - 1
        /\ \A i \in 1 .. Len(Tail(rest)) : Tail(rest)[i] = rest[i + 1]
    BY <1>3, <2>1, HeadTailProperties
  <2>3. Len(rest) \in Nat
    BY <2>1
  <2>4. rest' = Tail(rest) /\ IsSeq(Tail(rest))
    BY <1>1, <1>3, <2>2 DEF IsSeq
  <2>5. \A i \in 1 .. Len(Tail(rest)) : i + 1 \in 1 .. Len(rest)
    BY <2>2, <2>3
  <2>6. \A i \in 1 .. Len(Tail(rest)) : IsToken(Tail(rest)[i])
    BY <2>2, <2>5 DEF RestOK
  <2>. QED  BY <2>4, <2>6 DEF RestOK
<1>. QED  BY <1>2, <1>3

\* The input is a sequence, the empty one once an error was found.
LEMMA InputKept ==
  ASSUME IsSeq(input), NEW t, Take(t)  PROVE IsSeq(input')
<1>1. PICK u : input' = IF errors > 0 THEN <<>> ELSE IF at = "root" THEN input ELSE Append(input, u)
  BY DEF Take, Record
<1>2. IsSeq(Append(input, u)) /\ IsSeq(<<>>)
  BY AppendGrows, EmptyIsSeq DEF Grown
<1>. QED  BY <1>1, <1>2

\* As long as the text is an ordinary one and has no error, what is read is put behind
\* what was read before.
LEMMA InputTaken ==
  ASSUME IsSeq(input), errors = 0, NEW t, Take(t), Ordinary'
  PROVE  /\ Ordinary
         /\ at = "root" => input' = input
         /\ at # "root" => input' = Append(input, t) /\ t.type \notin {"comment", "cut"}
<1>1. PICK u : /\ u = t \/ u = Plain("cut")
               /\ input' = IF at = "root" THEN input ELSE Append(input, u)
  <2>1. ~(errors > 0)
    OBVIOUS
  <2>. QED  BY <2>1 DEF Take, Record
<1>2. CASE at = "root"
  BY <1>1, <1>2 DEF Ordinary
<1>3. CASE at # "root"
  <2>1. input' = Append(input, u)
    BY <1>1, <1>3
  <2>2. /\ IsSeq(input') /\ Len(input) \in Nat /\ Len(input') = Len(input) + 1
        /\ input'[Len(input) + 1] = u /\ \A i \in 1 .. Len(input) : input'[i] = input[i]
    BY <2>1, AppendGrows DEF Grown
  <2>3. DOMAIN input = 1 .. Len(input) /\ DOMAIN input' = 1 .. Len(input')
    BY <2>2, LenProperties DEF IsSeq
  <2>4. /\ Len(input) + 1 \in DOMAIN input' /\ DOMAIN input \subseteq DOMAIN input'
    BY <2>2, <2>3
  <2>5. Ordinary
    BY <2>2, <2>3, <2>4 DEF Ordinary
  <2>6. u.type \notin {"comment", "cut"}
    BY <2>2, <2>4 DEF Ordinary
  <2>7. u = t
    BY <1>1, <2>6, Types3
  <2>. QED  BY <1>3, <2>1, <2>5, <2>6, <2>7
<1>. QED  BY <1>2, <1>3

\* Where the reader is, by the last token and the innermost call (jsoncpp.cpp 384 to
\* 463, 680 to 772).
NoColon == input # <<>> /\ input[Len(input)].type # ":"
AfterColon ==
  /\ Len(input) >= 2 /\ input[Len(input)].type = ":"
  /\ input[Len(input) - 1] = String(Top.name) /\ Depth(Len(input) - 1) = Len(frames)
InObject == frames # <<>> /\ IsObject(Top)
InArray == frames # <<>> /\ IsArray(Top)

Where ==
  \/ at = "value" /\ input = <<>> /\ frames = <<>>
  \/ at = "value" /\ AfterColon /\ InObject
  \/ at \in {"value", "first", "item"} /\ NoColon /\ InArray
  \/ at \in {"name", "comma"} /\ NoColon /\ InObject
  \/ at = "colon" /\ NoColon /\ InObject /\ input[Len(input)] = String(Top.name)
  \/ at \in {"root", "parsed"} /\ NoColon /\ frames = <<>>

\* Commas, and what ends an object or an array.
IsComma(t) == t.type = ","
EndsObject(t) == t.type = "}"
EndsArray(t) == t.type = "]"
Starts(t) == t.type \in Begins

\* What the reader takes without an error, by the place it is at (jsoncpp.cpp 384 to
\* 463, 680 to 772).
Accepted(t) ==
  \/ at = "value" /\ Starts(t)
  \/ at = "first" /\ (Starts(t) \/ EndsArray(t))
  \/ at = "item" /\ (IsComma(t) \/ EndsArray(t))
  \/ at = "name" /\ (t.type = "string" \/ (EndsObject(t) /\ Top.name = Empty))
  \/ at = "colon" /\ t.type = ":"
  \/ at = "comma" /\ (IsComma(t) \/ EndsObject(t))

\* The moves: a value is begun and perhaps ended, a call of readObject or readArray is
\* left, a name, a colon or a comma is read, or nothing of the value.
ScalarMove(t) ==
  at \in {"value", "first"} /\ Flat(t) /\ Complete(frames, t)
OpenMove(t) ==
  /\ at \in {"value", "first"} /\ Opens(t) /\ UNCHANGED <<value, members>>
  /\ \E f : f.type = t.type /\ (IsObject(t) => f.name = Empty) /\ frames' = Append(frames, f)
  /\ \/ IsObject(t) /\ at' = "name"
     \/ IsArray(t) /\ at' = "first"
CloseMove(t) ==
  /\ at \in {"first", "item", "name", "comma"} /\ Closes(t)
  /\ \E v : v.type = Top.type /\ v.type # "string" /\ Complete(Pop, v)
NameMove(t) ==
  /\ at = "name" /\ Flat(t) /\ t = String(t.text)
  /\ frames' = Append(Pop, Object(t.text)) /\ at' = "colon" /\ UNCHANGED <<value, members>>
ColonMove(t) ==
  /\ at = "colon" /\ t.type = ":" /\ at' = "value" /\ UNCHANGED <<frames, value, members>>
CommaMove(t) ==
  /\ \/ at = "item" /\ at' = "value"
     \/ at = "comma" /\ at' = "name"
  /\ Flat(t) /\ UNCHANGED <<frames, value, members>>
RootMove ==
  /\ at = "root" /\ at' \in {"root", "parsed"} /\ input' = input
  /\ UNCHANGED <<frames, value, members>>

\* readValue does one of three things, unless it throws or finds an error.
LEMMA ValueMoves ==
  ASSUME NEW t, Value(t), at' # "thrown", errors' = errors, errors \in Nat,
         t.type # "comment", at \in {"value", "first"}
  PROVE  ScalarMove(t) \/ OpenMove(t)
<1>1. ~TooDeep
  BY DEF Value, Go
<1>2. errors' # errors + 1
  OBVIOUS
<1>3. ASSUME NEW f, f.type = t.type, f.name = Empty, frames' = Append(frames, f), Opens(t),
             IsObject(t), at' = "name", UNCHANGED <<value, members>>
      PROVE  OpenMove(t)
  BY <1>3 DEF OpenMove
<1>4. CASE t.type \in {"string", "number", "null"}
  <2>1. Complete(frames, t)
    BY <1>1, <1>4 DEF Value
  <2>2. Flat(t)
    BY <1>4 DEF Flat, Opens, Closes
  <2>. QED  BY <2>1, <2>2 DEF ScalarMove
<1>5. CASE t.type = "{"
  <2>1. frames' = Append(frames, Object(Empty)) /\ at' = "name" /\ UNCHANGED <<value, members>>
    BY <1>1, <1>5 DEF Value
  <2>2. Object(Empty).type = t.type /\ Object(Empty).name = Empty
    BY <1>5 DEF Object
  <2>4. Opens(t) /\ IsObject(t)
    BY <1>5 DEF Opens, IsObject
  <2>. QED  BY <1>3, <2>1, <2>2, <2>4
<1>6. CASE t.type = "["
  <2>1. frames' = Append(frames, [type |-> "["]) /\ at' = "first" /\ UNCHANGED <<value, members>>
    BY <1>1, <1>6 DEF Value
  <2>2. [type |-> "["].type = t.type
    BY <1>6
  <2>3. Opens(t) /\ IsArray(t) /\ ~IsObject(t)
    BY <1>6 DEF Opens, IsArray, IsObject
  <2>. QED  BY <2>1, <2>2, <2>3 DEF OpenMove
<1>7. CASE t.type \notin {"string", "number", "null", "{", "["}
  <2>1. Fail
    BY <1>1, <1>7 DEF Value
  <2>. QED  BY <1>2, <2>1 DEF Fail
<1>. QED  BY <1>4, <1>5, <1>6, <1>7

\* Errors are not forgotten.
LEMMA ErrorsCounted ==
  ASSUME ReadToken  PROVE errors' = errors \/ errors' = errors + 1
<1>1. PICK t : \/ Value(t) \/ First(t) \/ Item(t) \/ Name(t) \/ Colon(t) \/ Comma(t)
               \/ Separator(t) \/ Skip(t) \/ Root(t)
  BY DEF ReadToken
<1>2. ASSUME Fail  PROVE errors' = errors \/ errors' = errors + 1
  BY <1>2 DEF Fail
<1>3. ASSUME NEW where, Go(where)  PROVE errors' = errors
  BY <1>3 DEF Go
<1>4. ASSUME NEW fs, NEW v, Complete(fs, v)  PROVE errors' = errors
  BY <1>4 DEF Complete
<1>5. CASE Value(t)
  <2>1. \/ \E where : Go(where)
        \/ Complete(frames, t) \/ Fail \/ UNCHANGED errors
    BY <1>5 DEF Value
  <2>. QED  BY <1>2, <1>3, <1>4, <2>1
<1>6. CASE First(t)
  <2>1. Complete(Pop, Plain("[")) \/ Value(t)
    BY <1>6 DEF First
  <2>2. Value(t) => (\E where : Go(where)) \/ Complete(frames, t) \/ Fail \/ UNCHANGED errors
    BY DEF Value
  <2>. QED  BY <1>2, <1>3, <1>4, <2>1, <2>2
<1>7. CASE Item(t)
  <2>1. (\E where : Go(where)) \/ Complete(Pop, Plain("[")) \/ Fail
    BY <1>7 DEF Item
  <2>. QED  BY <1>2, <1>3, <1>4, <2>1
<1>8. CASE Name(t)
  <2>1. (\E where : Go(where)) \/ Complete(Pop, Plain("{")) \/ Fail \/ UNCHANGED errors
    BY <1>8 DEF Name
  <2>. QED  BY <1>2, <1>3, <1>4, <2>1
<1>9. CASE Colon(t)
  BY <1>2, <1>3, <1>9 DEF Colon
<1>10. CASE Comma(t)
  <2>1. (\E where : Go(where)) \/ Complete(Pop, Plain("{")) \/ Fail
    BY <1>10 DEF Comma
  <2>. QED  BY <1>2, <1>3, <1>4, <2>1
<1>11. CASE Separator(t)
  <2>1. (\E where : Go(where)) \/ Complete(Pop, Plain("{"))
    BY <1>11 DEF Separator
  <2>. QED  BY <1>3, <1>4, <2>1
<1>12. CASE Skip(t)
  BY <1>3, <1>12 DEF Skip
<1>13. CASE Root(t)
  BY <1>3, <1>13 DEF Root
<1>. QED  BY <1>1, <1>5, <1>6, <1>7, <1>8, <1>9, <1>10, <1>11, <1>12, <1>13

\* The rest of the calls, unless they find an error.
LEMMA OtherMoves ==
  ASSUME NEW t, IsToken(t), errors' = errors, errors \in Nat, t.type # "comment"
  PROVE  /\ at = "first" /\ InArray /\ First(t) => CloseMove(t) \/ Value(t)
         /\ at = "item" /\ InArray /\ Item(t) => CloseMove(t) \/ CommaMove(t)
         /\ at = "name" /\ InObject /\ Name(t) => CloseMove(t) \/ NameMove(t)
         /\ at = "colon" /\ Colon(t) => ColonMove(t)
         /\ at = "comma" /\ InObject /\ Comma(t) => CloseMove(t) \/ CommaMove(t)
<1>1. ~Fail
  <2>1. errors' # errors + 1
    OBVIOUS
  <2>. QED  BY <2>1 DEF Fail
<1>2. /\ \A x : Plain(x).type = x
      /\ InArray => Plain("[").type = Top.type
      /\ InObject => Plain("{").type = Top.type
  BY Types3 DEF InArray, InObject, IsArray, IsObject
<1>3. Plain("[").type # "string" /\ Plain("{").type # "string"
  BY <1>2
<1>4. ASSUME at = "first", InArray, First(t)  PROVE CloseMove(t) \/ Value(t)
  <2>1. (t.type = "]" /\ Complete(Pop, Plain("["))) \/ Value(t)
    BY <1>4 DEF First
  <2>. QED  BY <1>2, <1>3, <1>4, <2>1 DEF CloseMove, Closes
<1>5. ASSUME at = "item", InArray, Item(t)  PROVE CloseMove(t) \/ CommaMove(t)
  <2>1. (t.type = "]" /\ Complete(Pop, Plain("["))) \/ (t.type = "," /\ Go("value"))
    BY <1>1, <1>5 DEF Item
  <2>2. ASSUME t.type = ",", Go("value")  PROVE CommaMove(t)
    <3>1. Flat(t)
      BY <2>2 DEF Flat, Opens, Closes
    <3>2. at' = "value" /\ UNCHANGED <<frames, value, members>>
      BY <2>2 DEF Go
    <3>. QED  BY <1>5, <3>1, <3>2 DEF CommaMove
  <2>. QED  BY <1>2, <1>3, <1>5, <2>1, <2>2 DEF CloseMove, Closes
<1>6. ASSUME at = "name", InObject, Name(t)  PROVE CloseMove(t) \/ NameMove(t)
  <2>1. \/ t.type = "}" /\ Complete(Pop, Plain("{"))
        \/ /\ t.type = "string" /\ frames' = Append(Pop, Object(t.text)) /\ at' = "colon"
           /\ UNCHANGED <<value, members>>
    BY <1>1, <1>6 DEF Name
  <2>2. t.type = "string" => Flat(t) /\ t = String(t.text)
    BY Types3 DEF Flat, Opens, Closes
  <2>3. t.type = "}" => Closes(t)
    BY DEF Closes
  <2>4. CASE t.type = "}" /\ Complete(Pop, Plain("{"))
    BY <1>2, <1>3, <1>6, <2>3, <2>4 DEF CloseMove
  <2>. QED  BY <1>6, <2>1, <2>2, <2>4 DEF NameMove
<1>7. ASSUME at = "colon", Colon(t)  PROVE ColonMove(t)
  <2>1. t.type = ":" /\ Go("value")
    BY <1>1, <1>7 DEF Colon
  <2>. QED  BY <1>7, <2>1 DEF ColonMove, Go
<1>8. ASSUME at = "comma", InObject, Comma(t)  PROVE CloseMove(t) \/ CommaMove(t)
  <2>1. (t.type = "}" /\ Complete(Pop, Plain("{"))) \/ (t.type = "," /\ Go("name"))
    BY <1>1, <1>8 DEF Comma
  <2>2. ASSUME t.type = ",", Go("name")  PROVE CommaMove(t)
    BY <1>8, <2>2 DEF CommaMove, Flat, Opens, Closes, Go
  <2>3. t.type = "}" => Closes(t)
    BY DEF Closes
  <2>4. CASE t.type = "}" /\ Complete(Pop, Plain("{"))
    BY <1>2, <1>3, <1>8, <2>3, <2>4 DEF CloseMove
  <2>. QED  BY <2>1, <2>2, <2>4
<1>. QED  BY <1>4, <1>5, <1>6, <1>7, <1>8

\* readValue finds an error in what no value begins with.
LEMMA ValueAccepts ==
  ASSUME NEW t, Value(t), at' # "thrown", errors \in Nat, t.type # "comment"
  PROVE  errors' = errors <=> Starts(t)
<1>1. ~TooDeep
  BY DEF Value, Go
<1>2. CASE t.type \in {"string", "number", "null"}
  <2>1. Complete(frames, t)
    BY <1>1, <1>2 DEF Value
  <2>. QED  BY <1>2, <2>1 DEF Complete, Starts, Begins
<1>3. CASE t.type \in {"{", "["}
  <2>1. errors' = errors
    BY <1>1, <1>3 DEF Value
  <2>2. Starts(t)
    BY <1>3 DEF Starts, Begins
  <2>. QED  BY <2>1, <2>2
<1>4. CASE t.type \notin {"string", "number", "null", "{", "["}
  <2>1. Fail
    BY <1>1, <1>4 DEF Value
  <2>2. errors' # errors
    BY <2>1 DEF Fail
  <2>3. ~Starts(t)
    BY <1>4 DEF Starts, Begins
  <2>. QED  BY <2>2, <2>3
<1>. QED  BY <1>2, <1>3, <1>4

\* The other calls find one in what is not Accepted.
LEMMA OtherAccepts ==
  ASSUME NEW t, errors \in Nat, at' # "thrown", t.type # "comment"
  PROVE  /\ First(t) => (errors' = errors <=> Starts(t) \/ EndsArray(t))
         /\ Item(t) => (errors' = errors <=> IsComma(t) \/ EndsArray(t))
         /\ Name(t) => (errors' = errors <=>
                          t.type = "string" \/ (EndsObject(t) /\ Top.name = Empty))
         /\ Colon(t) => (errors' = errors <=> t.type = ":")
         /\ Comma(t) => (errors' = errors <=> IsComma(t) \/ EndsObject(t))
<1>1. Fail => errors' # errors
  BY DEF Fail
<1>2. \A where : Go(where) => errors' = errors
  BY DEF Go
<1>3. \A fs, v : Complete(fs, v) => errors' = errors
  BY DEF Complete
<1>4. ASSUME First(t)  PROVE errors' = errors <=> Starts(t) \/ EndsArray(t)
  <2>1. CASE t.type = "]"
    BY <1>3, <1>4, <2>1 DEF First, EndsArray
  <2>2. CASE t.type # "]"
    BY <1>4, <2>2, ValueAccepts DEF First, EndsArray
  <2>. QED  BY <2>1, <2>2
<1>5. ASSUME Item(t)  PROVE errors' = errors <=> IsComma(t) \/ EndsArray(t)
  <2>1. CASE IsComma(t)
    <3>1. Go("value")
      BY <1>5, <2>1 DEF Item, IsComma
    <3>. QED  BY <1>2, <2>1, <3>1
  <2>2. CASE EndsArray(t)
    <3>1. Complete(Pop, Plain("["))
      BY <1>5, <2>2 DEF Item, EndsArray
    <3>. QED  BY <1>3, <2>2, <3>1
  <2>3. CASE ~IsComma(t) /\ ~EndsArray(t)
    <3>1. Fail
      BY <1>5, <2>3 DEF Item, IsComma, EndsArray
    <3>. QED  BY <1>1, <2>3, <3>1
  <2>. QED  BY <2>1, <2>2, <2>3
<1>6. ASSUME Name(t)
      PROVE  errors' = errors <=> t.type = "string" \/ (EndsObject(t) /\ Top.name = Empty)
  <2>1. CASE t.type = "string"
    <3>1. errors' = errors
      BY <1>6, <2>1 DEF Name
    <3>. QED  BY <2>1, <3>1
  <2>2. CASE EndsObject(t) /\ Top.name = Empty
    <3>1. Complete(Pop, Plain("{"))
      BY <1>6, <2>2 DEF Name, EndsObject
    <3>. QED  BY <1>3, <2>2, <3>1
  <2>3. CASE t.type # "string" /\ ~(EndsObject(t) /\ Top.name = Empty)
    <3>1. Fail
      BY <1>6, <2>3 DEF Name, EndsObject
    <3>. QED  BY <1>1, <2>3, <3>1
  <2>. QED  BY <2>1, <2>2, <2>3
<1>7. ASSUME Colon(t)  PROVE errors' = errors <=> t.type = ":"
  BY <1>1, <1>2, <1>7 DEF Colon
<1>8. ASSUME Comma(t)  PROVE errors' = errors <=> IsComma(t) \/ EndsObject(t)
  <2>1. CASE IsComma(t)
    <3>1. Go("name")
      BY <1>8, <2>1 DEF Comma, IsComma
    <3>. QED  BY <1>2, <2>1, <3>1
  <2>2. CASE EndsObject(t)
    <3>1. Complete(Pop, Plain("{"))
      BY <1>8, <2>2 DEF Comma, EndsObject
    <3>. QED  BY <1>3, <2>2, <3>1
  <2>3. CASE ~IsComma(t) /\ ~EndsObject(t)
    <3>1. Fail
      BY <1>8, <2>3 DEF Comma, IsComma, EndsObject
    <3>. QED  BY <1>1, <2>3, <3>1
  <2>. QED  BY <2>1, <2>2, <2>3
<1>. QED  BY <1>4, <1>5, <1>6, <1>7, <1>8

\* Every token of an ordinary text is accepted, and then one of the moves, or it is the
\* first error.
LEMMA Moves ==
  ASSUME RestOK, IsSeq(input), errors = 0, ReadToken, Ordinary', at' # "thrown",
         Ordinary => Where
  PROVE  /\ Where /\ Ordinary
         /\ \/ RootMove /\ errors' = 0
            \/ \E t : /\ IsToken(t) /\ input' = Append(input, t) /\ at # "root"
                      /\ errors' = 0 <=> Accepted(t)
                      /\ errors' = 0 =>
                           \/ ScalarMove(t) \/ OpenMove(t) \/ CloseMove(t)
                           \/ NameMove(t) \/ ColonMove(t) \/ CommaMove(t)
<1>2. PICK t \in Coming :
        /\ Take(t)
        /\ \/ at = "value" /\ Value(t)
           \/ at = "first" /\ First(t)
           \/ at = "item" /\ Item(t)
           \/ at = "name" /\ Name(t)
           \/ at = "colon" /\ Colon(t)
           \/ at = "comma" /\ Comma(t)
           \/ at = "separator" /\ Separator(t)
           \/ at = "skip" /\ Skip(t)
           \/ at = "root" /\ Root(t)
  BY DEF ReadToken
<1>3. /\ Ordinary /\ at # "thrown" /\ IsToken(t)
      /\ at = "root" => input' = input
      /\ at # "root" => input' = Append(input, t) /\ t.type # "comment"
  BY <1>2, InputTaken, ComingTokens
<1>4. Where
  BY <1>3
<1>5. at # "separator" /\ at # "skip"
  BY <1>4 DEF Where
<1>6. CASE at = "root"
  <2>1. Root(t)
    BY <1>2, <1>6
  <2>2. RootMove /\ errors' = 0
    BY <1>3, <1>6, <2>1 DEF Root, Go, RootMove
  <2>. QED  BY <1>3, <1>4, <2>2
<1>7. CASE at # "root"
  <2>1. /\ at = "first" => InArray
        /\ at = "item" => InArray
        /\ at = "name" => InObject
        /\ at = "comma" => InObject
    BY <1>4 DEF Where
  <2>2. ASSUME errors' = 0
        PROVE  \/ ScalarMove(t) \/ OpenMove(t) \/ CloseMove(t)
               \/ NameMove(t) \/ ColonMove(t) \/ CommaMove(t)
    <3>1. \/ at \in {"value", "first"} /\ Value(t)
          \/ CloseMove(t) \/ NameMove(t) \/ ColonMove(t) \/ CommaMove(t)
      BY <1>2, <1>3, <1>5, <1>7, <2>1, <2>2, OtherMoves
    <3>2. at \in {"value", "first"} /\ Value(t) => ScalarMove(t) \/ OpenMove(t)
      BY <1>3, <1>7, <2>2, ValueMoves
    <3>. QED  BY <3>1, <3>2
  <2>3. errors' = 0 <=> Accepted(t)
    <3>1. /\ at = "value" => (errors' = 0 <=> Starts(t))
          /\ at = "first" => (errors' = 0 <=> Starts(t) \/ EndsArray(t))
          /\ at = "item" => (errors' = 0 <=> IsComma(t) \/ EndsArray(t))
      BY <1>2, <1>3, <1>7, ValueAccepts, OtherAccepts
    <3>2. /\ at = "name" => (errors' = 0 <=>
                               t.type = "string" \/ (EndsObject(t) /\ Top.name = Empty))
          /\ at = "colon" => (errors' = 0 <=> t.type = ":")
          /\ at = "comma" => (errors' = 0 <=> IsComma(t) \/ EndsObject(t))
      BY <1>2, <1>3, <1>7, OtherAccepts
    <3>3. at \in {"value", "first", "item", "name", "colon", "comma"}
      BY <1>2, <1>5, <1>7
    <3>. QED  BY <3>1, <3>2, <3>3 DEF Accepted
  <2>. QED  BY <1>3, <1>4, <1>7, <2>2, <2>3
<1>. QED  BY <1>6, <1>7

-----------------------------------------------------------------------------
(* What is kept of a text.                                                   *)

\* The places of the members whose value has been begun.
Places ==
  {i \in 1 .. Len(input) :
     i + 2 <= Len(input) /\ Depth(i) = 1 /\ input[i + 1].type = ":"}

\* A value is known by its first token.
Fits(v, t) == v.type = t.type /\ (t.type = "string" => v = t)

\* The members m are those of the places Q of the text s: of every name the last.
Settled(m, s, Q) ==
  /\ \A i \in Q : s[i] = String(s[i].text)
  /\ DOMAIN m = {s[i].text : i \in Q}
  /\ \A i \in Q :
       (\A j \in Q : s[j].text = s[i].text => j <= i) => Fits(m[s[i].text], s[i + 2])

\* As many calls as the text is deep.
Stacked ==
  /\ IsSeq(frames) /\ Depth(Len(input)) = Len(frames)
  /\ \A k \in 1 .. Len(frames) : IsObject(frames[k]) \/ IsArray(frames[k])

\* The outermost call, and the value in the end, are what the text begins with.
Begun ==
  input # <<>> => IF frames = <<>> THEN value.type = input[1].type
                  ELSE frames[1].type = input[1].type

\* Inside the value of a member of the outermost object, that member is to come.
Pending(p) ==
  /\ \A i \in Places : i <= p
  /\ input[p] = String(frames[1].name) /\ input[p + 2].type = frames[2].type
  /\ Settled(members, input, Places \ {p})

NoMembers == input = <<>> \/ ~IsObject(input[1]) => members = <<>>
OuterRead ==
  input # <<>> /\ IsObject(input[1]) /\ Len(frames) <= 1 => Settled(members, input, Places)
InnerRead ==
  input # <<>> /\ IsObject(input[1]) /\ Len(frames) > 1 => \E p \in Places : Pending(p)

TextMatch == Where /\ Stacked /\ Begun /\ NoMembers /\ OuterRead /\ InnerRead

\* The input with one more token t, the one at n + 1.
GrownBy(t, n) ==
  /\ n = Len(input) /\ n \in Nat /\ (n = 0 <=> input = <<>>)
  /\ Len(input') = n + 1 /\ input' # <<>> /\ input'[n + 1] = t
  /\ \A i \in 1 .. n : input'[i] = input[i]
  /\ \A i \in 0 .. n : Depth(i)' = Depth(i) /\ Depth(i) \in Int
  /\ Depth(n + 1)' =
       IF Opens(t) THEN Depth(n) + 1 ELSE IF Closes(t) THEN Depth(n) - 1 ELSE Depth(n)

\* A token is put behind the input.
LEMMA InputGrows ==
  ASSUME IsSeq(input), NEW t, input' = Append(input, t)
  PROVE  \E n : GrownBy(t, n)
<1>1. PICK n : n = Len(input)
  OBVIOUS
<1>2. /\ n \in Nat /\ Len(input') = n + 1 /\ input'[n + 1] = t /\ input' # <<>>
      /\ \A i \in 1 .. n : input'[i] = input[i]
  BY <1>1, AppendGrows DEF Grown
<1>3. n = 0 <=> input = <<>>
  BY <1>1, EmptyIsSeq
<1>4. /\ \A i \in 0 .. n : Depth(i)' = Depth(i) /\ Depth(i) \in Int
      /\ Depth(n + 1)' =
           IF Opens(t) THEN Depth(n) + 1 ELSE IF Closes(t) THEN Depth(n) - 1 ELSE Depth(n)
  BY <1>1, DepthGrows, Types3
<1>. QED  BY <1>1, <1>2, <1>3, <1>4 DEF GrownBy

\* A place is added when a value is begun behind the colon of an outermost member.
LEMMA PlacesGrow ==
  ASSUME NEW t, NEW n, GrownBy(t, n)
  PROVE  /\ \A i \in Places : i \in 1 .. n /\ i + 2 \in 1 .. n
         /\ n >= 2 /\ input[n].type = ":" /\ Depth(n - 1) = 1 => Places' = Places \cup {n - 1}
         /\ ~(n >= 2 /\ input[n].type = ":" /\ Depth(n - 1) = 1) => Places' = Places
<1>1. /\ n = Len(input) /\ n \in Nat /\ Len(input') = n + 1
      /\ \A i \in 1 .. n : input'[i] = input[i]
      /\ \A i \in 0 .. n : Depth(i)' = Depth(i)
  BY DEF GrownBy
<1>2. Places = {i \in 1 .. n : i + 2 <= n /\ Depth(i) = 1 /\ input[i + 1].type = ":"}
  BY <1>1 DEF Places
<1>3. Places' = {i \in 1 .. n + 1 : i + 2 <= n + 1 /\ Depth(i)' = 1 /\ input'[i + 1].type = ":"}
  BY <1>1 DEF Places
<1>4. ASSUME NEW i \in 1 .. n + 1, i + 2 <= n + 1
      PROVE  Depth(i)' = Depth(i) /\ input'[i + 1].type = input[i + 1].type
  <2>1. i \in 0 .. n /\ i + 1 \in 1 .. n
    BY <1>1, <1>4
  <2>. QED  BY <1>1, <2>1
<1>5. Places' = {i \in 1 .. n + 1 : i + 2 <= n + 1 /\ Depth(i) = 1 /\ input[i + 1].type = ":"}
  BY <1>3, <1>4
<1>6. \A i \in 1 .. n + 1 : i + 2 <= n + 1 <=> (i \in 1 .. n /\ i + 2 <= n) \/ (n >= 2 /\ i = n - 1)
  BY <1>1
<1>7. n >= 2 => (n - 1) + 1 = n /\ n - 1 \in 1 .. n + 1
  BY <1>1
<1>8. CASE n >= 2 /\ input[n].type = ":" /\ Depth(n - 1) = 1
  <2>1. Places' = Places \cup {n - 1}
    BY <1>1, <1>2, <1>5, <1>6, <1>7, <1>8
  <2>. QED  BY <1>1, <1>2, <1>8, <2>1
<1>9. CASE ~(n >= 2 /\ input[n].type = ":" /\ Depth(n - 1) = 1)
  <2>1. Places' = Places
    BY <1>1, <1>2, <1>5, <1>6, <1>7, <1>9
  <2>. QED  BY <1>1, <1>2, <1>9, <2>1
<1>. QED  BY <1>8, <1>9

\* Members do not change when the text gets longer.
LEMMA SettledStays ==
  ASSUME NEW m, NEW s, NEW u, NEW Q, Settled(m, s, Q),
         \A i \in Q : u[i] = s[i] /\ u[i + 2] = s[i + 2]
  PROVE  Settled(m, u, Q)
BY DEF Settled

\* The members with one set.
With(m, name, v) == [k \in DOMAIN m \cup {name} |-> IF k = name THEN v ELSE m[k]]

\* A member is set that comes behind all others (jsoncpp.cpp 712).
LEMMA SettledOneMore ==
  ASSUME NEW m, NEW s, NEW Q, Settled(m, s, Q), NEW p \in Nat,
         \A i \in Q : i \in Nat /\ i < p,
         NEW name, s[p] = String(name), NEW v, Fits(v, s[p + 2])
  PROVE  Settled(With(m, name, v), s, Q \cup {p})
<1>. DEFINE n == [k \in DOMAIN m \cup {name} |-> IF k = name THEN v ELSE m[k]]
            R == Q \cup {p}
<1>1. s[p].text = name /\ s[p] = String(s[p].text)
  BY Types3
<1>2. \A i \in R : s[i] = String(s[i].text)
  BY <1>1 DEF Settled
<1>3. DOMAIN n = {s[i].text : i \in R}
  BY <1>1 DEF Settled
<1>4. ASSUME NEW i \in R, \A j \in R : s[j].text = s[i].text => j <= i
      PROVE  Fits(n[s[i].text], s[i + 2])
  <2>1. CASE i = p
    BY <1>1, <2>1
  <2>2. CASE i # p
    <3>1. i \in Q /\ i < p
      BY <2>2
    <3>2. s[i].text # name
      BY <1>1, <1>4, <3>1
    <3>3. s[i].text \in DOMAIN m
      BY <3>1 DEF Settled
    <3>4. n[s[i].text] = m[s[i].text]
      BY <3>2, <3>3
    <3>5. Fits(m[s[i].text], s[i + 2])
      BY <1>4, <3>1 DEF Settled
    <3>. QED  BY <3>4, <3>5
  <2>. QED  BY <2>1, <2>2
<1>. HIDE DEF n, R
<1>5. Settled(n, s, R)
  BY <1>2, <1>3, <1>4 DEF Settled
<1>. QED  BY <1>5 DEF n, R, With

\* What Complete does, apart from the words for the types (jsoncpp.cpp 384 to 463).
LEMMA CompleteIs ==
  ASSUME NEW fs, NEW v, Complete(fs, v)
  PROVE  /\ frames' = fs
         /\ fs = <<>> => at' = "root" /\ value' = v
         /\ fs # <<>> /\ IsObject(Last(fs)) => at' = "comma"
         /\ fs # <<>> /\ IsArray(Last(fs)) => at' = "item"
         /\ Len(fs) = 1 /\ IsObject(fs[1]) =>
              members' = With(members, fs[1].name, v)
         /\ ~(Len(fs) = 1 /\ IsObject(fs[1])) => members' = members
<1>1. \A f : IsArray(f) => f.type # "{"
  BY DEF IsArray
<1>. QED  BY <1>1 DEF Complete, IsObject, With

-----------------------------------------------------------------------------
(* Every move keeps what is kept of a text.                                  *)

\* As many calls as the text is deep, and none before its first token.
LEMMA DepthNow ==
  ASSUME TextMatch, NEW t, NEW n, GrownBy(t, n)
  PROVE  /\ n = Len(input) /\ n \in Nat /\ Len(input') = n + 1
         /\ IsSeq(frames) /\ Len(frames) \in Nat /\ Depth(n) = Len(frames)
         /\ frames = <<>> <=> Len(frames) = 0
         /\ frames # <<>> => n # 0 /\ input # <<>>
<1>1. n = Len(input) /\ n \in Nat /\ Len(input') = n + 1 /\ (n = 0 <=> input = <<>>)
  BY DEF GrownBy
<1>2. IsSeq(frames) /\ Depth(n) = Len(frames)
  BY <1>1 DEF TextMatch, Stacked
<1>3. frames # <<>> => n # 0
  <2>1. Where
    BY DEF TextMatch
  <2>. QED  BY <1>1, <2>1 DEF Where, NoColon, AfterColon
<1>. QED  BY <1>1, <1>2, <1>3, EmptyIsSeq

\* The depth is that of the calls that there are now.
LEMMA StackedNow ==
  ASSUME NEW t, NEW n, GrownBy(t, n), IsSeq(frames'),
         Len(frames') = Depth(n + 1)',
         \A k \in 1 .. Len(frames') : IsObject(frames'[k]) \/ IsArray(frames'[k])
  PROVE  Stacked'
<1>1. Len(input') = n + 1
  BY DEF GrownBy
<1>2. Depth(Len(input))' = Depth(n + 1)'
  BY <1>1
<1>. QED  BY <1>2 DEF Stacked

\* No colon is the last token.
LEMMA NoColonNow ==
  ASSUME NEW t, NEW n, GrownBy(t, n), t.type # ":"  PROVE NoColon'
BY DEF GrownBy, NoColon

\* Unless a member of the outermost object is begun, the places stay.
LEMMA PlacesStay ==
  ASSUME TextMatch, NEW t, NEW n, GrownBy(t, n), AfterColon => Len(frames) # 1
  PROVE  Places' = Places
<1>1. n = Len(input) /\ n \in Nat /\ Depth(n) = Len(frames) /\ (n = 0 <=> input = <<>>)
  BY DepthNow DEF GrownBy
<1>2. Where
  BY DEF TextMatch
<1>3. CASE AfterColon
  BY <1>1, <1>3, PlacesGrow DEF AfterColon
<1>4. CASE NoColon \/ input = <<>>
  BY <1>1, <1>4, PlacesGrow DEF NoColon
<1>. QED  BY <1>2, <1>3, <1>4 DEF Where

\* What was read stays what was read.
LEMMA OuterStays ==
  ASSUME NEW t, NEW n, GrownBy(t, n), Places' = Places, members' = members,
         Settled(members, input, Places)
  PROVE  Settled(members, input, Places)'
<1>1. \A i \in Places : input'[i] = input[i] /\ input'[i + 2] = input[i + 2]
  BY PlacesGrow DEF GrownBy
<1>2. Settled(members, input', Places)
  BY <1>1, SettledStays
<1>. QED  BY <1>2

\* The member to come stays the one to come.
LEMMA PendingStays ==
  ASSUME NEW t, NEW n, GrownBy(t, n), Places' = Places, members' = members,
         NEW p \in Places, Pending(p),
         frames'[1].name = frames[1].name, frames'[2].type = frames[2].type
  PROVE  Pending(p)'
<1>1. \A i \in Places : input'[i] = input[i] /\ input'[i + 2] = input[i + 2]
  BY PlacesGrow DEF GrownBy
<1>2. \A i \in Places \ {p} : input'[i] = input[i] /\ input'[i + 2] = input[i + 2]
  BY <1>1
<1>3. Settled(members, input, Places \ {p})
  BY DEF Pending
<1>4. Settled(members, input', Places \ {p})
  BY <1>2, <1>3, SettledStays
<1>5. /\ \A i \in Places : i <= p
      /\ input[p] = String(frames[1].name) /\ input[p + 2].type = frames[2].type
  BY DEF Pending
<1>6. /\ input'[p] = String(frames'[1].name) /\ input'[p + 2].type = frames'[2].type
  BY <1>1, <1>5
<1>. QED  BY <1>4, <1>5, <1>6 DEF Pending

\* Where nothing of the outermost object changes, what was read of it stays.
LEMMA ReadStays ==
  ASSUME TextMatch, NEW t, NEW n, GrownBy(t, n), n > 0, Places' = Places, members' = members,
         Len(frames') > 1 =>
           Len(frames) > 1 /\ frames'[1].name = frames[1].name /\ frames'[2].type = frames[2].type,
         Len(frames') <= 1 => Len(frames) <= 1
  PROVE  NoMembers' /\ OuterRead' /\ InnerRead'
<1>1. input # <<>> /\ input' # <<>> /\ input'[1] = input[1]
  BY DEF GrownBy
<1>2. NoMembers'
  BY <1>1 DEF TextMatch, NoMembers
<1>3. ASSUME IsObject(input'[1]), Len(frames') <= 1
      PROVE  Settled(members, input, Places)'
  <2>1. Settled(members, input, Places)
    BY <1>1, <1>3 DEF TextMatch, OuterRead
  <2>. QED  BY <2>1, OuterStays
<1>4. ASSUME IsObject(input'[1]), Len(frames') > 1
      PROVE  \E p \in Places' : Pending(p)'
  <2>1. PICK p \in Places : Pending(p)
    BY <1>1, <1>4 DEF TextMatch, InnerRead
  <2>2. Pending(p)'
    BY <1>4, <2>1, PendingStays
  <2>. QED  BY <2>1, <2>2
<1>. QED  BY <1>2, <1>3, <1>4 DEF OuterRead, InnerRead

\* A colon leaves the value of the member to come (jsoncpp.cpp 708).
LEMMA ColonKeeps ==
  ASSUME TextMatch, NEW t, NEW n, GrownBy(t, n), ColonMove(t)
  PROVE  TextMatch'
<1>1. /\ at = "colon" /\ t.type = ":" /\ at' = "value" /\ frames' = frames
      /\ value' = value /\ members' = members
  BY DEF ColonMove
<1>2. NoColon /\ InObject /\ input[Len(input)] = String(Top.name)
  BY <1>1 DEF TextMatch, Where
<1>3. /\ n = Len(input) /\ n \in Nat /\ n # 0 /\ Len(input') = n + 1
      /\ Depth(n) = Len(frames) /\ IsSeq(frames)
  BY <1>2, DepthNow DEF InObject
<1>4. /\ ~Opens(t) /\ ~Closes(t)
  BY <1>1 DEF Opens, Closes
<1>5. /\ Depth(n + 1)' = Len(frames) /\ Depth(n)' = Len(frames)
      /\ input'[n] = input[n] /\ input'[n + 1] = t
  BY <1>3, <1>4 DEF GrownBy
<1>6. Where'
  <2>1. Len(input') - 1 = n /\ Len(input') >= 2
    BY <1>3
  <2>2. Depth(Len(input) - 1)' = Depth(n)'
    BY <2>1
  <2>3. AfterColon'
    BY <1>1, <1>2, <1>3, <1>5, <2>1, <2>2 DEF AfterColon, Top
  <2>4. InObject'
    BY <1>1, <1>2 DEF InObject, Top
  <2>. QED  BY <1>1, <2>3, <2>4 DEF Where
<1>7. Stacked'
  BY <1>1, <1>3, <1>5, StackedNow DEF TextMatch, Stacked
<1>8. Begun'
  BY <1>1, <1>3 DEF TextMatch, Begun, GrownBy
<1>9. Places' = Places
  BY <1>2, PlacesStay DEF AfterColon, NoColon
<1>10. NoMembers' /\ OuterRead' /\ InnerRead'
  BY <1>1, <1>3, <1>9, ReadStays
<1>. QED  BY <1>6, <1>7, <1>8, <1>10 DEF TextMatch

\* A comma leaves a name, or an item, to come (jsoncpp.cpp 720, 762).
LEMMA CommaKeeps ==
  ASSUME TextMatch, NEW t, NEW n, GrownBy(t, n), CommaMove(t)
  PROVE  TextMatch'
<1>1. /\ \/ at = "item" /\ at' = "value"
         \/ at = "comma" /\ at' = "name"
      /\ frames' = frames /\ value' = value /\ members' = members
  BY DEF CommaMove
<1>2. ~Opens(t) /\ ~Closes(t) /\ t.type # ":"
  BY DEF CommaMove, Flat
<1>3. /\ NoColon
      /\ at = "item" => InArray
      /\ at = "comma" => InObject
  BY <1>1 DEF TextMatch, Where
<1>4. /\ n = Len(input) /\ n \in Nat /\ n # 0 /\ Len(input') = n + 1
      /\ Depth(n) = Len(frames) /\ IsSeq(frames)
  BY <1>1, <1>3, DepthNow DEF InObject, InArray
<1>5. Depth(n + 1)' = Len(frames)
  BY <1>2, <1>4 DEF GrownBy
<1>6. Where'
  <2>1. NoColon'
    BY <1>2, NoColonNow
  <2>2. (InArray => InArray') /\ (InObject => InObject')
    BY <1>1 DEF InObject, InArray, Top
  <2>. QED  BY <1>1, <1>3, <2>1, <2>2 DEF Where
<1>7. Stacked'
  BY <1>1, <1>4, <1>5, StackedNow DEF TextMatch, Stacked
<1>8. Begun'
  BY <1>1, <1>4 DEF TextMatch, Begun, GrownBy
<1>9. Places' = Places
  BY <1>3, PlacesStay DEF AfterColon, NoColon
<1>10. NoMembers' /\ OuterRead' /\ InnerRead'
  BY <1>1, <1>4, <1>9, ReadStays
<1>. QED  BY <1>6, <1>7, <1>8, <1>10 DEF TextMatch

\* The one token after the value is not looked at (jsoncpp.cpp 365).
LEMMA RootKeeps ==
  ASSUME TextMatch, RootMove
  PROVE  TextMatch'
<1>1. /\ at = "root" /\ at' \in {"root", "parsed"} /\ frames' = frames /\ input' = input
      /\ value' = value /\ members' = members
  BY DEF RootMove
<1>2. NoColon /\ frames = <<>>
  BY <1>1 DEF TextMatch, Where
<1>3. Where'
  BY <1>1, <1>2 DEF Where, NoColon
<1>4. Depth(Len(input))' = Depth(Len(input)) /\ Places' = Places
  BY <1>1 DEF Depth, Places
<1>5. Stacked'
  BY <1>1, <1>4 DEF TextMatch, Stacked
<1>6. Begun' /\ NoMembers'
  BY <1>1 DEF TextMatch, Begun, NoMembers
<1>7. OuterRead' /\ InnerRead'
  BY <1>1, <1>4 DEF TextMatch, OuterRead, InnerRead, Pending
<1>. QED  BY <1>3, <1>5, <1>6, <1>7 DEF TextMatch

\* A name is kept by the innermost call.
LEMMA NameKeeps ==
  ASSUME TextMatch, NEW t, NEW n, GrownBy(t, n), NameMove(t)
  PROVE  TextMatch'
<1>. DEFINE L == Len(frames)
<1>1. /\ at = "name" /\ at' = "colon" /\ t = String(t.text) /\ value' = value
      /\ members' = members /\ frames' = Append(Pop, Object(t.text))
  BY DEF NameMove
<1>2. ~Opens(t) /\ ~Closes(t) /\ t.type # ":"
  BY DEF NameMove, Flat
<1>3. NoColon /\ InObject
  BY <1>1 DEF TextMatch, Where
<1>4. /\ n = Len(input) /\ n \in Nat /\ n # 0 /\ Len(input') = n + 1
      /\ Depth(n) = L /\ IsSeq(frames) /\ frames # <<>>
  BY <1>3, DepthNow DEF InObject
<1>5. Depth(n + 1)' = L /\ input'[n + 1] = t
  BY <1>2, <1>4 DEF GrownBy
<1>6. /\ IsSeq(Pop) /\ L \in Nat \ {0} /\ Len(Pop) = L - 1
      /\ \A i \in 1 .. L - 1 : Pop[i] = frames[i]
  BY <1>4, FrontFalls DEF Pop
<1>7. Grown(Pop, Object(t.text), frames')
  BY <1>1, <1>6, AppendGrows
<1>8. /\ IsSeq(frames') /\ Len(frames') = L /\ frames'[L] = Object(t.text) /\ frames' # <<>>
      /\ \A i \in 1 .. L - 1 : frames'[i] = frames[i]
  BY <1>6, <1>7 DEF Grown
<1>9. IsObject(Object(t.text)) /\ Object(t.text).name = t.text
  BY DEF IsObject, Object
<1>10. Top = frames[L] /\ Top' = Object(t.text)
  BY <1>8 DEF Top, Last
<1>11. Object(t.text).type = Top.type
  BY <1>3, <1>9 DEF InObject, IsObject
<1>12. \A i \in 1 .. L : frames'[i].type = frames[i].type
  BY <1>6, <1>8, <1>10, <1>11
<1>13. Where'
  <2>1. NoColon'
    BY <1>2, NoColonNow
  <2>2. InObject'
    BY <1>8, <1>9, <1>10 DEF InObject
  <2>3. (input[Len(input)] = String(Top.name))'
    BY <1>1, <1>4, <1>5, <1>9, <1>10
  <2>. QED  BY <1>1, <2>1, <2>2, <2>3 DEF Where
<1>14. Stacked'
  <2>1. \A k \in 1 .. Len(frames') : IsObject(frames'[k]) \/ IsArray(frames'[k])
    <3>1. \A k \in 1 .. L : IsObject(frames[k]) \/ IsArray(frames[k])
      BY DEF TextMatch, Stacked
    <3>2. ASSUME NEW k \in 1 .. L  PROVE IsObject(frames'[k]) \/ IsArray(frames'[k])
      <4>1. frames'[k].type = frames[k].type
        BY <1>12
      <4>2. IsObject(frames[k]) \/ IsArray(frames[k])
        BY <3>1
      <4>. QED  BY <4>1, <4>2 DEF IsObject, IsArray
    <3>. QED  BY <1>8, <3>2
  <2>. QED  BY <1>5, <1>8, <2>1, StackedNow
<1>15. Begun'
  <2>1. frames'[1].type = frames[1].type
    BY <1>6, <1>12
  <2>. QED  BY <1>4, <1>8, <2>1 DEF TextMatch, Begun, GrownBy
<1>16. Places' = Places
  BY <1>3, PlacesStay DEF AfterColon, NoColon
<1>17. NoMembers' /\ OuterRead' /\ InnerRead'
  <2>1. L > 1 => frames'[1] = frames[1] /\ frames'[2].type = frames[2].type
    BY <1>6, <1>8, <1>12
  <2>. QED  BY <1>1, <1>4, <1>8, <1>16, <2>1, ReadStays
<1>. QED  BY <1>13, <1>14, <1>15, <1>17 DEF TextMatch

\* Where a value is begun.
LEMMA ValueAt ==
  ASSUME TextMatch, NEW t, NEW n, GrownBy(t, n), at \in {"value", "first"}
  PROVE  \/ n = 0 /\ frames = <<>>
         \/ n # 0 /\ InArray /\ NoColon
         \/ n # 0 /\ InObject /\ AfterColon
<1>1. Where
  BY DEF TextMatch
<1>2. n = 0 <=> input = <<>>
  BY DEF GrownBy
<1>3. InArray \/ InObject => n # 0
  BY DepthNow DEF InArray, InObject
<1>. QED  BY <1>1, <1>2, <1>3 DEF Where

\* Where the reader goes on behind a value.
LEMMA GoesOn ==
  ASSUME NEW fs, NEW v, Complete(fs, v), NoColon',
         fs # <<>> => IsObject(Last(fs)) \/ IsArray(Last(fs))
  PROVE  Where'
<1>1. frames' = fs
  BY CompleteIs
<1>2. CASE fs = <<>>
  <2>1. at' = "root"
    BY <1>2, CompleteIs
  <2>. QED  BY <1>1, <1>2, <2>1 DEF Where
<1>3. CASE fs # <<>> /\ IsObject(Last(fs))
  <2>1. at' = "comma"
    BY <1>3, CompleteIs
  <2>2. InObject'
    BY <1>1, <1>3 DEF InObject, Top
  <2>. QED  BY <2>1, <2>2 DEF Where
<1>4. CASE fs # <<>> /\ IsArray(Last(fs))
  <2>1. at' = "item"
    BY <1>4, CompleteIs
  <2>2. InArray'
    BY <1>1, <1>4 DEF InArray, Top
  <2>. QED  BY <2>1, <2>2 DEF Where
<1>. QED  BY <1>2, <1>3, <1>4

\* A number, a word or a string is the value, or one of an array or a member.
LEMMA ScalarKeeps ==
  ASSUME TextMatch, NEW t, NEW n, GrownBy(t, n), ScalarMove(t)
  PROVE  TextMatch'
<1>. DEFINE L == Len(frames)
<1>1. at \in {"value", "first"} /\ Complete(frames, t)
  BY DEF ScalarMove
<1>2. ~Opens(t) /\ ~Closes(t) /\ t.type # ":"
  BY DEF ScalarMove, Flat
<1>3. \/ n = 0 /\ frames = <<>>
      \/ n # 0 /\ InArray /\ NoColon
      \/ n # 0 /\ InObject /\ AfterColon
  BY <1>1, ValueAt
<1>4. /\ n = Len(input) /\ n \in Nat /\ Len(input') = n + 1
      /\ Depth(n) = L /\ IsSeq(frames) /\ L \in Nat /\ (frames = <<>> <=> L = 0)
      /\ frames # <<>> => n # 0
  BY DepthNow
<1>5. /\ Depth(n + 1)' = L /\ input'[n + 1] = t /\ input' # <<>>
      /\ \A i \in 1 .. n : input'[i] = input[i]
  BY <1>2, <1>4 DEF GrownBy
<1>6. /\ frames' = frames
      /\ frames = <<>> => value' = t
      /\ L = 1 /\ IsObject(frames[1]) =>
           members' = With(members, frames[1].name, t)
      /\ ~(L = 1 /\ IsObject(frames[1])) => members' = members
  BY <1>1, CompleteIs
<1>7. Where'
  <2>1. NoColon'
    BY <1>2, NoColonNow
  <2>2. frames # <<>> => IsObject(Last(frames)) \/ IsArray(Last(frames))
    BY <1>3 DEF InArray, InObject, Top
  <2>. QED  BY <1>1, <2>1, <2>2, GoesOn
<1>8. Stacked'
  BY <1>4, <1>5, <1>6, StackedNow DEF TextMatch, Stacked
<1>9. Begun'
  <2>1. CASE n = 0
    BY <1>3, <1>5, <1>6, <2>1 DEF Begun
  <2>2. CASE n # 0
    <3>1. input # <<>> /\ frames # <<>> /\ input'[1] = input[1]
      BY <1>3, <1>4, <1>5, <2>2 DEF GrownBy, InArray, InObject
    <3>. QED  BY <1>6, <3>1 DEF TextMatch, Begun
  <2>. QED  BY <2>1, <2>2
<1>10. CASE n = 0
  <2>1. input'[1] = t /\ ~IsObject(t)
    <3>1. ~IsObject(t)
      BY <1>2 DEF Opens, IsObject
    <3>. QED  BY <1>5, <1>10, <3>1
  <2>2. members' = members /\ members = <<>>
    BY <1>3, <1>4, <1>6, <1>10 DEF TextMatch, NoMembers, GrownBy
  <2>. QED  BY <1>7, <1>8, <1>9, <2>1, <2>2 DEF TextMatch, NoMembers, OuterRead, InnerRead
<1>11. CASE n # 0 /\ L = 1 /\ IsObject(frames[1])
  <2>1. input # <<>> /\ frames # <<>> /\ input'[1] = input[1] /\ frames[1].type = input[1].type
    BY <1>4, <1>5, <1>11 DEF TextMatch, Begun, GrownBy
  <2>2. IsObject(input[1]) /\ Top = frames[1] /\ ~InArray
    BY <1>4, <1>11, <2>1, Types3 DEF IsObject, Top, Last, InArray
  <2>3. n >= 2 /\ input[n].type = ":" /\ input[n - 1] = String(frames[1].name) /\ Depth(n - 1) = 1
    BY <1>3, <1>4, <1>11, <2>2 DEF AfterColon
  <2>4. Places' = Places \cup {n - 1} /\ \A i \in Places : i \in 1 .. n /\ i + 2 \in 1 .. n
    BY <2>3, PlacesGrow
  <2>5. Settled(members, input, Places)
    BY <1>4, <1>11, <2>1, <2>2 DEF TextMatch, OuterRead
  <2>6. Settled(members, input', Places)
    <3>1. \A i \in Places : input'[i] = input[i] /\ input'[i + 2] = input[i + 2]
      BY <1>5, <2>4
    <3>. QED  BY <2>5, <3>1, SettledStays
  <2>7. /\ n - 1 \in Nat /\ input'[n - 1] = String(frames[1].name) /\ input'[(n - 1) + 2] = t
        /\ \A i \in Places : i \in Nat /\ i < n - 1
    BY <1>4, <1>5, <2>3, <2>4
  <2>8. Fits(t, input'[(n - 1) + 2])
    BY <2>7 DEF Fits
  <2>9. Settled(members', input', Places \cup {n - 1})
    <3>1. Settled(With(members, frames[1].name, t), input', Places \cup {n - 1})
      BY <2>6, <2>7, <2>8, SettledOneMore
    <3>. QED  BY <1>6, <1>11, <3>1
  <2>10. OuterRead'
    BY <2>4, <2>9 DEF OuterRead
  <2>11. NoMembers' /\ InnerRead'
    BY <1>5, <1>6, <1>11, <2>1, <2>2 DEF NoMembers, InnerRead
  <2>. QED  BY <1>7, <1>8, <1>9, <2>10, <2>11 DEF TextMatch
<1>12. CASE n # 0 /\ ~(L = 1 /\ IsObject(frames[1]))
  <2>1. AfterColon => L # 1
    <3>1. AfterColon => InObject
      BY <1>3, <1>4, <1>12 DEF AfterColon, NoColon
    <3>2. InObject /\ L = 1 => IsObject(frames[1])
      BY DEF InObject, Top, Last
    <3>. QED  BY <1>12, <3>1, <3>2
  <2>2. Places' = Places
    BY <2>1, PlacesStay
  <2>3. n > 0
    BY <1>4, <1>12
  <2>4. NoMembers' /\ OuterRead' /\ InnerRead'
    BY <1>6, <1>12, <2>2, <2>3, ReadStays
  <2>. QED  BY <1>7, <1>8, <1>9, <2>4 DEF TextMatch
<1>. QED  BY <1>10, <1>11, <1>12

\* An object or an array is begun: the value, or one of an array or a member.
LEMMA OpenKeeps ==
  ASSUME TextMatch, NEW t, NEW n, GrownBy(t, n), OpenMove(t)
  PROVE  TextMatch'
<1>. DEFINE L == Len(frames)
<1>1. PICK f : f.type = t.type /\ frames' = Append(frames, f)
  BY DEF OpenMove
<1>2. /\ at \in {"value", "first"} /\ Opens(t) /\ value' = value /\ members' = members
      /\ \/ IsObject(t) /\ at' = "name"
         \/ IsArray(t) /\ at' = "first"
  BY DEF OpenMove
<1>3. ~Closes(t) /\ t.type # ":" /\ (IsObject(f) <=> IsObject(t)) /\ (IsArray(f) <=> IsArray(t))
  <2>1. ~Closes(t)
    BY <1>2, Types3
  <2>2. t.type # ":"
    BY <1>2 DEF Opens
  <2>3. (IsObject(f) <=> IsObject(t)) /\ (IsArray(f) <=> IsArray(t))
    BY <1>1 DEF IsObject, IsArray
  <2>. QED  BY <2>1, <2>2, <2>3
<1>4. \/ n = 0 /\ frames = <<>>
      \/ n # 0 /\ frames # <<>> /\ InArray /\ NoColon
      \/ n # 0 /\ frames # <<>> /\ InObject /\ AfterColon
  BY <1>2, ValueAt DEF InArray, InObject
<1>5. /\ n = Len(input) /\ n \in Nat /\ Len(input') = n + 1
      /\ Depth(n) = L /\ IsSeq(frames) /\ L \in Nat /\ (frames = <<>> <=> L = 0)
      /\ (n = 0 <=> input = <<>>)
  BY DepthNow DEF GrownBy
<1>6. /\ Depth(n + 1)' = L + 1 /\ input'[n + 1] = t /\ input' # <<>>
      /\ \A i \in 1 .. n : input'[i] = input[i]
  BY <1>2, <1>3, <1>5 DEF GrownBy
<1>7. /\ IsSeq(frames') /\ Len(frames') = L + 1 /\ frames'[L + 1] = f /\ frames' # <<>>
      /\ \A i \in 1 .. L : frames'[i] = frames[i]
  BY <1>1, <1>5, AppendGrows DEF Grown
<1>8. Top' = f
  BY <1>7 DEF Top, Last
<1>9. Where'
  <2>1. NoColon'
    BY <1>3, NoColonNow
  <2>2. (IsObject(t) => InObject') /\ (IsArray(t) => InArray')
    BY <1>3, <1>7, <1>8 DEF InObject, InArray
  <2>. QED  BY <1>2, <2>1, <2>2 DEF Where
<1>10. Stacked'
  <2>1. IsObject(f) \/ IsArray(f)
    BY <1>2, <1>3
  <2>2. \A k \in 1 .. L : IsObject(frames[k]) \/ IsArray(frames[k])
    BY DEF TextMatch, Stacked
  <2>3. \A k \in 1 .. L + 1 : frames'[k] = f \/ (k \in 1 .. L /\ frames'[k] = frames[k])
    BY <1>5, <1>7
  <2>4. \A k \in 1 .. L + 1 : IsObject(frames'[k]) \/ IsArray(frames'[k])
    BY <2>1, <2>2, <2>3
  <2>. QED  BY <1>6, <1>7, <2>4, StackedNow
<1>11. Begun'
  <2>1. CASE n = 0
    BY <1>1, <1>4, <1>5, <1>6, <1>7, <2>1 DEF Begun
  <2>2. CASE n # 0
    <3>1. input'[1] = input[1] /\ frames'[1] = frames[1]
      BY <1>4, <1>5, <1>6, <1>7, <2>2
    <3>. QED  BY <1>4, <1>5, <1>7, <2>2, <3>1 DEF TextMatch, Begun
  <2>. QED  BY <2>1, <2>2
<1>12. CASE n = 0
  <2>1. members' = <<>>
    BY <1>2, <1>5, <1>12 DEF TextMatch, NoMembers
  <2>2. Places' = {}
    BY <1>12, PlacesGrow
  <2>3. DOMAIN <<>> = {}
    OBVIOUS
  <2>4. Settled(members', input', Places')
    BY <2>1, <2>2, <2>3 DEF Settled
  <2>5. Len(frames') = 1
    BY <1>4, <1>5, <1>7, <1>12
  <2>6. NoMembers' /\ OuterRead' /\ InnerRead'
    BY <2>1, <2>4, <2>5 DEF NoMembers, OuterRead, InnerRead
  <2>. QED  BY <1>9, <1>10, <1>11, <2>6 DEF TextMatch
<1>13. CASE n # 0 /\ L # 1
  <2>1. Places' = Places
    BY <1>13, PlacesStay
  <2>2. L > 1 /\ n > 0 /\ frames'[1] = frames[1] /\ frames'[2] = frames[2]
    BY <1>4, <1>5, <1>7, <1>13
  <2>3. NoMembers' /\ OuterRead' /\ InnerRead'
    BY <1>2, <1>5, <1>7, <2>1, <2>2, ReadStays
  <2>. QED  BY <1>9, <1>10, <1>11, <2>3 DEF TextMatch
<1>14. CASE n # 0 /\ L = 1
  <2>1. /\ input # <<>> /\ frames # <<>> /\ input'[1] = input[1] /\ frames'[1] = frames[1]
        /\ frames'[2] = f /\ Len(frames') = 2
    BY <1>4, <1>5, <1>6, <1>7, <1>14
  <2>2. frames[1].type = input[1].type /\ Top = frames[1]
    BY <1>14, <2>1 DEF TextMatch, Begun, Top, Last
  <2>3. CASE IsObject(input[1])
    <3>1. IsObject(frames[1]) /\ ~InArray
      BY <2>2, <2>3, Types3 DEF IsObject, InArray
    <3>2. n >= 2 /\ input[n].type = ":" /\ input[n - 1] = String(frames[1].name) /\ Depth(n - 1) = 1
      BY <1>4, <1>5, <1>14, <2>2, <3>1 DEF AfterColon
    <3>3. Places' = Places \cup {n - 1} /\ \A i \in Places : i \in 1 .. n /\ i + 2 \in 1 .. n
      BY <3>2, PlacesGrow
    <3>4. Settled(members, input, Places)
      BY <1>14, <2>1, <2>3 DEF TextMatch, OuterRead
    <3>5. Settled(members, input', Places)
      <4>1. \A i \in Places : input'[i] = input[i] /\ input'[i + 2] = input[i + 2]
        BY <1>6, <3>3
      <4>. QED  BY <3>4, <4>1, SettledStays
    <3>6. /\ n - 1 \in Nat /\ input'[n - 1] = String(frames[1].name) /\ input'[(n - 1) + 2] = t
          /\ \A i \in Places : i \in Nat /\ i < n - 1
      BY <1>5, <1>6, <3>2, <3>3
    <3>7. Places' \ {n - 1} = Places /\ \A i \in Places' : i <= n - 1
      BY <3>3, <3>6
    <3>8. Pending(n - 1)'
      <4>1. PICK p : p = n - 1
        OBVIOUS
      <4>2. /\ \A i \in Places' : i <= p
            /\ input'[p] = String(frames'[1].name) /\ input'[p + 2].type = frames'[2].type
            /\ Settled(members', input', Places' \ {p})
        BY <1>1, <1>2, <2>1, <3>5, <3>6, <3>7, <4>1
      <4>3. Pending(p)'
        BY <4>2 DEF Pending
      <4>. QED  BY <4>1, <4>3
    <3>9. NoMembers' /\ OuterRead' /\ InnerRead'
      <4>1. \E p \in Places' : Pending(p)'
        <5>1. PICK p : p = n - 1
          OBVIOUS
        <5>. QED  BY <3>3, <3>8, <5>1
      <4>2. NoMembers' /\ OuterRead'
        BY <1>6, <2>1, <2>3 DEF NoMembers, OuterRead
      <4>. QED  BY <4>1, <4>2 DEF InnerRead
    <3>. QED  BY <1>9, <1>10, <1>11, <3>9 DEF TextMatch
  <2>4. CASE ~IsObject(input[1])
    <3>1. NoMembers' /\ OuterRead' /\ InnerRead'
      BY <1>2, <2>1, <2>4 DEF TextMatch, NoMembers, OuterRead, InnerRead
    <3>. QED  BY <1>9, <1>10, <1>11, <3>1 DEF TextMatch
  <2>. QED  BY <2>3, <2>4
<1>. QED  BY <1>12, <1>13, <1>14

\* An object or an array is ended: the value, or one of an array or a member.
LEMMA CloseKeeps ==
  ASSUME TextMatch, NEW t, NEW n, GrownBy(t, n), CloseMove(t)
  PROVE  TextMatch'
<1>. DEFINE L == Len(frames)
<1>1. PICK v : v.type = Top.type /\ v.type # "string" /\ Complete(Pop, v)
  BY DEF CloseMove
<1>2. at \in {"first", "item", "name", "comma"} /\ Closes(t)
  BY DEF CloseMove
<1>3. ~Opens(t) /\ t.type # ":"
  <2>1. ~Opens(t)
    BY <1>2, Types3
  <2>2. t.type # ":"
    BY <1>2 DEF Closes
  <2>. QED  BY <2>1, <2>2
<1>4. NoColon /\ (InArray \/ InObject)
  BY <1>2 DEF TextMatch, Where
<1>5. /\ n = Len(input) /\ n \in Nat /\ Len(input') = n + 1 /\ n > 0
      /\ Depth(n) = L /\ IsSeq(frames) /\ frames # <<>>
      /\ input # <<>>
  BY <1>4, DepthNow DEF GrownBy, InArray, InObject
<1>6. /\ IsSeq(Pop) /\ L \in Nat \ {0} /\ Len(Pop) = L - 1
      /\ \A i \in 1 .. L - 1 : Pop[i] = frames[i]
  BY <1>5, FrontFalls DEF Pop
<1>7. /\ Depth(n + 1)' = L - 1 /\ input'[n + 1] = t /\ input' # <<>>
      /\ \A i \in 1 .. n : input'[i] = input[i]
  BY <1>2, <1>3, <1>5 DEF GrownBy
<1>8. /\ frames' = Pop
      /\ Pop = <<>> => value' = v
      /\ Len(Pop) = 1 /\ IsObject(Pop[1]) => members' = With(members, Pop[1].name, v)
      /\ ~(Len(Pop) = 1 /\ IsObject(Pop[1])) => members' = members
  BY <1>1, CompleteIs
<1>9. \A k \in 1 .. L : IsObject(frames[k]) \/ IsArray(frames[k])
  BY DEF TextMatch, Stacked
<1>10. Pop = <<>> <=> L = 1
  BY <1>6, EmptyIsSeq
<1>11. Where'
  <2>1. NoColon'
    BY <1>3, NoColonNow
  <2>2. Pop # <<>> => IsObject(Last(Pop)) \/ IsArray(Last(Pop))
    <3>1. Pop # <<>> => L - 1 \in 1 .. L /\ Last(Pop) = frames[L - 1]
      BY <1>6, <1>10 DEF Last
    <3>. QED  BY <1>9, <3>1
  <2>. QED  BY <1>1, <2>1, <2>2, GoesOn
<1>12. Stacked'
  <2>1. \A k \in 1 .. L - 1 : IsObject(Pop[k]) \/ IsArray(Pop[k])
    BY <1>6, <1>9
  <2>. QED  BY <1>6, <1>7, <1>8, <2>1, StackedNow
<1>13. input'[1] = input[1] /\ frames[1].type = input[1].type
  BY <1>5, <1>7 DEF TextMatch, Begun
<1>14. Begun'
  <2>1. CASE L = 1
    <3>1. Top = frames[1]
      BY <2>1 DEF Top, Last
    <3>. QED  BY <1>1, <1>8, <1>10, <1>13, <2>1, <3>1 DEF Begun
  <2>2. CASE L # 1
    <3>1. frames'[1] = frames[1] /\ frames' # <<>>
      BY <1>6, <1>8, <1>10, <2>2
    <3>. QED  BY <1>13, <3>1 DEF Begun
  <2>. QED  BY <2>1, <2>2
<1>15. Places' = Places
  BY <1>4, PlacesStay DEF AfterColon, NoColon
<1>16. CASE L # 2
  <2>1. /\ members' = members
        /\ Len(frames') > 1 => L > 1 /\ frames'[1] = frames[1] /\ frames'[2] = frames[2]
        /\ Len(frames') <= 1 => L <= 1
    BY <1>6, <1>8, <1>16
  <2>2. NoMembers' /\ OuterRead' /\ InnerRead'
    BY <1>5, <1>15, <2>1, ReadStays
  <2>. QED  BY <1>11, <1>12, <1>14, <2>2 DEF TextMatch
<1>17. CASE L = 2 /\ IsObject(frames[1])
  <2>1. Pop[1] = frames[1] /\ Len(Pop) = 1 /\ Top = frames[2]
    BY <1>6, <1>17 DEF Top, Last
  <2>2. IsObject(input[1])
    BY <1>13, <1>17 DEF IsObject
  <2>3. PICK p \in Places : Pending(p)
    BY <1>5, <1>17, <2>2 DEF TextMatch, InnerRead
  <2>4. \A i \in Places : i \in 1 .. n /\ i + 2 \in 1 .. n
    BY PlacesGrow
  <2>5. \A i \in Places : input'[i] = input[i] /\ input'[i + 2] = input[i + 2]
    BY <1>7, <2>4
  <2>6. /\ \A i \in Places : i <= p
        /\ input'[p] = String(frames[1].name) /\ input'[p + 2].type = frames[2].type
        /\ Settled(members, input, Places \ {p})
    BY <2>3, <2>5 DEF Pending
  <2>7. Settled(members, input', Places \ {p})
    <3>1. \A i \in Places \ {p} : input'[i] = input[i] /\ input'[i + 2] = input[i + 2]
      BY <2>5
    <3>. QED  BY <2>6, <3>1, SettledStays
  <2>8. Fits(v, input'[p + 2])
    BY <1>1, <2>1, <2>6 DEF Fits
  <2>9. p \in Nat /\ \A i \in Places \ {p} : i \in Nat /\ i < p
    BY <1>5, <2>4, <2>6
  <2>10. Settled(With(members, frames[1].name, v), input', (Places \ {p}) \cup {p})
    BY <2>6, <2>7, <2>8, <2>9, SettledOneMore
  <2>11. (Places \ {p}) \cup {p} = Places
    OBVIOUS
  <2>12. Settled(members', input', Places')
    BY <1>8, <1>15, <1>17, <2>1, <2>10, <2>11
  <2>13. NoMembers' /\ OuterRead' /\ InnerRead'
    BY <1>7, <1>8, <1>13, <2>1, <2>2, <2>12 DEF NoMembers, OuterRead, InnerRead
  <2>. QED  BY <1>11, <1>12, <1>14, <2>13 DEF TextMatch
<1>18. CASE L = 2 /\ ~IsObject(frames[1])
  <2>1. Pop[1] = frames[1] /\ members' = members
    BY <1>6, <1>8, <1>18
  <2>2. ~IsObject(input[1])
    BY <1>13, <1>18 DEF IsObject
  <2>3. NoMembers' /\ OuterRead' /\ InnerRead'
    BY <1>13, <2>1, <2>2 DEF TextMatch, NoMembers, OuterRead, InnerRead
  <2>. QED  BY <1>11, <1>12, <1>14, <2>3 DEF TextMatch
<1>. QED  BY <1>16, <1>17, <1>18

\* Every token that leaves an ordinary text without an error keeps what is kept of it.
LEMMA TextKept ==
  ASSUME RestOK, IsSeq(input), errors \in Nat, ReadToken,
         errors' = 0, Ordinary', at' # "thrown",
         errors = 0 /\ Ordinary /\ at # "thrown" => TextMatch
  PROVE  TextMatch'
<1>1. errors = 0 /\ at # "thrown"
  <2>1. errors = 0
    BY ErrorsCounted
  <2>2. at # "thrown"
    BY DEF ReadToken
  <2>. QED  BY <2>1, <2>2
<1>2. Ordinary => Where
  BY <1>1 DEF TextMatch
<1>3. /\ Where /\ Ordinary
      /\ \/ RootMove
         \/ \E t : /\ IsToken(t) /\ input' = Append(input, t)
                   /\ \/ ScalarMove(t) \/ OpenMove(t) \/ CloseMove(t)
                      \/ NameMove(t) \/ ColonMove(t) \/ CommaMove(t)
  BY <1>1, <1>2, Moves
<1>4. TextMatch
  BY <1>1, <1>3
<1>5. CASE RootMove
  BY <1>4, <1>5, RootKeeps
<1>6. ASSUME NEW t, input' = Append(input, t),
             ScalarMove(t) \/ OpenMove(t) \/ CloseMove(t)
               \/ NameMove(t) \/ ColonMove(t) \/ CommaMove(t)
      PROVE  TextMatch'
  <2>1. PICK n : GrownBy(t, n)
    BY <1>6, InputGrows
  <2>. QED  BY <1>4, <1>6, <2>1, ScalarKeeps, OpenKeeps, CloseKeeps, NameKeeps, ColonKeeps,
              CommaKeeps
<1>. QED  BY <1>3, <1>5, <1>6

-----------------------------------------------------------------------------
(* The text is handled.                                                      *)

\* CallsWhatIsWritten in parts: a place with a value, the last text of a name, and
\* what is said of a call.
PlaceOf(i) == i + 2 \in DOMAIN input /\ Depth(i) = 1 /\ input[i + 1].type = ":"
PlacesOf(key) == {i \in DOMAIN input : PlaceOf(i) /\ input[i] = String(key)}
LastText(key) == IF PlacesOf(key) = {} THEN Empty ELSE input[Max(PlacesOf(key)) + 2].text
ArgumentsOf(name) == [i \in DOMAIN Keys[name] |-> LastText(Keys[name][i])]
Said(o) ==
  /\ IsObject(input[1])
  /\ \A i \in DOMAIN input : PlaceOf(i) =>
       \/ input[i + 2].type = "string"
       \/ \E j \in i + 1 .. Len(input) : PlaceOf(j) /\ input[j] = input[i]
  /\ o = Forward(Method(LastText("method")), ArgumentsOf(LastText("method")))
  /\ o = Ended("returned") => LastText("ParticipationType") \notin {"PT_ACTIVE", "PT_SILENT"}

\* These are the parts of CallsWhatIsWritten (AvayaCtiUI.cpp 243 to 393).
LEMMA SaidIs ==
  CallsWhatIsWritten =
    (Ordinary /\ (outcome.args # <<>> \/ outcome = Ended("returned")) => Said(outcome))
BY DEF CallsWhatIsWritten, Said, PlaceOf, PlacesOf, LastText, ArgumentsOf, IsObject

\* The methods there is a case for: none is empty, the one that may return without a
\* call has its type as the third argument, and none is called "returned"
\* (AvayaCtiUI.cpp 254 to 390).
LEMMA MethodNames ==
  ASSUME NEW name \in DOMAIN Keys
  PROVE  /\ name # Empty
         /\ Method(name) = "AgentMonitorCall" =>
              3 \in DOMAIN Keys[name] /\ Keys[name][3] = "ParticipationType"
         /\ Method(name) # "returned"
         /\ Method(name) \in DOMAIN Renamed => Renamed[Method(name)] # "returned"
<1>1. DOMAIN Keys =
        {"AgentLogin", "AgentLogout", "AgentSetState", "AgentGetState", "AgentAnswerCall",
         "AgentClearConnection", "AgentDisconnectCall", "AgentStartMonitor",
         "AgentStopMonitor", "AgentMakeCall", "AgentHoldCall", "AgentRetrieveCall",
         "AgentDeflectCall", "AgentPickupCall", "AgentTransferCall", "AgentConferenceCall",
         "AgentConsultationCall", "AgentReconnectCall", "SnapshotDevice",
         "AgentMonitorCall", "AgentSingleStepConferenceCall", "AgentSingleStepTransferCall"}
  BY DEF Keys
<1>2. name # Empty
  BY <1>1, Zenon DEF Empty
<1>3. Method(name) = "AgentMonitorCall" =>
        name = "AgentMonitorCall" \/ name = "AgentSingleStepConferenceCall"
  BY DEF Method
<1>4. /\ Keys["AgentMonitorCall"] = <<"CheckedDevice", "DeviceID", "ParticipationType">>
      /\ Keys["AgentSingleStepConferenceCall"] =
           <<"CheckedDevice", "CalledDevice", "ParticipationType">>
  BY DEF Keys
<1>5. Method(name) # "returned"
  BY <1>1 DEF Method
<1>6. \A m \in DOMAIN Renamed : Renamed[m] # "returned"
  BY DEF Renamed
<1>7. \A a, b, c : 3 \in DOMAIN <<a, b, c>> /\ <<a, b, c>>[3] = c
  OBVIOUS
<1>. QED  BY <1>2, <1>3, <1>4, <1>5, <1>6, <1>7

\* What Dispatch comes to when it is neither a refusal nor an exception.
LEMMA DispatchIs ==
  LET name == Member("method")
  IN \/ Dispatch = Ended("refused") \/ Dispatch = Ended("thrown")
     \/ /\ IsObject(value) \/ value.type = "null"
        /\ StringMembers /\ name \in DOMAIN Keys
        /\ Dispatch = Forward(Method(name), [i \in DOMAIN Keys[name] |-> Member(Keys[name][i])])
BY ZenonT(60) DEF Dispatch, IsObject

\* Read as strings, the members are the last texts of their names.
LEMMA MembersAreLast ==
  ASSUME IsSeq(input), Settled(members, input, Places), StringMembers
  PROVE  /\ \A key : Member(key) = LastText(key)
         /\ \A i \in DOMAIN input : PlaceOf(i) =>
              \/ input[i + 2].type = "string"
              \/ \E j \in i + 1 .. Len(input) : PlaceOf(j) /\ input[j] = input[i]
<1>. DEFINE n == Len(input)
<1>1. n \in Nat /\ DOMAIN input = 1 .. n
  BY LenProperties DEF IsSeq
<1>2. \A i \in DOMAIN input : PlaceOf(i) <=> i \in Places
  BY <1>1 DEF PlaceOf, Places
<1>3. Places \subseteq 1 .. n
  BY DEF Places
<1>4. /\ \A i \in Places : input[i] = String(input[i].text)
      /\ DOMAIN members = {input[i].text : i \in Places}
      /\ \A i \in Places :
           (\A j \in Places : input[j].text = input[i].text => j <= i) =>
             Fits(members[input[i].text], input[i + 2])
  BY DEF Settled
<1>5. \A key : PlacesOf(key) = {i \in Places : input[i] = String(key)}
  BY <1>1, <1>2, <1>3 DEF PlacesOf
<1>6. \A key, i : i \in PlacesOf(key) <=> i \in Places /\ input[i].text = key
  BY <1>4, <1>5, Types3
<1>7. \A k \in DOMAIN members : members[k].type = "string"
  BY DEF StringMembers
<1>8. ASSUME NEW i \in Places, \A j \in Places : input[j].text = input[i].text => j <= i
      PROVE  /\ input[i].text \in DOMAIN members
             /\ members[input[i].text] = input[i + 2] /\ input[i + 2].type = "string"
  <2>1. input[i].text \in DOMAIN members /\ Fits(members[input[i].text], input[i + 2])
    BY <1>4, <1>8
  <2>. QED  BY <1>7, <2>1 DEF Fits
<1>9. ASSUME NEW key  PROVE Member(key) = LastText(key)
  <2>1. CASE PlacesOf(key) = {}
    <3>1. key \notin DOMAIN members
      BY <1>4, <1>6, <2>1
    <3>. QED  BY <2>1, <3>1 DEF Member, LastText
  <2>2. CASE PlacesOf(key) # {}
    <3>. DEFINE m == Max(PlacesOf(key))
    <3>1. PlacesOf(key) \in SUBSET (1 .. n)
      BY <1>3, <1>6
    <3>2. m \in PlacesOf(key) /\ \A j \in PlacesOf(key) : j <= m
      BY <1>1, <2>2, <3>1, MaxIsGreatest
    <3>. HIDE DEF m
    <3>3. m \in Places /\ input[m].text = key
      BY <1>6, <3>2
    <3>4. \A j \in Places : input[j].text = input[m].text => j <= m
      BY <1>6, <3>2, <3>3
    <3>5. key \in DOMAIN members /\ members[key] = input[m + 2]
      BY <1>8, <3>3, <3>4
    <3>6. Member(key) = input[m + 2].text
      BY <3>5 DEF Member
    <3>7. LastText(key) = input[m + 2].text
      BY <2>2 DEF LastText, m
    <3>. QED  BY <3>6, <3>7
  <2>. QED  BY <2>1, <2>2
<1>10. ASSUME NEW i \in DOMAIN input, PlaceOf(i)
       PROVE  \/ input[i + 2].type = "string"
              \/ \E j \in i + 1 .. Len(input) : PlaceOf(j) /\ input[j] = input[i]
  <2>1. i \in Places
    BY <1>2, <1>10
  <2>2. CASE \A j \in Places : input[j].text = input[i].text => j <= i
    BY <1>8, <2>1, <2>2
  <2>3. ASSUME NEW j \in Places, input[j].text = input[i].text, ~(j <= i)
        PROVE  \E k \in i + 1 .. Len(input) : PlaceOf(k) /\ input[k] = input[i]
    <3>1. j \in i + 1 .. n /\ j \in DOMAIN input
      BY <1>1, <1>3, <2>3
    <3>2. PlaceOf(j) /\ input[j] = input[i]
      BY <1>2, <1>4, <2>1, <2>3, <3>1
    <3>. QED  BY <3>1, <3>2
  <2>. QED  BY <2>2, <2>3
<1>. QED  BY <1>9, <1>10

\* A call is what the text says (AvayaCtiUI.cpp 243 to 393).
LEMMA Dispatched ==
  ASSUME IsSeq(input), TextMatch, at = "parsed",
         Dispatch.args # <<>> \/ Dispatch = Ended("returned")
  PROVE  Said(Dispatch)
<1>. DEFINE name == Member("method")
            args == [i \in DOMAIN Keys[name] |-> Member(Keys[name][i])]
<1>1. Dispatch # Ended("refused") /\ Dispatch # Ended("thrown")
  BY DEF Ended
<1>2. /\ IsObject(value) \/ value.type = "null"
      /\ StringMembers /\ name \in DOMAIN Keys
      /\ Dispatch = Forward(Method(name), args)
  BY <1>1, DispatchIs
<1>3. NoColon /\ frames = <<>>
  BY DEF TextMatch, Where
<1>4. input # <<>> /\ value.type = input[1].type
  BY <1>3 DEF NoColon, TextMatch, Begun
<1>5. IsObject(input[1])
  <2>1. SUFFICES ASSUME ~IsObject(input[1])  PROVE FALSE
    OBVIOUS
  <2>2. members = <<>>
    BY <2>1 DEF TextMatch, NoMembers
  <2>3. DOMAIN <<>> = {}
    OBVIOUS
  <2>4. name = Empty
    BY <2>2, <2>3 DEF Member
  <2>. QED  BY <1>2, <2>4, MethodNames
<1>6. Settled(members, input, Places)
  BY <1>3, <1>4, <1>5, EmptyIsSeq DEF TextMatch, OuterRead
<1>7. /\ \A key : Member(key) = LastText(key)
      /\ \A i \in DOMAIN input : PlaceOf(i) =>
           \/ input[i + 2].type = "string"
           \/ \E j \in i + 1 .. Len(input) : PlaceOf(j) /\ input[j] = input[i]
  BY <1>2, <1>6, MembersAreLast
<1>8. args = ArgumentsOf(name) /\ name = LastText("method")
  BY <1>7 DEF ArgumentsOf
<1>9. ASSUME Dispatch = Ended("returned")
      PROVE  LastText("ParticipationType") \notin {"PT_ACTIVE", "PT_SILENT"}
  <2>1. Forward(Method(name), args) = Ended("returned")
    BY <1>2, <1>9
  <2>2. /\ Method(name) = "AgentMonitorCall" =>
             3 \in DOMAIN Keys[name] /\ Keys[name][3] = "ParticipationType"
        /\ Method(name) # "returned"
        /\ Method(name) \in DOMAIN Renamed => Renamed[Method(name)] # "returned"
    BY <1>2, MethodNames
  <2>. DEFINE method == Method(name)
  <2>. HIDE DEF args, method
  <2>3. CASE method = "AgentMonitorCall" /\ args[3] \notin {"PT_ACTIVE", "PT_SILENT"}
    <3>1. args[3] = LastText("ParticipationType")
      BY <1>7, <2>2, <2>3 DEF args, method
    <3>. QED  BY <2>3, <3>1
  <2>4. CASE ~(method = "AgentMonitorCall" /\ args[3] \notin {"PT_ACTIVE", "PT_SILENT"})
    <3>1. Forward(method, args) =
            [method |-> IF method \in DOMAIN Renamed THEN Renamed[method] ELSE method,
             args |-> WithMode(method, args)]
      BY <2>4 DEF Forward
    <3>2. Forward(method, args).method # "returned"
      BY <2>2, <3>1 DEF method
    <3>. QED  BY <2>1, <3>2 DEF Ended, method
  <2>. QED  BY <2>3, <2>4
<1>. HIDE DEF args, name
<1>. QED  BY <1>2, <1>5, <1>7, <1>8, <1>9 DEF Said

\* What is kept while a text is read and handled.
TextInv ==
  /\ errors \in Nat /\ RestOK /\ IsSeq(input)
  /\ errors = 0 /\ Ordinary /\ at # "thrown" => TextMatch
  /\ outcome # Ended("none") => Over
  /\ CallsWhatIsWritten

\* No text has been read.
LEMMA TextInit ==
  DInit => TextInv
<1>. SUFFICES ASSUME DInit  PROVE TextInv
  OBVIOUS
<1>1. /\ rest = <<>> /\ input = <<>> /\ frames = <<>> /\ at = "value" /\ members = <<>>
      /\ errors = 0 /\ outcome = Ended("none")
  BY DEF DInit, ReaderInit
<1>2. Len(<<>>) = 0 /\ 1 .. 0 = {} /\ IsSeq(<<>>)
  BY EmptyIsSeq
<1>3. RestOK
  BY <1>1, <1>2 DEF RestOK
<1>4. Depth(0) = 0
  <2>1. \A S : {j \in 1 .. 0 : input[j].type \in S} = {}
    BY <1>2
  <2>2. Cardinality({}) = 0
    BY FS_EmptySet
  <2>3. Opened(input, 0) = {} /\ Closed(input, 0) = {}
    BY <1>2 DEF Opened, Closed
  <2>4. Depth(0) = Cardinality(Opened(input, 0)) - Cardinality(Closed(input, 0))
    BY DEF Depth, Opened, Closed, Opens, Closes
  <2>. QED  BY <2>2, <2>3, <2>4
<1>5. TextMatch
  BY <1>1, <1>2, <1>4
     DEF TextMatch, Where, Stacked, Begun, NoMembers, OuterRead, InnerRead
<1>6. CallsWhatIsWritten
  <2>1. outcome.args = <<>> /\ outcome # Ended("returned")
    BY <1>1 DEF Ended
  <2>. QED  BY <2>1, SaidIs
<1>. QED  BY <1>1, <1>2, <1>3, <1>5, <1>6 DEF TextInv

\* Neither a radio button nor Begin reads anything, and what a button writes are tokens
\* (AvayaCtiUI.cpp 460 to 812).
LEMMA TextUntouched ==
  ASSUME TextInv, UNCHANGED <<input, frames, at, value, members, errors, outcome>>, RestOK'
  PROVE  TextInv'
<1>1. /\ input' = input /\ frames' = frames /\ at' = at /\ value' = value
      /\ members' = members /\ errors' = errors /\ outcome' = outcome
  OBVIOUS
<1>2. /\ \A i : Depth(i)' = Depth(i)
      /\ Depth(Len(input))' = Depth(Len(input))
      /\ Depth(Len(input) - 1)' = Depth(Len(input) - 1)
      /\ Places' = Places /\ Ordinary' = Ordinary
  BY <1>1 DEF Depth, Places, Ordinary
<1>3. TextMatch = TextMatch'
  <2>1. Where' = Where
    BY <1>1, <1>2 DEF Where, NoColon, AfterColon, InObject, InArray, Top
  <2>2. Stacked' = Stacked /\ Begun' = Begun /\ NoMembers' = NoMembers
    BY <1>1, <1>2 DEF Stacked, Begun, NoMembers
  <2>3. OuterRead' = OuterRead /\ InnerRead' = InnerRead
    BY <1>1, <1>2 DEF OuterRead, InnerRead, Pending
  <2>. QED  BY <2>1, <2>2, <2>3 DEF TextMatch
<1>4. CallsWhatIsWritten' = CallsWhatIsWritten
  BY <1>1 DEF CallsWhatIsWritten, Ordinary, Depth
<1>. QED  BY <1>1, <1>2, <1>3, <1>4 DEF TextInv, Over

\* The text of a button is one of tokens.
LEMMA ButtonTokens ==
  ASSUME NEW pairs, Len(pairs) \in Nat, rest' = ObjectOf(pairs)
  PROVE  RestOK'
<1>. DEFINE o == ObjectOf(pairs)
            l == 4 * Len(pairs) + 1
<1>1. l \in Nat
  OBVIOUS
<1>2. o = [k \in 1 .. l |-> o[k]]
  BY DEF ObjectOf
<1>3. \A x, y, z, u, j : j \in 1 .. 4 =>
        <<x, y, z, u>>[j] = x \/ <<x, y, z, u>>[j] = y \/ <<x, y, z, u>>[j] = z \/ <<x, y, z, u>>[j] = u
  <2>1. \A j \in 1 .. 4 : j = 1 \/ j = 2 \/ j = 3 \/ j = 4
    OBVIOUS
  <2>. QED  BY <2>1
<1>4. ASSUME NEW i, NEW j \in 1 .. 4  PROVE IsToken(Four(pairs, i)[j])
  <2>1. PICK u : u = Plain(IF i = Len(pairs) THEN "}" ELSE ",")
    OBVIOUS
  <2>2. Four(pairs, i) = <<String(pairs[i][1]), Plain(":"), String(pairs[i][2]), u>>
    BY <2>1 DEF Four
  <2>3. IsToken(u)
    BY <2>1, Types3
  <2>4. IsToken(String(pairs[i][1])) /\ IsToken(Plain(":")) /\ IsToken(String(pairs[i][2]))
    BY Types3
  <2>. QED  BY <1>3, <2>2, <2>3, <2>4
<1>5. ASSUME NEW k \in 1 .. l  PROVE IsToken(o[k])
  <2>1. CASE k = 1
    <3>1. o[k] = Plain("{")
      BY <2>1 DEF ObjectOf
    <3>. QED  BY <3>1, Types3
  <2>2. CASE k # 1
    <3>1. o[k] = Four(pairs, (k + 2) \div 4)[((k - 2) % 4) + 1]
      BY <2>2 DEF ObjectOf
    <3>2. ((k - 2) % 4) + 1 \in 1 .. 4
      BY <1>1, <2>2
    <3>. QED  BY <1>4, <3>1, <3>2
  <2>. QED  BY <2>1, <2>2
<1>. HIDE DEF o, l
<1>6. o \in Seq({o[k] : k \in 1 .. l}) /\ Len(o) = l
  <2>1. o \in [1 .. l -> {o[k] : k \in 1 .. l}]
    BY <1>2
  <2>. QED  BY <1>1, <2>1, SeqDef
<1>7. IsSeq(o)
  BY <1>6 DEF IsSeq
<1>8. rest' = o
  BY DEF o
<1>. QED  BY <1>5, <1>6, <1>7, <1>8 DEF RestOK

\* A token is read.
LEMMA TextRead ==
  ASSUME TextInv, Parse  PROVE TextInv'
<1>1. ReadToken /\ outcome' = outcome
  BY DEF Parse
<1>2. errors \in Nat /\ RestOK /\ IsSeq(input)
  BY DEF TextInv
<1>3. PICK t \in Coming : Take(t)
  BY <1>1 DEF ReadToken
<1>4. RestOK' /\ IsSeq(input')
  BY <1>2, <1>3, RestKept, InputKept
<1>5. errors' = errors \/ errors' = errors + 1
  BY <1>1, ErrorsCounted
<1>6. ~Over
  BY <1>1 DEF ReadToken, Over
<1>7. outcome = Ended("none") /\ outcome' = Ended("none")
  BY <1>1, <1>6 DEF TextInv
<1>8. CallsWhatIsWritten'
  <2>1. outcome'.args = <<>> /\ outcome' # Ended("returned")
    BY <1>7 DEF Ended
  <2>. QED  BY <2>1 DEF CallsWhatIsWritten
<1>9. errors' = 0 /\ Ordinary' /\ at' # "thrown" => TextMatch'
  <2>1. errors = 0 /\ Ordinary /\ at # "thrown" => TextMatch
    BY DEF TextInv
  <2>. QED  BY <1>1, <1>2, <2>1, TextKept
<1>. QED  BY <1>2, <1>4, <1>5, <1>7, <1>8, <1>9 DEF TextInv

\* The text is handled: what is called is what it says.
LEMMA TextHandled ==
  ASSUME TextInv, SelectTSAPIInterface  PROVE TextInv'
<1>1. /\ Over /\ outcome' = IF at = "thrown" THEN Ended("thrown") ELSE Dispatch
      /\ rest' = rest /\ input' = input /\ frames' = frames /\ at' = at /\ value' = value
      /\ members' = members /\ errors' = errors
  BY DEF SelectTSAPIInterface, readerVars
<1>2. Over' /\ RestOK' /\ IsSeq(input') /\ errors' \in Nat
  BY <1>1 DEF TextInv, Over, RestOK
<1>3. /\ \A i : Depth(i)' = Depth(i)
      /\ Depth(Len(input))' = Depth(Len(input))
      /\ Depth(Len(input) - 1)' = Depth(Len(input) - 1)
      /\ Places' = Places /\ Ordinary' = Ordinary
  BY <1>1 DEF Depth, Places, Ordinary
<1>4. TextMatch = TextMatch'
  <2>1. Where' = Where
    BY <1>1, <1>3 DEF Where, NoColon, AfterColon, InObject, InArray, Top
  <2>2. Stacked' = Stacked /\ Begun' = Begun /\ NoMembers' = NoMembers
    BY <1>1, <1>3 DEF Stacked, Begun, NoMembers
  <2>3. OuterRead' = OuterRead /\ InnerRead' = InnerRead
    BY <1>1, <1>3 DEF OuterRead, InnerRead, Pending
  <2>. QED  BY <2>1, <2>2, <2>3 DEF TextMatch
<1>5. ASSUME Ordinary, outcome'.args # <<>> \/ outcome' = Ended("returned")
      PROVE  Said(outcome')
  <2>1. at # "thrown"
    BY <1>1, <1>5 DEF Ended
  <2>2. outcome' = Dispatch /\ at = "parsed"
    BY <1>1, <2>1 DEF Over
  <2>3. errors = 0
    <3>1. SUFFICES ASSUME errors # 0  PROVE FALSE
      OBVIOUS
    <3>2. errors > 0
      BY <3>1 DEF TextInv
    <3>3. Dispatch = Ended("refused")
      BY <3>2, Zenon DEF Dispatch
    <3>. QED  BY <1>5, <2>2, <3>3 DEF Ended
  <2>4. TextMatch /\ IsSeq(input)
    BY <1>5, <2>1, <2>3 DEF TextInv
  <2>5. Dispatch.args # <<>> \/ Dispatch = Ended("returned")
    BY <1>5, <2>2
  <2>6. Said(Dispatch)
    BY <2>2, <2>4, <2>5, Dispatched
  <2>. QED  BY <2>2, <2>6
<1>6. \A o : Said(o)' = Said(o)
  <2>1. \A i : PlaceOf(i)' = PlaceOf(i)
    BY <1>1, <1>3 DEF PlaceOf
  <2>2. \A key : PlacesOf(key)' = PlacesOf(key)
    BY <1>1, <2>1 DEF PlacesOf
  <2>3. \A key : LastText(key)' = LastText(key)
    BY <1>1, <2>2 DEF LastText
  <2>4. \A name : ArgumentsOf(name)' = ArgumentsOf(name)
    BY <2>3 DEF ArgumentsOf
  <2>. QED  BY <1>1, <2>1, <2>3, <2>4 DEF Said
<1>7. CallsWhatIsWritten'
  <2>1. Said(outcome)' <=> Said(outcome')
    BY <1>6
  <2>2. Ordinary' /\ (outcome'.args # <<>> \/ outcome' = Ended("returned")) => Said(outcome)'
    BY <1>3, <1>5, <2>1
  <2>. QED  BY <2>2 DEF CallsWhatIsWritten, Said, PlaceOf, PlacesOf, LastText, ArgumentsOf, IsObject
<1>. QED  BY <1>1, <1>2, <1>4, <1>3, <1>7 DEF TextInv

\* Every step keeps it.
LEMMA TextStep ==
  TextInv /\ [DNext]_dvars => TextInv'
<1>. SUFFICES ASSUME TextInv, [DNext]_dvars  PROVE TextInv'
  OBVIOUS
<1>1. ASSUME NEW key \in DOMAIN Setting, NEW i \in DOMAIN Setting[key], Radio(key, i)
      PROVE  TextInv'
  <2>1. rest' = rest /\ UNCHANGED <<input, frames, at, value, members, errors, outcome>>
    BY <1>1 DEF Radio, readerVars
  <2>. QED  BY <2>1, TextUntouched DEF TextInv, RestOK
<1>2. ASSUME NEW b \in DOMAIN Written, NEW held, Press(b, held)
      PROVE  TextInv'
  <2>1. /\ rest' = ObjectOf(Message(b, settings, held)) \/ rest' = rest
        /\ UNCHANGED <<input, frames, at, value, members, errors, outcome>>
    BY <1>2 DEF Press
  <2>2. Len(Message(b, settings, held)) \in Nat
    BY MessageNames
  <2>3. RestOK'
    BY <2>1, <2>2, ButtonTokens DEF TextInv, RestOK
  <2>. QED  BY <2>1, <2>3, TextUntouched
<1>3. CASE Begin
  <2>1. rest' = rest /\ UNCHANGED <<input, frames, at, value, members, errors, outcome>>
    BY <1>3 DEF Begin
  <2>. QED  BY <2>1, TextUntouched DEF TextInv, RestOK
<1>4. CASE Parse
  BY <1>4, TextRead
<1>5. CASE SelectTSAPIInterface
  BY <1>5, TextHandled
<1>6. CASE UNCHANGED dvars
  <2>1. rest' = rest /\ UNCHANGED <<input, frames, at, value, members, errors, outcome>>
    BY <1>6 DEF dvars, readerVars
  <2>. QED  BY <2>1, TextUntouched DEF TextInv, RestOK
<1>. QED  BY <1>1, <1>2, <1>3, <1>4, <1>5, <1>6 DEF DNext

\* CallsWhatIsWritten, for texts of every length and depth, typed in or written by a
\* button: what is called is what the text says, each argument the last member of its
\* name, and nothing but an unknown participation type makes a request vanish
\* (jsoncpp.cpp 343 to 463, 680 to 772, AvayaCtiUI.cpp 243 to 393,
\* AvayaCallCenterUserAgent.cpp 33 to 177).
THEOREM TextsCalled ==
  DSpec => []CallsWhatIsWritten
<1>1. TextInv => CallsWhatIsWritten
  BY DEF TextInv
<1>. QED  BY <1>1, TextInit, TextStep, PTL DEF DSpec

-----------------------------------------------------------------------------
(* The grammar of a text.                                                    *)

\* ReadsText in parts: a string that is a name, the innermost open value an array, and
\* what may come next in an array and in an object.
Named(i) ==
  input[i].type = "string" /\ i > 1 /\ (IsObject(input[i - 1]) \/ IsComma(input[i - 1]))
Inside(i) ==
  \E o \in 1 .. i :
    /\ IsArray(input[o]) /\ Depth(o) = Depth(i)
    /\ \A j \in o + 1 .. i : Depth(j) = Depth(i) => ~Opens(input[j])
ArrayNext(s, t) ==
  \/ Starts(t) /\ (IsArray(s) \/ IsComma(s))
  \/ IsComma(t) /\ ~IsArray(s) /\ ~IsComma(s)
  \/ EndsArray(t) /\ ~IsComma(s)
ObjectNext(s, t) ==
  \/ t.type = "string" /\ (IsObject(s) \/ IsComma(s))
  \/ Starts(t) /\ s.type = ":"
  \/ IsComma(t) /\ ~IsObject(s) /\ ~IsComma(s) /\ s.type # ":"
  \/ EndsObject(t) /\ ~IsComma(s) /\ s.type # ":"
Follows(i) ==
  \/ i = 0 /\ Starts(input[i + 1])
  \/ i > 0 /\ Depth(i) > 0 /\ Inside(i) /\ ArrayNext(input[i], input[i + 1])
  \/ i > 0 /\ Depth(i) > 0 /\ ~Inside(i) /\ Named(i) /\ input[i + 1].type = ":"
  \/ i > 0 /\ Depth(i) > 0 /\ ~Inside(i) /\ ~Named(i) /\ ObjectNext(input[i], input[i + 1])

\* The types of tokens, once more apart from the words for them.
LEMMA TypesDiffer ==
  /\ \A t : Opens(t) <=> IsObject(t) \/ IsArray(t)
  /\ \A t : Closes(t) <=> EndsObject(t) \/ EndsArray(t)
  /\ \A t : IsObject(t) => ~IsArray(t) /\ ~IsComma(t) /\ t.type # ":" /\ t.type # "string"
  /\ \A t : IsComma(t) => ~IsArray(t) /\ t.type # ":" /\ t.type # "string"
  /\ \A t : Closes(t) => /\ ~IsObject(t) /\ ~IsArray(t) /\ ~IsComma(t)
                         /\ t.type # "string" /\ t.type # ":"
  /\ \A t : Starts(t) => ~IsComma(t) /\ ~Closes(t) /\ t.type # ":"
  /\ \A t : Opens(t) => t.type # "string"
<1>1. \A t : Opens(t) <=> IsObject(t) \/ IsArray(t)
  BY DEF Opens, IsObject, IsArray
<1>2. \A t : Closes(t) <=> EndsObject(t) \/ EndsArray(t)
  BY DEF Closes, EndsObject, EndsArray
<1>3. \A t : IsObject(t) => ~IsArray(t) /\ ~IsComma(t) /\ t.type # ":" /\ t.type # "string"
  BY Zenon DEF IsObject, IsArray, IsComma
<1>4. \A t : IsComma(t) => ~IsArray(t) /\ t.type # ":" /\ t.type # "string"
  BY Zenon DEF IsArray, IsComma
<1>5. \A t : Closes(t) => /\ ~IsObject(t) /\ ~IsArray(t) /\ ~IsComma(t)
                          /\ t.type # "string" /\ t.type # ":"
  BY Zenon DEF Closes, IsObject, IsArray, IsComma
<1>6. \A t : Starts(t) => ~IsComma(t) /\ ~Closes(t) /\ t.type # ":"
  BY Zenon DEF Starts, Begins, IsComma, Closes
<1>7. \A t : Opens(t) => t.type # "string"
  BY Zenon DEF Opens
<1>. QED  BY <1>1, <1>2, <1>3, <1>4, <1>5, <1>6, <1>7

\* These are the parts of MayFollow.
LEMMA MayFollowIs ==
  ASSUME NEW i  PROVE MayFollow(i) <=> Follows(i)
<1>1. InsideArray(i) <=> Inside(i)
  BY Zenon DEF InsideArray, Inside, IsArray, Opens
<1>2. IsName(i) <=> Named(i)
  <2>1. input[i - 1].type \in {"{", ","} <=> IsObject(input[i - 1]) \/ IsComma(input[i - 1])
    BY Zenon DEF IsObject, IsComma
  <2>. QED  BY <2>1, Zenon DEF IsName, Named
<1>3. ASSUME NEW s, NEW t  PROVE NextInArray(s.type, t.type) <=> ArrayNext(s, t)
  <2>1. s.type \in {"[", ","} <=> IsArray(s) \/ IsComma(s)
    BY Zenon DEF IsArray, IsComma
  <2>. QED  BY <2>1, Zenon DEF NextInArray, ArrayNext, Starts, EndsArray, IsComma
<1>4. ASSUME NEW s, NEW t  PROVE NextInObject(s.type, t.type) <=> ObjectNext(s, t)
  <2>1. s.type \in {"{", ","} <=> IsObject(s) \/ IsComma(s)
    BY Zenon DEF IsObject, IsComma
  <2>2. s.type \in {"{", ",", ":"} <=> IsObject(s) \/ IsComma(s) \/ s.type = ":"
    BY Zenon DEF IsObject, IsComma
  <2>3. s.type \in {",", ":"} <=> IsComma(s) \/ s.type = ":"
    BY Zenon DEF IsComma
  <2>. QED  BY <2>1, <2>2, <2>3, Zenon DEF NextInObject, ObjectNext, Starts, EndsObject, IsComma
<1>5. input[i + 1].type \in Begins <=> Starts(input[i + 1])
  BY DEF Starts
<1>. QED  BY <1>1, <1>2, <1>3, <1>4, <1>5, Zenon DEF MayFollow, Follows

\* Every call is the one for what was begun last at its depth (jsoncpp.cpp 680 to 772).
Openers ==
  \A k \in 1 .. Len(frames) :
    \E o \in 1 .. Len(input) :
      /\ Opens(input[o]) /\ frames[k].type = input[o].type /\ Depth(o) = k
      /\ \A j \in o + 1 .. Len(input) : Depth(j) = k => ~Opens(input[j])

\* Only the call that reads its first name has none.
HaveNames ==
  \A k \in 1 .. Len(frames) :
    IsObject(frames[k]) /\ (k < Len(frames) \/ at # "name") => frames[k].name # Empty

\* Where the reader is, by the last token and the one before.
Ends ==
  LET n == Len(input)
      last == input[n]
  IN /\ at = "value" /\ input # <<>> => (InArray /\ IsComma(last)) \/ (InObject /\ last.type = ":")
     /\ at = "first" => InArray /\ IsArray(last)
     /\ at = "item" => InArray /\ ~IsArray(last) /\ ~IsComma(last)
     /\ at = "name" => /\ InObject
                       /\ \/ IsObject(last) /\ Top.name = Empty
                          \/ IsComma(last) /\ Top.name # Empty
     /\ at = "colon" => InObject /\ Named(n)
     /\ at = "comma" => /\ InObject /\ ~IsObject(last) /\ ~IsComma(last) /\ last.type # ":"
                        /\ ~Named(n)

GrammarMatch == Openers /\ HaveNames /\ Ends /\ \A i \in 0 .. Len(input) - 1 : Follows(i)

\* What may stand behind a token is the same when the text gets longer.
LEMMA FollowsStays ==
  ASSUME NEW t, NEW n, GrownBy(t, n), NEW i \in 0 .. n - 1
  PROVE  Follows(i)' <=> Follows(i)
<1>1. /\ n \in Nat /\ \A j \in 1 .. n : input'[j] = input[j]
      /\ \A j \in 0 .. n : Depth(j)' = Depth(j)
  BY DEF GrownBy
<1>2. \A j \in 1 .. i : j \in 1 .. n /\ j \in 0 .. n
  BY <1>1
<1>3. Depth(i)' = Depth(i) /\ input'[i + 1] = input[i + 1] /\ (i > 0 => input'[i] = input[i])
  BY <1>1
<1>4. Inside(i)' <=> Inside(i)
  <2>1. \A o \in 1 .. i : \A j \in o + 1 .. i : j \in 1 .. i
    BY <1>1
  <2>2. \A j \in 1 .. i : input'[j] = input[j] /\ Depth(j)' = Depth(j)
    BY <1>1, <1>2
  <2>. QED  BY <1>3, <2>1, <2>2 DEF Inside
<1>5. i > 0 => (Named(i)' <=> Named(i))
  <2>1. i > 1 => input'[i - 1] = input[i - 1]
    BY <1>1
  <2>. QED  BY <1>3, <2>1 DEF Named
<1>. QED  BY <1>3, <1>4, <1>5 DEF Follows

\* The innermost call is for an array when the innermost open value is one.
LEMMA InsideIs ==
  ASSUME TextMatch, Openers, NEW t, NEW n, GrownBy(t, n), frames # <<>>
  PROVE  /\ n > 0 /\ n \in Nat /\ n = Len(input)
         /\ Depth(n)' = Len(frames) /\ Len(frames) \in Nat \ {0}
         /\ input'[n] = input[n] /\ input'[n + 1] = t
         /\ Named(n)' <=> Named(n)
         /\ Inside(n)' <=> InArray
         /\ InArray <=> ~InObject
<1>. DEFINE L == Len(frames)
<1>1. /\ n \in Nat /\ n = Len(input) /\ input'[n + 1] = t /\ Len(input') = n + 1
      /\ \A j \in 1 .. n : input'[j] = input[j]
      /\ \A j \in 0 .. n : Depth(j)' = Depth(j)
  BY DEF GrownBy
<1>2. n # 0 /\ L \in Nat \ {0} /\ Depth(n) = L
  BY DepthNow
<1>3. Top = frames[L]
  BY DEF Top, Last
<1>4. Depth(n)' = L /\ n \in 1 .. n
  BY <1>1, <1>2
<1>5. Named(n)' <=> Named(n)
  <2>1. n > 1 => input'[n - 1] = input[n - 1]
    BY <1>1
  <2>. QED  BY <1>1, <1>4, <2>1 DEF Named
<1>6. PICK o \in 1 .. n :
        /\ Opens(input[o]) /\ Top.type = input[o].type /\ Depth(o) = L
        /\ \A j \in o + 1 .. n : Depth(j) = L => ~Opens(input[j])
  BY <1>1, <1>2, <1>3 DEF Openers
<1>7. InArray <=> IsArray(input[o])
  BY <1>6 DEF InArray, IsArray
<1>8. InObject <=> IsObject(input[o])
  BY <1>6 DEF InObject, IsObject
<1>9. Inside(n)' <=> Inside(n)
  <2>1. \A p \in 1 .. n : p \in 0 .. n /\ \A j \in p + 1 .. n : j \in 1 .. n /\ j \in 0 .. n
    BY <1>1
  <2>2. \A j \in 1 .. n : input'[j] = input[j] /\ Depth(j)' = Depth(j)
    BY <1>1, <2>1
  <2>. QED  BY <1>2, <1>4, <2>1, <2>2 DEF Inside
<1>10. Inside(n) => IsArray(input[o])
  <2>1. SUFFICES ASSUME NEW p \in 1 .. n, IsArray(input[p]), Depth(p) = L,
                        \A j \in p + 1 .. n : Depth(j) = L => ~Opens(input[j])
                 PROVE  IsArray(input[o])
    BY <1>2 DEF Inside
  <2>2. Opens(input[p])
    BY <2>1, TypesDiffer
  <2>3. p \notin o + 1 .. n /\ o \notin p + 1 .. n
    BY <1>6, <2>1, <2>2
  <2>4. p = o
    BY <1>1, <2>3
  <2>. QED  BY <2>1, <2>4
<1>11. IsArray(input[o]) => Inside(n)
  BY <1>2, <1>6 DEF Inside
<1>12. IsObject(input[o]) <=> ~IsArray(input[o])
  BY <1>6, Types3, TypesDiffer
<1>. QED  BY <1>1, <1>2, <1>4, <1>5, <1>7, <1>8, <1>9, <1>10, <1>11, <1>12

\* The reader takes what may come next, and nothing else.
LEMMA AcceptedIs ==
  ASSUME TextMatch, Openers, Ends, NEW t, NEW n, GrownBy(t, n),
         at \notin {"root", "parsed", "thrown"}
  PROVE  Follows(n)' <=> Accepted(t)
<1>. DEFINE last == input[n]
<1>1. Where
  BY DEF TextMatch
<1>2. CASE frames = <<>>
  <2>1. at = "value" /\ input = <<>>
    BY <1>1, <1>2 DEF Where, InObject, InArray
  <2>2. n = 0 /\ input'[n + 1] = t
    BY <2>1 DEF GrownBy
  <2>3. Follows(0)' <=> Starts(input'[0 + 1])
    BY DEF Follows
  <2>4. Follows(n)' <=> Starts(t)
    BY <2>2, <2>3
  <2>. QED  BY <2>1, <2>4 DEF Accepted
<1>3. CASE frames # <<>>
  <2>1. /\ n > 0 /\ n = Len(input) /\ Depth(n)' > 0
        /\ input'[n] = last /\ input'[n + 1] = t
        /\ Named(n)' <=> Named(n)
        /\ Inside(n)' <=> InArray
        /\ InArray <=> ~InObject
    BY <1>3, InsideIs
  <2>2. Follows(n)' <=>
          \/ InArray /\ ArrayNext(last, t)
          \/ InObject /\ Named(n) /\ t.type = ":"
          \/ InObject /\ ~Named(n) /\ ObjectNext(last, t)
    BY <2>1 DEF Follows
  <2>3. Named(n) => last.type = "string"
    BY DEF Named
  <2>4. CASE at = "value"
    <3>1. (InArray /\ IsComma(last)) \/ (InObject /\ last.type = ":")
      <4>1. input # <<>>
        BY <2>1, EmptyIsSeq
      <4>. QED  BY <2>1, <2>4, <4>1 DEF Ends
    <3>2. CASE InArray /\ IsComma(last)
      BY <2>1, <2>2, <2>4, <3>2 DEF ArrayNext, Accepted
    <3>3. CASE InObject /\ last.type = ":"
      BY <2>1, <2>2, <2>3, <2>4, <3>3, TypesDiffer DEF ObjectNext, Accepted
    <3>. QED  BY <3>1, <3>2, <3>3
  <2>5. CASE at = "first"
    BY <2>1, <2>2, <2>5, TypesDiffer DEF Ends, ArrayNext, Accepted
  <2>6. CASE at = "item"
    BY <2>1, <2>2, <2>6, TypesDiffer DEF Ends, ArrayNext, Accepted
  <2>7. CASE at = "name"
    BY <2>1, <2>2, <2>3, <2>7, TypesDiffer DEF Ends, ObjectNext, Accepted
  <2>8. CASE at = "colon"
    BY <2>1, <2>2, <2>8 DEF Ends, Accepted
  <2>9. CASE at = "comma"
    BY <2>1, <2>2, <2>9, TypesDiffer DEF Ends, ObjectNext, Accepted
  <2>. QED  BY <1>1, <2>4, <2>5, <2>6, <2>7, <2>8, <2>9 DEF Where
<1>. QED  BY <1>2, <1>3

\* What a call was begun by stays that, unless the token opens something.
LEMMA OpenersStay ==
  ASSUME Openers, NEW t, NEW n, GrownBy(t, n), ~Opens(t),
         Len(frames) \in Nat, Len(frames') \in Nat, Len(frames') <= Len(frames),
         \A k \in 1 .. Len(frames') : frames'[k].type = frames[k].type
  PROVE  Openers'
<1>1. /\ n \in Nat /\ n = Len(input) /\ input'[n + 1] = t /\ Len(input') = n + 1
      /\ \A j \in 1 .. n : input'[j] = input[j]
      /\ \A j \in 0 .. n : Depth(j)' = Depth(j)
  BY DEF GrownBy
<1>2. ASSUME NEW k \in 1 .. Len(frames')
      PROVE  \E o \in 1 .. n + 1 :
               /\ Opens(input'[o]) /\ frames'[k].type = input'[o].type /\ Depth(o)' = k
               /\ \A j \in o + 1 .. n + 1 : Depth(j)' = k => ~Opens(input'[j])
  <2>1. k \in 1 .. Len(frames) /\ frames'[k].type = frames[k].type
    OBVIOUS
  <2>2. PICK o \in 1 .. n :
          /\ Opens(input[o]) /\ frames[k].type = input[o].type /\ Depth(o) = k
          /\ \A j \in o + 1 .. n : Depth(j) = k => ~Opens(input[j])
    BY <1>1, <2>1 DEF Openers
  <2>3. o \in 1 .. n + 1 /\ o \in 0 .. n
    BY <1>1
  <2>4. ASSUME NEW j \in o + 1 .. n + 1, Depth(j)' = k  PROVE ~Opens(input'[j])
    <3>1. CASE j = n + 1
      BY <1>1, <3>1
    <3>2. CASE j # n + 1
      <4>1. j \in o + 1 .. n /\ j \in 1 .. n /\ j \in 0 .. n
        BY <1>1, <3>2
      <4>. QED  BY <1>1, <2>2, <2>4, <4>1
    <3>. QED  BY <3>1, <3>2
  <2>. QED  BY <1>1, <2>1, <2>2, <2>3, <2>4
<1>. QED  BY <1>1, <1>2 DEF Openers

\* So do the names, unless the innermost call has a new one.
LEMMA NamesStay ==
  ASSUME HaveNames, Len(frames) \in Nat, Len(frames') \in Nat,
         Len(frames') <= Len(frames),
         Len(frames') < Len(frames) \/ at # "name",
         \A k \in 1 .. Len(frames') : frames'[k] = frames[k]
  PROVE  HaveNames'
<1>1. ASSUME NEW k \in 1 .. Len(frames')
      PROVE  /\ k \in 1 .. Len(frames) /\ frames'[k] = frames[k]
             /\ k < Len(frames) \/ at # "name"
  OBVIOUS
<1>2. \A k \in 1 .. Len(frames') : IsObject(frames'[k]) => frames'[k].name # Empty
  BY <1>1 DEF HaveNames
<1>. QED  BY <1>2 DEF HaveNames

\* A text with one more token that may stand there.
LEMMA FollowsAll ==
  ASSUME GrammarMatch, NEW t, NEW n, GrownBy(t, n), Follows(n)'
  PROVE  \A i \in 0 .. Len(input') - 1 : Follows(i)'
<1>1. n \in Nat /\ n = Len(input) /\ Len(input') = n + 1
  BY DEF GrownBy
<1>2. ASSUME NEW i \in 0 .. n - 1  PROVE Follows(i)'
  <2>1. Follows(i)
    BY <1>1 DEF GrammarMatch
  <2>. QED  BY <2>1, FollowsStays
<1>3. ASSUME NEW i \in 0 .. n  PROVE Follows(i)'
  <2>1. CASE i = n
    BY <2>1
  <2>2. CASE i # n
    <3>1. i \in 0 .. n - 1
      BY <1>1, <2>2
    <3>. QED  BY <1>2, <3>1
  <2>. QED  BY <2>1, <2>2
<1>. QED  BY <1>1, <1>3

\* Where the reader is behind a token, in terms of that token.
LEMMA EndsNow ==
  ASSUME NEW t, NEW n, GrownBy(t, n),
         at' = "value" => (InArray' /\ IsComma(t)) \/ (InObject' /\ t.type = ":"),
         at' = "first" => InArray' /\ IsArray(t),
         at' = "item" => InArray' /\ ~IsArray(t) /\ ~IsComma(t),
         at' = "name" => /\ InObject'
                         /\ \/ IsObject(t) /\ Top'.name = Empty
                            \/ IsComma(t) /\ Top'.name # Empty,
         at' = "colon" => /\ InObject' /\ n > 0 /\ t.type = "string"
                          /\ IsObject(input[n]) \/ IsComma(input[n]),
         at' = "comma" => /\ InObject' /\ ~IsObject(t) /\ ~IsComma(t) /\ t.type # ":"
                          /\ \/ t.type # "string"
                             \/ n > 0 /\ ~IsObject(input[n]) /\ ~IsComma(input[n])
  PROVE  Ends'
<1>1. /\ n \in Nat /\ Len(input') = n + 1 /\ input'[n + 1] = t
      /\ \A i \in 1 .. n : input'[i] = input[i]
  BY DEF GrownBy
<1>2. n > 0 => input'[n] = input[n]
  BY <1>1
<1>3. Named(n + 1)' <=>
        t.type = "string" /\ n > 0 /\ (IsObject(input[n]) \/ IsComma(input[n]))
  <2>1. (n + 1) - 1 = n /\ (n + 1 > 1 <=> n > 0)
    BY <1>1
  <2>2. Named(n + 1)' <=>
          /\ input'[n + 1].type = "string" /\ n + 1 > 1
          /\ IsObject(input'[(n + 1) - 1]) \/ IsComma(input'[(n + 1) - 1])
    BY DEF Named
  <2>. QED  BY <1>1, <1>2, <2>1, <2>2
<1>4. Named(Len(input))' <=> Named(n + 1)'
  BY <1>1
<1>5. input'[Len(input')] = t
  BY <1>1
<1>. QED  BY <1>3, <1>4, <1>5, Zenon DEF Ends

-----------------------------------------------------------------------------
(* Every move keeps the grammar.                                             *)

\* Of an array or of an object, never of both.
LEMMA OneOf ==
  ~(InArray /\ InObject)
BY Types3 DEF InArray, InObject

\* A number, a word or a string is an item or the value of a member.
LEMMA ScalarReads ==
  ASSUME TextMatch, GrammarMatch, NEW t, NEW n, GrownBy(t, n), ScalarMove(t), Accepted(t),
         TextMatch'
  PROVE  Openers' /\ HaveNames' /\ Ends'
<1>1. /\ at \in {"value", "first"} /\ Complete(frames, t)
      /\ ~Opens(t) /\ ~Closes(t) /\ t.type # ":"
  BY DEF ScalarMove, Flat
<1>2. frames' = frames /\ Len(frames) \in Nat
  BY <1>1, CompleteIs, DepthNow
<1>3. Openers'
  BY <1>1, <1>2, OpenersStay DEF GrammarMatch
<1>4. HaveNames'
  BY <1>1, <1>2, NamesStay DEF GrammarMatch
<1>5. ~IsComma(t) /\ ~IsObject(t) /\ ~IsArray(t)
  <2>1. Starts(t)
    <3>1. ~EndsArray(t)
      BY <1>1, TypesDiffer
    <3>. QED  BY <1>1, <3>1 DEF Accepted
  <2>. QED  BY <1>1, <2>1, TypesDiffer
<1>6. CASE frames = <<>>
  <2>1. at' = "root"
    BY <1>1, <1>6, CompleteIs
  <2>. QED  BY <1>3, <1>4, <2>1, EndsNow
<1>7. CASE InArray
  <2>1. at' = "item" /\ InArray'
    BY <1>1, <1>2, <1>7, CompleteIs DEF InArray, Top
  <2>. QED  BY <1>3, <1>4, <1>5, <2>1, EndsNow
<1>8. CASE InObject
  <2>1. at' = "comma" /\ InObject'
    BY <1>1, <1>2, <1>8, CompleteIs DEF InObject, Top
  <2>2. input # <<>> /\ n > 0 /\ n = Len(input)
    BY <1>8, DepthNow DEF InObject
  <2>3. input[n].type = ":"
    BY <1>1, <1>8, <2>2, OneOf DEF GrammarMatch, Ends
  <2>4. ~IsObject(input[n]) /\ ~IsComma(input[n])
    BY <2>3, TypesDiffer
  <2>. QED  BY <1>1, <1>3, <1>4, <1>5, <2>1, <2>2, <2>4, EndsNow
<1>9. frames = <<>> \/ InArray \/ InObject
  BY <1>1, ValueAt
<1>. QED  BY <1>6, <1>7, <1>8, <1>9

\* An object or an array is begun.
LEMMA OpenReads ==
  ASSUME TextMatch, GrammarMatch, NEW t, NEW n, GrownBy(t, n), OpenMove(t)
  PROVE  Openers' /\ HaveNames' /\ Ends'
<1>. DEFINE L == Len(frames)
<1>1. PICK f : f.type = t.type /\ (IsObject(t) => f.name = Empty) /\ frames' = Append(frames, f)
  BY DEF OpenMove
<1>2. /\ at \in {"value", "first"} /\ Opens(t)
      /\ \/ IsObject(t) /\ at' = "name"
         \/ IsArray(t) /\ at' = "first"
  BY DEF OpenMove
<1>3. ~Closes(t) /\ (IsObject(f) <=> IsObject(t)) /\ (IsArray(f) <=> IsArray(t))
  <2>1. ~Closes(t)
    BY <1>2, Types3
  <2>. QED  BY <1>1, <2>1 DEF IsObject, IsArray
<1>4. /\ n = Len(input) /\ n \in Nat /\ Len(input') = n + 1
      /\ Depth(n) = L /\ IsSeq(frames) /\ L \in Nat
  BY DepthNow
<1>5. /\ Depth(n + 1)' = L + 1 /\ input'[n + 1] = t
      /\ \A i \in 1 .. n : input'[i] = input[i]
      /\ \A i \in 0 .. n : Depth(i)' = Depth(i)
  BY <1>2, <1>3, <1>4 DEF GrownBy
<1>6. /\ Len(frames') = L + 1 /\ frames'[L + 1] = f /\ frames' # <<>>
      /\ \A i \in 1 .. L : frames'[i] = frames[i]
  BY <1>1, <1>4, AppendGrows DEF Grown
<1>7. Top' = f
  BY <1>6 DEF Top, Last
<1>8. Openers'
  <2>1. ASSUME NEW k \in 1 .. L + 1
        PROVE  \E o \in 1 .. n + 1 :
                 /\ Opens(input'[o]) /\ frames'[k].type = input'[o].type /\ Depth(o)' = k
                 /\ \A j \in o + 1 .. n + 1 : Depth(j)' = k => ~Opens(input'[j])
    <3>1. CASE k = L + 1
      <4>1. n + 1 \in 1 .. n + 1 /\ (n + 1) + 1 .. n + 1 = {}
        BY <1>4
      <4>. QED  BY <1>1, <1>2, <1>5, <1>6, <3>1, <4>1
    <3>2. CASE k # L + 1
      <4>1. k \in 1 .. L /\ frames'[k] = frames[k]
        BY <1>4, <1>6, <3>2
      <4>2. PICK o \in 1 .. n :
              /\ Opens(input[o]) /\ frames[k].type = input[o].type /\ Depth(o) = k
              /\ \A j \in o + 1 .. n : Depth(j) = k => ~Opens(input[j])
        BY <1>4, <4>1 DEF GrammarMatch, Openers
      <4>3. o \in 1 .. n + 1 /\ o \in 0 .. n
        BY <1>4
      <4>4. ASSUME NEW j \in o + 1 .. n + 1, Depth(j)' = k  PROVE ~Opens(input'[j])
        <5>1. j # n + 1
          BY <1>5, <3>2, <4>4
        <5>2. j \in o + 1 .. n /\ j \in 1 .. n /\ j \in 0 .. n
          BY <1>4, <5>1
        <5>. QED  BY <1>5, <4>2, <4>4, <5>2
      <4>. QED  BY <1>5, <4>1, <4>2, <4>3, <4>4
    <3>. QED  BY <3>1, <3>2
  <2>. QED  BY <1>4, <1>6, <2>1 DEF Openers
<1>9. HaveNames'
  <2>1. ASSUME NEW k \in 1 .. L + 1, IsObject(frames'[k]), k < L + 1 \/ at' # "name"
        PROVE  frames'[k].name # Empty
    <3>1. k # L + 1
      <4>1. SUFFICES ASSUME k = L + 1  PROVE FALSE
        OBVIOUS
      <4>2. IsObject(t) /\ at' # "name"
        BY <1>3, <1>4, <1>6, <2>1, <4>1
      <4>. QED  BY <1>2, <4>2, Types3
    <3>2. k \in 1 .. L /\ frames'[k] = frames[k] /\ at # "name"
      BY <1>2, <1>4, <1>6, <3>1
    <3>. QED  BY <2>1, <3>2 DEF GrammarMatch, HaveNames
  <2>. QED  BY <1>6, <2>1 DEF HaveNames
<1>10. Ends'
  <2>1. (IsObject(t) => InObject') /\ (IsArray(t) => InArray')
    BY <1>3, <1>6, <1>7 DEF InObject, InArray
  <2>. QED  BY <1>1, <1>2, <1>7, <2>1, EndsNow
<1>. QED  BY <1>8, <1>9, <1>10

\* An object or an array is ended.
LEMMA CloseReads ==
  ASSUME TextMatch, GrammarMatch, NEW t, NEW n, GrownBy(t, n), CloseMove(t), TextMatch'
  PROVE  Openers' /\ HaveNames' /\ Ends'
<1>. DEFINE L == Len(frames)
<1>1. PICK v : Complete(Pop, v)
  BY DEF CloseMove
<1>2. at \in {"first", "item", "name", "comma"} /\ Closes(t)
  BY DEF CloseMove
<1>3. ~Opens(t) /\ ~IsObject(t) /\ ~IsArray(t) /\ ~IsComma(t) /\ t.type # "string" /\ t.type # ":"
  BY <1>2, TypesDiffer
<1>4. frames # <<>>
  BY <1>2 DEF TextMatch, Where, InArray, InObject
<1>5. IsSeq(frames) /\ frames' = Pop
  BY <1>1, CompleteIs, DepthNow
<1>6. /\ L \in Nat \ {0} /\ Len(frames') = L - 1 /\ \A k \in 1 .. L - 1 : frames'[k] = frames[k]
  BY <1>4, <1>5, FrontFalls DEF Pop
<1>7. Openers'
  BY <1>3, <1>6, OpenersStay DEF GrammarMatch
<1>8. HaveNames'
  BY <1>6, NamesStay DEF GrammarMatch
<1>9. at' \in {"root", "comma", "item"}
  BY <1>1 DEF Complete
<1>10. (at' = "comma" => InObject') /\ (at' = "item" => InArray')
  BY DEF TextMatch, Where
<1>11. Ends'
  BY <1>3, <1>9, <1>10, EndsNow
<1>. QED  BY <1>7, <1>8, <1>11

\* A name is kept by the innermost call; it is not empty in an ordinary text.
LEMMA NameReads ==
  ASSUME TextMatch, GrammarMatch, NEW t, NEW n, GrownBy(t, n), NameMove(t), TextMatch',
         t.text # Empty
  PROVE  Openers' /\ HaveNames' /\ Ends'
<1>. DEFINE L == Len(frames)
<1>1. /\ at = "name" /\ at' = "colon" /\ t = String(t.text)
      /\ frames' = Append(Pop, Object(t.text)) /\ ~Opens(t)
  BY DEF NameMove, Flat
<1>2. InObject
  BY <1>1 DEF TextMatch, Where
<1>3. n > 0 /\ n = Len(input) /\ IsSeq(frames) /\ frames # <<>>
  BY <1>2, DepthNow DEF InObject
<1>4. /\ IsSeq(Pop) /\ L \in Nat \ {0} /\ Len(Pop) = L - 1
      /\ \A i \in 1 .. L - 1 : Pop[i] = frames[i]
  BY <1>3, FrontFalls DEF Pop
<1>5. Grown(Pop, Object(t.text), frames')
  BY <1>1, <1>4, AppendGrows
<1>6. /\ Len(frames') = L /\ frames'[L] = Object(t.text)
      /\ \A i \in 1 .. L - 1 : frames'[i] = frames[i]
  BY <1>4, <1>5 DEF Grown
<1>7. IsObject(Object(t.text)) /\ Object(t.text).name = t.text
  BY DEF IsObject, Object
<1>8. Openers'
  <2>1. frames[L].type = Object(t.text).type
    BY <1>2, <1>7 DEF InObject, IsObject, Top, Last
  <2>2. \A k \in 1 .. L : frames'[k].type = frames[k].type
    BY <1>4, <1>6, <2>1
  <2>. QED  BY <1>1, <1>4, <1>6, <2>2, OpenersStay DEF GrammarMatch
<1>9. HaveNames'
  <2>1. \A k \in 1 .. L : k = L \/ (k \in 1 .. L - 1 /\ k < L)
    BY <1>4
  <2>2. \A k \in 1 .. L - 1 : IsObject(frames[k]) => frames[k].name # Empty
    BY <1>4 DEF GrammarMatch, HaveNames
  <2>. QED  BY <1>6, <1>7, <2>1, <2>2 DEF HaveNames
<1>10. Ends'
  <2>1. InObject'
    BY <1>1 DEF TextMatch, Where
  <2>2. IsObject(input[n]) \/ IsComma(input[n])
    BY <1>1, <1>3 DEF GrammarMatch, Ends
  <2>3. t.type = "string"
    BY <1>1, Types3
  <2>. QED  BY <1>1, <1>3, <2>1, <2>2, <2>3, EndsNow
<1>. QED  BY <1>8, <1>9, <1>10

\* A colon leaves a value to come, a comma the next item or member.
LEMMA SeparatorReads ==
  ASSUME TextMatch, GrammarMatch, NEW t, NEW n, GrownBy(t, n), ColonMove(t) \/ CommaMove(t),
         Accepted(t)
  PROVE  Openers' /\ HaveNames' /\ Ends'
<1>1. /\ frames' = frames /\ ~Opens(t) /\ ~Closes(t)
      /\ at \in {"colon", "item", "comma"}
  <2>1. t.type = ":" => ~Opens(t) /\ ~Closes(t)
    BY DEF Opens, Closes
  <2>. QED  BY <2>1 DEF ColonMove, CommaMove, Flat
<1>2. Where
  BY DEF TextMatch
<1>3. frames # <<>>
  BY <1>1, <1>2 DEF Where, InArray, InObject
<1>4. Len(frames) \in Nat \ {0}
  BY <1>3, DepthNow
<1>5. Openers'
  BY <1>1, <1>4, OpenersStay DEF GrammarMatch
<1>6. HaveNames'
  BY <1>1, <1>4, NamesStay DEF GrammarMatch
<1>7. (InObject => InObject') /\ (InArray => InArray') /\ Top' = Top
  BY <1>1 DEF InObject, InArray, Top
<1>8. CASE ColonMove(t)
  <2>1. at = "colon" /\ at' = "value" /\ t.type = ":"
    BY <1>8 DEF ColonMove
  <2>2. InObject'
    BY <1>2, <1>7, <2>1 DEF Where
  <2>. QED  BY <1>5, <1>6, <2>1, <2>2, EndsNow
<1>9. CASE CommaMove(t)
  <2>1. IsComma(t)
    <3>1. ~EndsArray(t) /\ ~EndsObject(t)
      BY <1>1, TypesDiffer
    <3>2. at = "item" \/ at = "comma"
      BY <1>9 DEF CommaMove
    <3>. QED  BY <3>1, <3>2 DEF Accepted
  <2>2. CASE at = "item"
    <3>1. at' = "value" /\ InArray'
      BY <1>2, <1>7, <1>9, <2>2 DEF CommaMove, Where
    <3>. QED  BY <1>5, <1>6, <2>1, <3>1, EndsNow
  <2>3. CASE at = "comma"
    <3>1. at' = "name" /\ InObject /\ InObject'
      BY <1>2, <1>7, <1>9, <2>3 DEF CommaMove, Where
    <3>2. Top.name # Empty
      <4>1. Top = frames[Len(frames)] /\ Len(frames) \in 1 .. Len(frames)
        BY <1>4 DEF Top, Last
      <4>. QED  BY <2>3, <3>1, <4>1 DEF GrammarMatch, HaveNames, InObject
    <3>. QED  BY <1>5, <1>6, <1>7, <2>1, <3>1, <3>2, EndsNow
  <2>. QED  BY <1>9, <2>2, <2>3 DEF CommaMove
<1>. QED  BY <1>8, <1>9

\* The one token after the value is not looked at.
LEMMA RootReads ==
  ASSUME TextMatch, GrammarMatch, RootMove
  PROVE  GrammarMatch'
<1>1. /\ at = "root" /\ at' \in {"root", "parsed"} /\ frames' = frames /\ input' = input
  BY DEF RootMove
<1>2. frames = <<>> /\ 1 .. Len(frames) = {}
  <2>1. frames = <<>>
    BY <1>1 DEF TextMatch, Where, InArray, InObject
  <2>. QED  BY <2>1, EmptyIsSeq
<1>3. Openers' /\ HaveNames'
  BY <1>1, <1>2 DEF Openers, HaveNames
<1>4. Ends'
  BY <1>1, Zenon DEF Ends
<1>5. \A i : Follows(i)' <=> Follows(i)
  BY <1>1 DEF Follows, Inside, Named, Depth
<1>. QED  BY <1>1, <1>3, <1>4, <1>5 DEF GrammarMatch

\* A text that has just got its first error: what was read last may not stand there, all
\* before it may.
JustFailed ==
  \A i \in 0 .. Len(input) - 1 : Follows(i) <=> i # Len(input) - 1

\* Every token of an ordinary text keeps the grammar, or is the first that may not
\* stand where it does.
LEMMA GrammarKept ==
  ASSUME TextInv, ReadToken, errors = 0, Ordinary', at' # "thrown",
         Ordinary => GrammarMatch, TextInv'
  PROVE  /\ errors' = 0 => GrammarMatch'
         /\ errors' > 0 => JustFailed'
<1>1. at # "thrown" /\ at # "parsed"
  BY DEF ReadToken
<1>2. RestOK /\ IsSeq(input) /\ (Ordinary => TextMatch)
  BY <1>1 DEF TextInv
<1>3. /\ Where /\ Ordinary
      /\ \/ RootMove /\ errors' = 0
         \/ \E t : /\ IsToken(t) /\ input' = Append(input, t) /\ at # "root"
                   /\ errors' = 0 <=> Accepted(t)
                   /\ errors' = 0 =>
                        \/ ScalarMove(t) \/ OpenMove(t) \/ CloseMove(t)
                        \/ NameMove(t) \/ ColonMove(t) \/ CommaMove(t)
  BY <1>2, Moves DEF TextMatch
<1>4. TextMatch /\ GrammarMatch
  BY <1>2, <1>3
<1>5. CASE RootMove /\ errors' = 0
  BY <1>4, <1>5, RootReads
<1>6. ASSUME NEW t, IsToken(t), input' = Append(input, t), at # "root",
             errors' = 0 <=> Accepted(t),
             errors' = 0 => \/ ScalarMove(t) \/ OpenMove(t) \/ CloseMove(t)
                            \/ NameMove(t) \/ ColonMove(t) \/ CommaMove(t)
      PROVE  (errors' = 0 => GrammarMatch') /\ (errors' > 0 => JustFailed')
  <2>1. PICK n : GrownBy(t, n)
    BY <1>2, <1>6, InputGrows
  <2>2. n \in Nat /\ n = Len(input) /\ Len(input') = n + 1 /\ input'[n + 1] = t
    BY <2>1 DEF GrownBy
  <2>3. Follows(n)' <=> errors' = 0
    BY <1>1, <1>4, <1>6, <2>1, AcceptedIs DEF GrammarMatch
  <2>4. \A i \in 0 .. n - 1 : Follows(i)'
    <3>1. \A i \in 0 .. n - 1 : Follows(i)
      BY <1>4, <2>2 DEF GrammarMatch
    <3>. QED  BY <2>1, <3>1, FollowsStays
  <2>5. ASSUME errors' > 0  PROVE JustFailed'
    <3>1. ~Follows(n)'
      BY <2>3, <2>5
    <3>2. \A i \in 0 .. n : (Follows(i)' <=> i # n)
      <4>1. \A i \in 0 .. n : i = n \/ i \in 0 .. n - 1
        BY <2>2
      <4>. QED  BY <2>2, <2>4, <3>1, <4>1
    <3>3. Len(input') - 1 = n
      BY <2>2
    <3>. QED  BY <3>2, <3>3 DEF JustFailed
  <2>6. ASSUME errors' = 0  PROVE GrammarMatch'
    <3>1. Accepted(t) /\ Follows(n)'
      BY <1>6, <2>3, <2>6
    <3>2. TextMatch'
      BY <1>3, <2>6 DEF TextInv
    <3>3. NameMove(t) => t.text # Empty
      <4>1. n + 1 \in DOMAIN input'
        BY <2>2, LenProperties DEF TextInv, IsSeq
      <4>2. t # String(Empty)
        BY <2>2, <4>1 DEF Ordinary
      <4>. QED  BY <4>2 DEF NameMove
    <3>4. Openers' /\ HaveNames' /\ Ends'
      BY <1>4, <1>6, <2>1, <2>6, <3>1, <3>2, <3>3, ScalarReads, OpenReads, CloseReads, NameReads,
         SeparatorReads
    <3>5. \A i \in 0 .. Len(input') - 1 : Follows(i)'
      BY <1>4, <2>1, <3>1, FollowsAll
    <3>. QED  BY <3>4, <3>5 DEF GrammarMatch
  <2>. QED  BY <2>5, <2>6
<1>. QED  BY <1>3, <1>5, <1>6

-----------------------------------------------------------------------------
(* Texts are read as they are written.                                       *)

\* What is kept of the grammar while a text is read.
GrammarInv ==
  /\ errors = 0 /\ Ordinary /\ at # "thrown" => GrammarMatch
  /\ errors > 0 /\ input # <<>> /\ Ordinary /\ at # "thrown" => JustFailed

\* No token has been read.
LEMMA GrammarInit ==
  DInit => GrammarInv
<1>. SUFFICES ASSUME DInit  PROVE GrammarInv
  OBVIOUS
<1>1. input = <<>> /\ frames = <<>> /\ at = "value" /\ errors = 0
  BY DEF DInit, ReaderInit
<1>2. Len(input) = 0 /\ Len(frames) = 0
  BY <1>1, EmptyIsSeq
<1>3. Openers /\ HaveNames
  BY <1>2 DEF Openers, HaveNames
<1>4. Ends
  BY <1>1, Zenon DEF Ends
<1>5. \A i \in 0 .. Len(input) - 1 : Follows(i)
  BY <1>2
<1>. QED  BY <1>1, <1>3, <1>4, <1>5 DEF GrammarInv, GrammarMatch

\* What reads nothing keeps it.
LEMMA GrammarUntouched ==
  ASSUME GrammarInv, UNCHANGED <<input, frames, at, errors>>
  PROVE  GrammarInv'
<1>1. input' = input /\ frames' = frames /\ at' = at /\ errors' = errors
  OBVIOUS
<1>2. Ordinary' <=> Ordinary
  BY <1>1 DEF Ordinary
<1>3. /\ \A i : Depth(i)' = Depth(i) /\ (Follows(i)' <=> Follows(i))
      /\ Named(Len(input))' <=> Named(Len(input))
  BY <1>1 DEF Follows, Inside, Named, Depth
<1>4. JustFailed' <=> JustFailed
  BY <1>1, <1>3 DEF JustFailed
<1>5. Openers' <=> Openers
  BY <1>1, <1>3 DEF Openers
<1>6. HaveNames' <=> HaveNames
  BY <1>1 DEF HaveNames
<1>7. Ends' <=> Ends
  BY <1>1, <1>3 DEF Ends, InArray, InObject, Top
<1>8. GrammarMatch' <=> GrammarMatch
  BY <1>1, <1>3, <1>5, <1>6, <1>7 DEF GrammarMatch
<1>. QED  BY <1>1, <1>2, <1>4, <1>8 DEF GrammarInv

\* A token is read: behind an error the text is none any more.
LEMMA GrammarRead ==
  ASSUME TextInv, GrammarInv, Parse, TextInv'
  PROVE  GrammarInv'
<1>1. ReadToken /\ errors \in Nat /\ at # "thrown"
  BY DEF Parse, ReadToken, TextInv
<1>2. CASE errors = 0
  <2>1. Ordinary => GrammarMatch
    BY <1>1, <1>2 DEF GrammarInv
  <2>2. Ordinary' /\ at' # "thrown" =>
          (errors' = 0 => GrammarMatch') /\ (errors' > 0 => JustFailed')
    BY <1>1, <1>2, <2>1, GrammarKept
  <2>. QED  BY <2>2 DEF GrammarInv
<1>3. CASE errors > 0
  <2>1. PICK t : Take(t)
    BY <1>1 DEF ReadToken
  <2>2. input' = <<>>
    BY <1>3, <2>1 DEF Take, Record
  <2>3. errors' # 0
    BY <1>1, <1>3, ErrorsCounted
  <2>. QED  BY <2>2, <2>3 DEF GrammarInv
<1>. QED  BY <1>1, <1>2, <1>3

\* Every step keeps it.
LEMMA GrammarStep ==
  TextInv /\ GrammarInv /\ [DNext]_dvars => GrammarInv'
<1>. SUFFICES ASSUME TextInv, GrammarInv, [DNext]_dvars  PROVE GrammarInv'
  OBVIOUS
<1>1. CASE Parse
  BY <1>1, TextStep, GrammarRead
<1>2. CASE ~Parse
  <2>1. UNCHANGED <<input, frames, at, errors>>
    BY <1>2 DEF DNext, Radio, Press, Begin, SelectTSAPIInterface, readerVars, dvars
  <2>. QED  BY <2>1, GrammarUntouched
<1>. QED  BY <1>1, <1>2

\* ReadsText, for texts of every length and depth: what the reader takes is what may
\* stand where it stands, the first token that may not is an error, and the value is
\* read when all that was begun is ended (jsoncpp.cpp 343 to 463, 680 to 772).
THEOREM TextsRead ==
  DSpec => []ReadsText
<1>1. ASSUME TextInv, GrammarInv, Ordinary, at # "thrown", input # <<>>
      PROVE  /\ \A i \in 0 .. Len(input) - 1 :
                  MayFollow(i) <=> ~(errors > 0 /\ i = Len(input) - 1)
             /\ errors = 0 => (at \in {"root", "parsed"} <=> Depth(Len(input)) = 0)
  <2>1. CASE errors = 0
    <3>1. GrammarMatch /\ TextMatch
      BY <1>1, <2>1 DEF GrammarInv, TextInv
    <3>2. \A i \in 0 .. Len(input) - 1 : MayFollow(i)
      BY <3>1, MayFollowIs DEF GrammarMatch
    <3>3. at \in {"root", "parsed"} <=> frames = <<>>
      BY <1>1, <3>1 DEF TextMatch, Where, InObject, InArray
    <3>4. Depth(Len(input)) = 0 <=> frames = <<>>
      BY <3>1, EmptyIsSeq DEF TextMatch, Stacked
    <3>. QED  BY <2>1, <3>2, <3>3, <3>4
  <2>2. CASE errors > 0
    <3>1. JustFailed
      BY <1>1, <2>2 DEF GrammarInv
    <3>. QED  BY <2>2, <3>1, MayFollowIs DEF JustFailed
  <2>3. errors \in Nat
    BY <1>1 DEF TextInv
  <2>. QED  BY <2>1, <2>2, <2>3
<1>2. TextInv /\ GrammarInv => ReadsText
  BY <1>1 DEF ReadsText
<1>. QED  BY <1>2, TextInit, TextStep, GrammarInit, GrammarStep, PTL DEF DSpec
=============================================================================

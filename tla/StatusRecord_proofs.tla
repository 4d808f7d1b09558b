------------------------ MODULE StatusRecord_proofs -------------------------
(* Proofs about StatusRecord, for every set of texts, rows, vectors and       *)
(* messages: the types, what the vector overload says of the table and leaves *)
(* in its caller's vector, which rows a call may take away, and that the map  *)
(* overloads take and add none.                                               *)
EXTENDS StatusRecord, FiniteSetTheorems, SequenceTheorems, TLAPS

-----------------------------------------------------------------------------
(* The tables.                                                               *)

\* The four tables, and the columns each has.
LEMMA TablesAre ==
  /\ Tables = {"CALLPROCESS", "AGENTSATE", "STATIONSATE", "CALLSTATION"}
  /\ \A t \in Tables : Columns[t] \in Nat
BY DEF Tables, Columns

\* No name the map overloads know is the name of a table.
LEMMA NamesAreNoTables ==
  /\ DOMAIN Fields = {"Callprocess", "Agentstate", "Stationstate", "Callstate"}
  /\ DOMAIN Fields \cap Tables = {}
<1>1. DOMAIN Fields = {"Callprocess", "Agentstate", "Stationstate", "Callstate"}
  BY DEF Fields
<1>. QED  BY <1>1, TablesAre

\* Each name stands for four or five fields.
LEMMA FieldsAre ==
  ASSUME NEW t \in DOMAIN Fields
  PROVE  /\ Len(Fields[t]) \in Nat /\ DOMAIN Fields[t] = 1..Len(Fields[t])
         /\ \A k \in DOMAIN Fields[t] : Fields[t][k] \in AllFields
<1>1. Len(Fields[t]) \in Nat /\ DOMAIN Fields[t] = 1..Len(Fields[t])
  <2>1. CASE t = "Callprocess"
    <3>1. Fields[t] = <<"callID", "calling_devID", "called_devID", "localConnectionInfo", "time">>
      BY <2>1 DEF Fields
    <3>. QED  BY <3>1
  <2>2. CASE t = "Agentstate"
    <3>1. Fields[t] = <<"AgentID", "DeviceID", "AgentState", "time">>
      BY <2>2 DEF Fields
    <3>. QED  BY <3>1
  <2>3. CASE t = "Stationstate"
    <3>1. Fields[t] = <<"AgentID", "DeviceID", "TalkState", "time">>
      BY <2>3 DEF Fields
    <3>. QED  BY <3>1
  <2>4. CASE t = "Callstate"
    <3>1. Fields[t] = <<"callID", "caller", "station", "time">>
      BY <2>4 DEF Fields
    <3>. QED  BY <3>1
  <2>. QED  BY <2>1, <2>2, <2>3, <2>4, NamesAreNoTables
<1>3. \A k \in DOMAIN Fields[t] : Fields[t][k] \in AllFields
  BY DEF AllFields
<1>. QED  BY <1>1, <1>3

\* A row is a sequence of texts, and a sequence of texts of its length is a row.
LEMMA RowsAreTexts ==
  ASSUME NEW t \in Tables
  PROVE  /\ Row(t) \subseteq Seq(Text)
         /\ \A d \in Seq(Text) : Len(d) = Columns[t] => d \in Row(t)
<1>1. Columns[t] \in Nat
  BY TablesAre
<1>2. ASSUME NEW r \in Row(t)  PROVE r \in Seq(Text)
  BY <1>1, <1>2 DEF Row
<1>3. ASSUME NEW d \in Seq(Text), Len(d) = Columns[t]  PROVE d \in Row(t)
  BY <1>3 DEF Row
<1>. QED  BY <1>2, <1>3

\* A message is packed into a sequence of texts.
LEMMA PackedTexts ==
  ASSUME NEW t \in DOMAIN Fields, NEW msg \in Messages
  PROVE  Packed(t, msg) \in Seq(Text) /\ <<>> \o Packed(t, msg) = Packed(t, msg)
<1>. DEFINE f == [k \in DOMAIN Fields[t] |-> msg[Fields[t][k]]]
<1>1. msg \in [AllFields -> Text]
  BY MessagesAssumption
<1>2. f \in Seq(Text)
  BY <1>1, FieldsAre
<1>. HIDE DEF f
<1>3. <<Empty>> \in Seq(Text)
  BY DEF Text
<1>4. <<Empty>> \o f \in Seq(Text)
  BY <1>2, <1>3, ConcatProperties
<1>5. Packed(t, msg) = <<Empty>> \o f
  BY DEF Packed, f
<1>. QED  BY <1>4, <1>5

-----------------------------------------------------------------------------
(* The statements.                                                           *)

\* Every table has finitely many rows, each of the size of the table.
TablesOK ==
  /\ link \in BOOLEAN
  /\ rows \in [Tables -> SUBSET Seq(Text)]
  /\ \A t \in Tables : rows[t] \subseteq Row(t) /\ IsFiniteSet(rows[t])

\* A result that leaves the tables as they should be.
ResultOK(o) ==
  /\ o.ret \in Replies /\ o.data \in Seq(Text)
  /\ o.rows \in [Tables -> SUBSET Seq(Text)]
  /\ \A t \in Tables : o.rows[t] \subseteq Row(t) /\ IsFiniteSet(o.rows[t])

\* A statement that is refused changes nothing.
LEMMA RefusedOK ==
  ASSUME TablesOK, NEW ret \in Replies, NEW d \in Seq(Text), NEW o \in Refused(ret, d)
  PROVE  ResultOK(o) /\ o.ret = ret /\ o.data = d /\ o.rows = rows
BY DEF TablesOK, ResultOK, Refused, Outcome

\* A statement MySQL does not accept, or a query with no row or several.
LEMMA RefusedStatement ==
  ASSUME TablesOK, NEW d \in Seq(Text), NEW o
  PROVE  /\ o \in Refused("SQL error", d) =>
              ResultOK(o) /\ o.ret = "SQL error" /\ o.data = d /\ o.rows = rows
         /\ o \in Refused("not one line", <<>>) =>
              ResultOK(o) /\ o.ret = "not one line" /\ o.data = <<>> /\ o.rows = rows
<1>1. "SQL error" \in Replies /\ "not one line" \in Replies
  BY DEF Replies
<1>2. <<>> \in Seq(Text)
  OBVIOUS
<1>3. ASSUME o \in Refused("SQL error", d)
      PROVE  ResultOK(o) /\ o.ret = "SQL error" /\ o.data = d /\ o.rows = rows
  <2>1. \A ret \in Replies : \A e \in Refused(ret, d) :
          ResultOK(e) /\ e.ret = ret /\ e.data = d /\ e.rows = rows
    BY RefusedOK
  <2>. QED  BY <1>1, <1>3, <2>1
<1>4. ASSUME o \in Refused("not one line", <<>>)
      PROVE  ResultOK(o) /\ o.ret = "not one line" /\ o.data = <<>> /\ o.rows = rows
  <2>1. \A ret \in Replies : \A e \in Refused(ret, <<>>) :
          ResultOK(e) /\ e.ret = ret /\ e.data = <<>> /\ e.rows = rows
    BY <1>2, RefusedOK
  <2>. QED  BY <1>1, <1>4, <2>1
<1>. QED  BY <1>3, <1>4

\* A set with one element is that element's singleton.
LEMMA OnlyElement ==
  ASSUME NEW S, IsFiniteSet(S), Cardinality(S) = 1, NEW r \in S
  PROVE  S = {r}
<1>1. /\ IsFiniteSet(S \ {r})
      /\ Cardinality(S \ {r}) = Cardinality(S) - 1
  BY FS_RemoveElement
<1>2. S \ {r} = {}
  BY <1>1, FS_EmptySet
<1>. QED  BY <1>2

\* A statement of altered meaning that MySQL does not accept.
LEMMA GarbledOK ==
  ASSUME TablesOK, NEW d \in Seq(Text), NEW o \in Garbled(d)
  PROVE  ResultOK(o) /\ o.ret = "SQL error" /\ o.data = d /\ o.rows = rows
<1>1. o \in Refused("SQL error", d)
  BY DEF Garbled
<1>. QED  BY <1>1, RefusedStatement

\* Of the lines a query finds, its caller gets the only one or none.
LEMMA OneLineOK ==
  ASSUME TablesOK, NEW found \in SUBSET Seq(Text), NEW o \in OneLine(found)
  PROVE  /\ ResultOK(o) /\ o.rows = rows
         /\ o.ret = "successful" => o.data \in found /\ Cardinality(found) = 1
         /\ o.ret = "not one line" => o.data = <<>>
<1>1. CASE Cardinality(found) # 1
  <2>1. o \in Refused("not one line", <<>>)
    BY <1>1 DEF OneLine
  <2>2. <<>> \in Seq(Text)
    OBVIOUS
  <2>. QED  BY <2>1, <2>2, RefusedStatement
<1>2. CASE Cardinality(found) = 1
  <2>1. PICK r \in found : o = Outcome("successful", rows, r)
    BY <1>2 DEF OneLine
  <2>. QED  BY <1>2, <2>1 DEF Outcome, ResultOK, TablesOK, Replies
<1>. QED  BY <1>1, <1>2

\* StatusRecord::Select reads; what it finds for plain texts is the only row
\* that matches.
LEMMA SelectOK ==
  ASSUME TablesOK, NEW t \in Tables, NEW d \in Seq(Text), NEW o \in Select(t, d)
  PROVE  /\ ResultOK(o) /\ o.rows = rows
         /\ o.ret = "successful" /\ PlainCall(d) => Matching(t, d) = {o.data}
         /\ o.ret = "not one line" => o.data = <<>>
<1>1. rows[t] \subseteq Seq(Text) /\ IsFiniteSet(rows[t])
  BY DEF TablesOK
<1>2. CASE Fails(d)
  <2>1. o \in Refused("SQL error", d)
    BY <1>2 DEF Select
  <2>. QED  BY <2>1, RefusedStatement
<1>3. CASE o \in Garbled(d)
  BY <1>3, GarbledOK
<1>4. CASE ~Fails(d) /\ o \notin Garbled(d)
  <2>1. PICK found \in Results(t, d) : o \in OneLine(found)
    BY <1>4 DEF Select
  <2>2. found \in SUBSET Seq(Text)
    BY <1>1, <2>1, LinesAssumption DEF Results, Matching
  <2>3. /\ ResultOK(o) /\ o.rows = rows
        /\ o.ret = "successful" => o.data \in found /\ Cardinality(found) = 1
        /\ o.ret = "not one line" => o.data = <<>>
    BY <2>1, <2>2, OneLineOK
  <2>4. ASSUME PlainCall(d), o.ret = "successful"
        PROVE  Matching(t, d) = {o.data}
    <3>1. found = Matching(t, d)
      BY <2>1, <2>4 DEF Results
    <3>2. IsFiniteSet(Matching(t, d))
      BY <1>1, FS_Subset DEF Matching
    <3>. QED  BY <2>3, <2>4, <3>1, <3>2, OnlyElement
  <2>. QED  BY <2>3, <2>4
<1>. QED  BY <1>2, <1>3, <1>4

\* StatusRecord::Insert adds a row at most and takes none away.
LEMMA InsertOK ==
  ASSUME TablesOK, NEW t \in Tables, NEW d \in Seq(Text), Len(d) = Columns[t],
         NEW o \in Insert(t, d)
  PROVE  ResultOK(o) /\ o.data = d /\ \A u \in Tables : rows[u] \subseteq o.rows[u]
<1>1. CASE o \in Refused("SQL error", d)
  BY <1>1, RefusedStatement
<1>2. CASE o \notin Refused("SQL error", d)
  <2>. DEFINE rs == [rows EXCEPT ![t] = @ \cup {d}]
  <2>1. o = Outcome("successful", rs, d)
    BY <1>2 DEF Insert
  <2>2. d \in Row(t)
    BY RowsAreTexts
  <2>3. IsFiniteSet(rows[t] \cup {d})
    BY FS_AddElement DEF TablesOK
  <2>4. /\ rs \in [Tables -> SUBSET Seq(Text)]
        /\ \A u \in Tables : rs[u] \subseteq Row(u) /\ IsFiniteSet(rs[u]) /\ rows[u] \subseteq rs[u]
    BY <2>2, <2>3 DEF TablesOK
  <2>. HIDE DEF rs
  <2>. QED  BY <2>1, <2>4 DEF ResultOK, Outcome, Replies
<1>. QED  BY <1>1, <1>2

\* StatusRecord::Delete was given a field and takes away rows of its table; rows
\* that have every field it was given, if those are plain.
LEMMA DeleteOK ==
  ASSUME TablesOK, NEW t \in Tables, NEW d \in Seq(Text), NEW o \in Delete(t, d)
  PROVE  /\ ResultOK(o) /\ o.data = d
         /\ \A u \in Tables : \A r \in rows[u] \ o.rows[u] :
              /\ u = t /\ Given(d) # {}
              /\ PlainCall(d) => \A k \in Given(d) : r[k] = d[k]
<1>1. CASE Fails(d)
  <2>1. o \in Refused("SQL error", d)
    BY <1>1 DEF Delete
  <2>. QED  BY <2>1, RefusedStatement
<1>2. CASE o \in Garbled(d)
  BY <1>2, GarbledOK
<1>3. CASE ~Fails(d) /\ o \notin Garbled(d)
  <2>1. PICK met \in Meanings(t, d) :
          o = Outcome("successful", [rows EXCEPT ![t] = @ \ met], d)
    BY <1>3 DEF Delete
  <2>. DEFINE rs == [rows EXCEPT ![t] = @ \ met]
  <2>2. IsFiniteSet(rows[t] \ met)
    BY FS_Difference DEF TablesOK
  <2>3. PlainCall(d) => met = Matching(t, d)
    BY <2>1 DEF Meanings
  <2>4. /\ rs \in [Tables -> SUBSET Seq(Text)]
        /\ \A u \in Tables : rs[u] \subseteq Row(u) /\ IsFiniteSet(rs[u])
        /\ \A u \in Tables : \A r \in rows[u] \ rs[u] : u = t /\ r \in met
    BY <2>2 DEF TablesOK
  <2>5. Given(d) # {}
    BY <1>3 DEF Fails
  <2>. HIDE DEF rs
  <2>6. o.rows = rs /\ o.data = d /\ o.ret = "successful"
    BY <2>1 DEF Outcome, rs
  <2>7. ResultOK(o)
    BY <2>4, <2>6 DEF ResultOK, Replies
  <2>8. PlainCall(d) => \A r \in met : \A k \in Given(d) : r[k] = d[k]
    BY <2>3 DEF Matching
  <2>. QED  BY <2>4, <2>5, <2>6, <2>7, <2>8
<1>. QED  BY <1>1, <1>2, <1>3

\* The vector overload: a request either is refused with the vector and the
\* tables as they were, or is the statement its method names.
LEMMA RequestSplits ==
  ASSUME NEW t, NEW m, NEW d, NEW o \in Request(t, m, d)
  PROVE  \/ \E ret \in Replies \ {"successful", "not one line"} : o \in Refused(ret, d)
         \/ /\ t \in Tables /\ Len(d) = Columns[t]
            /\ \/ m = "Select" /\ o \in Select(t, d)
               \/ m = "Insert" /\ o \in Insert(t, d)
               \/ m = "Delete" /\ o \in Delete(t, d)
BY DEF Request, Replies

\* What a request with a vector may give: a query changes no table and finds the
\* only row there is; anything else leaves the vector, and only a delete takes
\* rows away, of its table and with every field it was given; the rows are those
\* of the fields when the texts given are plain.
VectorResult(t, m, d, o) ==
  /\ ResultOK(o)
  /\ m # "Select" => o.data = d
  /\ m = "Select" =>
       /\ o.rows = rows
       /\ o.ret = "successful" /\ PlainCall(d) => Matching(t, d) = {o.data}
       /\ o.ret = "not one line" => o.data = <<>>
  /\ \A u \in Tables : \A r \in rows[u] \ o.rows[u] :
       /\ m = "Delete" /\ u = t /\ Given(d) # {}
       /\ PlainCall(d) => \A k \in Given(d) : r[k] = d[k]

\* Every request with a vector gives one of these.
LEMMA RequestOK ==
  ASSUME TablesOK, NEW t \in TableNames, NEW m \in Methods, NEW d \in Seq(Text),
         NEW o \in Request(t, m, d)
  PROVE  VectorResult(t, m, d, o)
<1>. USE DEF VectorResult
<1>1. ASSUME NEW ret \in Replies \ {"successful", "not one line"}, o \in Refused(ret, d)
      PROVE  ResultOK(o) /\ o.ret = ret /\ o.data = d /\ o.rows = rows
  <2>1. \A s \in Replies : \A e \in Refused(s, d) :
          ResultOK(e) /\ e.ret = s /\ e.data = d /\ e.rows = rows
    BY RefusedOK
  <2>. QED  BY <1>1, <2>1
<1>2. CASE t \in Tables /\ m = "Select" /\ o \in Select(t, d)
  BY <1>2, SelectOK
<1>3. CASE t \in Tables /\ Len(d) = Columns[t] /\ m = "Insert" /\ o \in Insert(t, d)
  BY <1>3, InsertOK
<1>4. CASE t \in Tables /\ m = "Delete" /\ o \in Delete(t, d)
  BY <1>4, DeleteOK
<1>5. CASE \E ret \in Replies \ {"successful", "not one line"} : o \in Refused(ret, d)
  BY <1>1, <1>5
<1>. QED  BY <1>2, <1>3, <1>4, <1>5, RequestSplits

\* The map overloads: no name of theirs gets past the tests of the table name,
\* so nothing is sent to the database.
LEMMA PackedIsRefused ==
  ASSUME NEW t \in TableNames, NEW m, NEW msg \in Messages,
         NEW o \in RequestPacked(t, m, msg, <<>>)
  PROVE  \E ret \in {"wrong table", "illegal table"}, d \in Seq(Text) :
           o = Outcome(ret, rows, d)
<1>1. CASE t \notin DOMAIN Fields
  <2>1. o = Outcome("wrong table", rows, Append(<<>>, Empty))
    BY <1>1 DEF RequestPacked, Refused
  <2>2. Append(<<>>, Empty) \in Seq(Text)
    BY DEF Text
  <2>. QED  BY <2>1, <2>2
<1>2. CASE t \in DOMAIN Fields
  <2>1. t \notin Tables
    BY <1>2, NamesAreNoTables
  <2>2. o \in Request(t, m, Packed(t, msg)) /\ Packed(t, msg) \in Seq(Text)
    BY <1>2, PackedTexts DEF RequestPacked
  <2>3. o = Outcome("illegal table", rows, Packed(t, msg))
    BY <2>1, <2>2 DEF Request, Refused
  <2>. QED  BY <2>2, <2>3
<1>. QED  BY <1>1, <1>2

-----------------------------------------------------------------------------
(* The calls.                                                                *)

\* What is true of the tables, of the caller's vector and of the last call.
LastOK ==
  last = NoCall \/
    /\ last.overload \in {"vector", "map", "map and vector"}
    /\ last.table \in TableNames /\ last.method \in Methods
    /\ last.given \in Seq(Text) /\ last.ret \in Replies
RecordInv ==
  TablesOK /\ data \in Seq(Text) /\ LastOK /\ OnlySelectWritesData /\ SelectIsTheRow

\* A call of the vector overload.
LEMMA VectorInv ==
  ASSUME RecordInv, NEW t \in TableNames, NEW m \in Methods, NEW d \in Vectors,
         RequestVector(t, m, d)
  PROVE  /\ RecordInv'
         /\ last'.method = m /\ last'.table = t /\ last'.given = d /\ last'.overload = "vector"
         /\ \A u \in Tables : \A r \in rows[u] \ rows'[u] :
              /\ m = "Delete" /\ u = t /\ Given(d) # {}
              /\ PlainCall(d) => \A k \in Given(d) : r[k] = d[k]
<1>. DEFINE l(o) == [overload |-> "vector", table |-> t, method |-> m, given |-> d, ret |-> o.ret]
<1>0. d \in Seq(Text)
  BY VectorsAssumption
<1>1. PICK o \in Request(t, m, d) :
        rows' = o.rows /\ data' = o.data /\ last' = l(o) /\ link' = link
  BY DEF RequestVector, Reply
<1>2. /\ ResultOK(o)
      /\ m # "Select" => o.data = d
      /\ m = "Select" =>
           /\ o.rows = rows
           /\ o.ret = "successful" /\ PlainCall(d) => Matching(t, d) = {o.data}
           /\ o.ret = "not one line" => o.data = <<>>
      /\ \A u \in Tables : \A r \in rows[u] \ o.rows[u] :
           /\ m = "Delete" /\ u = t /\ Given(d) # {}
           /\ PlainCall(d) => \A k \in Given(d) : r[k] = d[k]
  <2>1. TablesOK
    BY DEF RecordInv
  <2>2. o \in Request(t, m, d)
    BY <1>1
  <2>3. VectorResult(t, m, d, o)
    BY <1>0, <2>1, <2>2, RequestOK
  <2>. QED  BY <2>3 DEF VectorResult
<1>3. TablesOK' /\ data' \in Seq(Text)
  BY <1>1, <1>2 DEF RecordInv, TablesOK, ResultOK
<1>4. /\ last'.overload = "vector" /\ last'.table = t /\ last'.method = m
      /\ last'.given = d /\ last'.ret = o.ret
  BY <1>1
<1>5. LastOK'
  BY <1>0, <1>2, <1>4 DEF LastOK, ResultOK
<1>6. OnlySelectWritesData'
  BY <1>1, <1>2, <1>4 DEF OnlySelectWritesData
<1>7. SelectIsTheRow'
  <2>. SUFFICES ASSUME m = "Select"
                PROVE  /\ o.ret = "successful" /\ PlainCall(d) => Matching(t, d)' = {o.data}
                       /\ o.ret = "not one line" => o.data = <<>>
    BY <1>1, <1>4 DEF SelectIsTheRow, Matching, PlainCall, Given
  <2>1. Matching(t, d)' = Matching(t, d)
    BY <1>1, <1>2 DEF Matching
  <2>. QED  BY <1>2, <2>1
<1>. QED  BY <1>1, <1>2, <1>3, <1>4, <1>5, <1>6, <1>7 DEF RecordInv

\* A call of an overload that takes a message.
LEMMA MapInv ==
  ASSUME RecordInv, NEW t \in TableNames, NEW m \in Methods, NEW msg \in Messages,
         RequestMap(t, m, msg) \/ RequestMapVector(t, m, msg)
  PROVE  /\ RecordInv' /\ rows' = rows
         /\ last'.overload # "vector" /\ last'.ret \in {"wrong table", "illegal table"}
<1>1. PICK o \in RequestPacked(t, m, msg, <<>>) :
        /\ rows' = o.rows /\ link' = link /\ data' \in {<<>>, o.data}
        /\ last'.overload \in {"map", "map and vector"} /\ last'.table = t /\ last'.method = m
        /\ last'.given \in {<<>>, IF t \in DOMAIN Fields THEN Packed(t, msg) ELSE <<>>}
        /\ last'.ret = o.ret
  <2>1. ASSUME NEW o \in RequestPacked(t, m, msg, <<>>),
               Reply("map", t, m, IF t \in DOMAIN Fields THEN Packed(t, msg) ELSE <<>>,
                     [o EXCEPT !.data = <<>>])
        PROVE  /\ rows' = o.rows /\ link' = link /\ data' \in {<<>>, o.data}
               /\ last'.overload \in {"map", "map and vector"} /\ last'.table = t /\ last'.method = m
               /\ last'.given \in {<<>>, IF t \in DOMAIN Fields THEN Packed(t, msg) ELSE <<>>}
               /\ last'.ret = o.ret
    <3>1. PICK ret, d : o = Outcome(ret, rows, d)
      BY PackedIsRefused
    <3>. QED  BY <2>1, <3>1 DEF Reply, Outcome
  <2>2. ASSUME NEW o \in RequestPacked(t, m, msg, <<>>),
               Reply("map and vector", t, m, <<>>, o)
        PROVE  /\ rows' = o.rows /\ link' = link /\ data' \in {<<>>, o.data}
               /\ last'.overload \in {"map", "map and vector"} /\ last'.table = t /\ last'.method = m
               /\ last'.given \in {<<>>, IF t \in DOMAIN Fields THEN Packed(t, msg) ELSE <<>>}
               /\ last'.ret = o.ret
    BY <2>2 DEF Reply
  <2>. QED  BY <2>1, <2>2 DEF RequestMap, RequestMapVector
<1>2. o.rows = rows /\ o.data \in Seq(Text) /\ o.ret \in {"wrong table", "illegal table"}
  <2>1. PICK ret \in {"wrong table", "illegal table"}, d \in Seq(Text) : o = Outcome(ret, rows, d)
    <3>1. o \in RequestPacked(t, m, msg, <<>>)
      BY <1>1
    <3>. QED  BY <3>1, PackedIsRefused
  <2>. QED  BY <2>1 DEF Outcome
<1>3. data' \in Seq(Text) /\ last'.given \in Seq(Text)
  <2>1. <<>> \in Seq(Text)
    OBVIOUS
  <2>2. t \in DOMAIN Fields => Packed(t, msg) \in Seq(Text)
    BY PackedTexts
  <2>. QED  BY <1>1, <1>2, <2>1, <2>2
<1>4. TablesOK'
  BY <1>1, <1>2 DEF RecordInv, TablesOK
<1>5. LastOK'
  BY <1>1, <1>2, <1>3 DEF LastOK, Replies
<1>6. last'.overload # "vector"
  BY <1>1
<1>7. OnlySelectWritesData' /\ SelectIsTheRow'
  BY <1>6 DEF OnlySelectWritesData, SelectIsTheRow
<1>. QED  BY <1>1, <1>2, <1>3, <1>4, <1>5, <1>6, <1>7 DEF RecordInv

\* What other programs and the network do.
LEMMA ExternalInv ==
  ASSUME RecordInv,
         LoseConnection \/ \E t \in Tables : \E r \in Rows[t] : OtherWrites(t, r)
  PROVE  RecordInv' /\ last' = NoCall /\ \A t \in Tables : rows[t] \subseteq rows'[t]
<1>1. data' = <<>> /\ last' = NoCall
  BY DEF LoseConnection, OtherWrites, External
<1>2. TablesOK' /\ \A t \in Tables : rows[t] \subseteq rows'[t]
  <2>1. CASE LoseConnection
    BY <2>1 DEF LoseConnection, RecordInv, TablesOK
  <2>2. ASSUME NEW t \in Tables, NEW r \in Rows[t], OtherWrites(t, r)
        PROVE  TablesOK' /\ \A u \in Tables : rows[u] \subseteq rows'[u]
    <3>1. rows' = [rows EXCEPT ![t] = @ \cup {r}] /\ link' = link
      BY <2>2 DEF OtherWrites
    <3>2. r \in Row(t) /\ r \in Seq(Text)
      BY RowsAssumption, RowsAreTexts
    <3>3. IsFiniteSet(rows[t] \cup {r})
      BY FS_AddElement DEF RecordInv, TablesOK
    <3>. QED  BY <3>1, <3>2, <3>3 DEF RecordInv, TablesOK
  <2>. QED  BY <2>1, <2>2
<1>3. LastOK' /\ OnlySelectWritesData' /\ SelectIsTheRow'
  BY <1>1 DEF LastOK, OnlySelectWritesData, SelectIsTheRow
<1>4. data' \in Seq(Text)
  BY <1>1
<1>. QED  BY <1>1, <1>2, <1>3, <1>4 DEF RecordInv

-----------------------------------------------------------------------------
(* The theorems.                                                             *)

\* The tables are empty at first.
LEMMA InitInv == Init => RecordInv
<1>. SUFFICES ASSUME Init  PROVE RecordInv
  OBVIOUS
<1>1. TablesOK
  BY FS_EmptySet DEF Init, TablesOK
<1>2. data \in Seq(Text) /\ last = NoCall
  BY DEF Init
<1>. QED  BY <1>1, <1>2 DEF RecordInv, LastOK, OnlySelectWritesData, SelectIsTheRow

\* Every step keeps the invariant.
LEMMA NextInv == RecordInv /\ [Next]_vars => RecordInv'
<1>. SUFFICES ASSUME RecordInv, [Next]_vars  PROVE RecordInv'
  OBVIOUS
<1>1. CASE Calls
  BY <1>1, VectorInv, MapInv DEF Calls
<1>2. CASE UNCHANGED vars
  BY <1>2 DEF vars, RecordInv, TablesOK, LastOK, OnlySelectWritesData, SelectIsTheRow, Matching,
            PlainCall, Given
<1>. QED  BY <1>1, <1>2, ExternalInv DEF Next

\* The whole invariant holds in every state.
THEOREM Records == Spec => []RecordInv
<1>. QED  BY InitInv, NextInv, PTL DEF Spec

\* The rows of a table have its columns and the caller's vector holds texts,
\* whatever StatusRecord::Request was called with.
THEOREM TypeCorrect == Spec => []TypeOK
<1>1. RecordInv => TypeOK
  BY DEF RecordInv, TypeOK, TablesOK, LastOK
<1>. QED  BY <1>1, Records, PTL

\* No call of the vector overload but a query changes its caller's vector.
THEOREM OnlySelectWrites == Spec => []OnlySelectWritesData
<1>1. RecordInv => OnlySelectWritesData
  BY DEF RecordInv
<1>. QED  BY <1>1, Records, PTL

\* StatusRecord::Select, given plain texts, leaves the only row with these fields,
\* and it leaves nothing when it did not find one line.
THEOREM SelectFindsTheRow == Spec => []SelectIsTheRow
<1>1. RecordInv => SelectIsTheRow
  BY DEF RecordInv
<1>. QED  BY <1>1, Records, PTL

\* StatusRecord::Delete is the only way a row goes, from the table it names, with
\* one field given at least, and if all of them are plain the row has them.
THEOREM Deletes == Spec => DeletesOnlyAskedFor
<1>. DEFINE Asked ==
       \A t \in Tables : \A r \in rows[t] \ rows'[t] :
         /\ last'.method = "Delete" /\ last'.table = t
         /\ \E k \in DOMAIN last'.given : last'.given[k] # Empty
         /\ PlainCall(last'.given) =>
              \A k \in DOMAIN last'.given : last'.given[k] \in {Empty, r[k]}
<1>1. RecordInv /\ [Next]_vars => [Asked]_vars
  <2>. SUFFICES ASSUME RecordInv, Next, NEW u \in Tables, NEW r \in rows[u] \ rows'[u]
                PROVE  /\ last'.method = "Delete" /\ last'.table = u
                       /\ \E k \in DOMAIN last'.given : last'.given[k] # Empty
                       /\ PlainCall(last'.given) =>
                            \A k \in DOMAIN last'.given : last'.given[k] \in {Empty, r[k]}
    OBVIOUS
  <2>1. ASSUME NEW t \in TableNames, NEW m \in Methods, NEW d \in Vectors, RequestVector(t, m, d)
        PROVE  /\ last'.method = "Delete" /\ last'.table = u
               /\ \E k \in DOMAIN last'.given : last'.given[k] # Empty
               /\ PlainCall(last'.given) =>
                            \A k \in DOMAIN last'.given : last'.given[k] \in {Empty, r[k]}
    <3>1. /\ last'.method = m /\ last'.table = t /\ last'.given = d
          /\ m = "Delete" /\ u = t /\ Given(d) # {}
          /\ PlainCall(d) => \A k \in Given(d) : r[k] = d[k]
      BY <2>1, VectorInv
    <3>. QED  BY <3>1 DEF Given
  <2>2. ASSUME NEW t \in TableNames, NEW m \in Methods, NEW msg \in Messages,
               RequestMap(t, m, msg) \/ RequestMapVector(t, m, msg)
        PROVE  FALSE
    BY <2>2, MapInv
  <2>3. ~(LoseConnection \/ \E t \in Tables : \E s \in Rows[t] : OtherWrites(t, s))
    BY ExternalInv
  <2>. QED  BY <2>1, <2>2, <2>3 DEF Next, Calls
<1>. QED  BY <1>1, Records, PTL DEF Spec, DeletesOnlyAskedFor

\* The overloads of StatusRecord::Request that take a message, which is how
\* TSAPIInterface and the routing object record anything, never change a table.
THEOREM MessagesDoNothing == Spec => MessagesChangeNothing
<1>. DEFINE Nothing ==
       last' # NoCall /\ last'.overload # "vector"
         => UNCHANGED rows /\ last'.ret \in {"wrong table", "illegal table"}
<1>1. RecordInv /\ [Next]_vars => [Nothing]_vars
  <2>. SUFFICES ASSUME RecordInv, Next, last' # NoCall, last'.overload # "vector"
                PROVE  rows' = rows /\ last'.ret \in {"wrong table", "illegal table"}
    OBVIOUS
  <2>1. ~(LoseConnection \/ \E t \in Tables : \E s \in Rows[t] : OtherWrites(t, s))
    BY ExternalInv
  <2>. QED  BY <2>1, VectorInv, MapInv DEF Next, Calls
<1>. QED  BY <1>1, Records, PTL DEF Spec, MessagesChangeNothing
=============================================================================

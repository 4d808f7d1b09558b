---------------------------- MODULE StatusRecord ----------------------------
(***************************************************************************)
(* StatusRecord and the part of MySQLInterface under it: the three         *)
(* overloads of Request, which turn a table name, a method name and the    *)
(* fields of a message into one SQL statement, and what the statement does *)
(* to the tables of the database.                                          *)
(*                                                                         *)
(* A statement is modelled by its conditions and by whether MySQL accepts  *)
(* it; a row by its values in the order of the columns, the ID first.      *)
(* Other programs write the same tables, and the connection may be lost.   *)
(* The values of fields go into a statement unescaped (StatusRecord.cpp    *)
(* 236, 306): only texts without quotes and backslashes are the values     *)
(* they were.  Texts the collation of a column does not tell apart are one *)
(* value of the model.                                                     *)
(***************************************************************************)
EXTENDS Naturals, Sequences, FiniteSets

CONSTANTS
  Value,     \* the texts of fields, without the empty text
  Plain,     \* those of them without a quote or a backslash
  Lines,     \* lines of no table that a query of altered meaning may find
  Vectors,   \* the vectors callers of the vector overload pass
  Messages,  \* the messages callers of the map overloads pass
  Rows,      \* the rows other programs write, per table
  Methods    \* the method names callers use

Empty   == ""
Columns == [ CALLPROCESS |-> 6, AGENTSATE |-> 5, STATIONSATE |-> 5, CALLSTATION |-> 6 ]
Tables  == DOMAIN Columns

\* The fields of a message each table name of the map overloads stands for.
Fields ==
  [ Callprocess  |-> <<"callID", "calling_devID", "called_devID", "localConnectionInfo", "time">>,
    Agentstate   |-> <<"AgentID", "DeviceID", "AgentState", "time">>,
    Stationstate |-> <<"AgentID", "DeviceID", "TalkState", "time">>,
    Callstate    |-> <<"callID", "caller", "station", "time">> ]
\* The tables the comments of TSAPIInterface mean by those names.
Meant == [ Callprocess |-> "CALLPROCESS", Agentstate |-> "AGENTSATE",
           Stationstate |-> "STATIONSATE", Callstate |-> "CALLSTATION" ]
\* TSAPIInterface passes "Agentsate", which is no name here.
TableNames == Tables \cup DOMAIN Fields \cup {"Agentsate"}

AllFields == UNION {{Fields[t][k] : k \in DOMAIN Fields[t]} : t \in DOMAIN Fields}
Text      == Value \cup {Empty}
Row(t)    == [1..Columns[t] -> Text]

ASSUME ValueAssumption    == Empty \notin Value /\ Plain \subseteq Value
ASSUME LinesAssumption    == Lines \subseteq Seq(Text)
ASSUME VectorsAssumption  == Vectors \subseteq Seq(Text)
ASSUME MessagesAssumption == Messages \subseteq [AllFields -> Text]
ASSUME RowsAssumption     == \A t \in Tables : Rows[t] \subseteq Row(t)

VARIABLES
  link,   \* the connection to MySQL is usable
  rows,   \* the rows of each table
  data,   \* the caller's vector after its last call
  last    \* the last call: its arguments and what Request returned

vars == <<link, rows, data, last>>

Replies == { "wrong table", "illegal table", "illegal method", "size mismatch",
             "SQL error", "not one line", "successful" }
NoCall == [overload |-> "none"]

TypeOK ==
  /\ link \in BOOLEAN
  /\ \A t \in Tables : rows[t] \subseteq Row(t)
  /\ data \in Seq(Text)
  /\ last = NoCall \/
       /\ last.overload \in {"vector", "map", "map and vector"}
       /\ last.table \in TableNames /\ last.method \in Methods
       /\ last.given \in Seq(Text) /\ last.ret \in Replies

Init ==
  /\ link \in BOOLEAN  \* Open succeeds or not
  /\ rows = [t \in Tables |-> {}]
  /\ data = <<>> /\ last = NoCall

-----------------------------------------------------------------------------
(* The statements.  An outcome is what Request returns, the tables and the  *)
(* caller's vector afterwards.                                              *)

Outcome(ret, rs, d) == [ret |-> ret, rows |-> rs, data |-> d]
Refused(ret, d)     == {Outcome(ret, rows, d)}

\* The conditions `column = value', joined by AND.
Given(d)      == {k \in DOMAIN d : d[k] # Empty}
Matching(t, d) == {r \in rows[t] : \A k \in Given(d) : r[k] = d[k]}

\* `... WHERE ' without a condition is no statement.
Fails(d) == ~link \/ Given(d) = {}

\* Any other text ends the literal it stands in, and the rest of it is read as
\* part of the condition: MySQL refuses the statement, or takes it for one with
\* some other condition.
PlainCall(d) == \A k \in Given(d) : d[k] \in Plain
Garbled(d)   == IF PlainCall(d) THEN {} ELSE Refused("SQL error", d)

\* The rows of the table the condition may be true of, and the lines a query
\* with it may find.
Meanings(t, d) == IF PlainCall(d) THEN {Matching(t, d)} ELSE SUBSET rows[t]
Results(t, d)  == IF PlainCall(d) THEN {Matching(t, d)} ELSE SUBSET (rows[t] \cup Lines)

\* Mutant: the number of rows is not looked at.
FirstLine(found) ==
  IF found = {} THEN Refused("not one line", <<>>)
  ELSE {Outcome("successful", rows, r) : r \in found}

\* SelectOneLine: the vector is emptied before the number of rows is looked at.
OneLine(found) ==
  IF Cardinality(found) # 1 THEN Refused("not one line", <<>>)
  ELSE {Outcome("successful", rows, r) : r \in found}

Select(t, d) ==
  IF Fails(d) THEN Refused("SQL error", d)
  ELSE Garbled(d) \cup UNION {OneLine(found) : found \in Results(t, d)}

\* Mutant: the row is stored, and the vector cleared for the next one.
InsertClears(t, d) ==
  IF ~link THEN Refused("SQL error", d)
  ELSE {Outcome("successful", [rows EXCEPT ![t] = @ \cup {d}], <<>>)}

\* values += "'" + value = "'" appends one quote, so any field makes the
\* statement unacceptable; without fields it is `INSERT INTO t() VALUES()',
\* which MySQL takes as a row of defaults when the columns have them.
Insert(t, d) ==
  IF ~link \/ Given(d) # {} THEN Refused("SQL error", d)
  ELSE Refused("SQL error", d) \cup
       {Outcome("successful", [rows EXCEPT ![t] = @ \cup {d}], d)}

\* Mutant: OR for AND.
DeleteAny(t, d) ==
  IF Fails(d) THEN Refused("SQL error", d)
  ELSE {Outcome("successful",
         [rows EXCEPT ![t] = {r \in @ : \A k \in Given(d) : r[k] # d[k]}], d)}

Delete(t, d) ==
  IF Fails(d) THEN Refused("SQL error", d)
  ELSE Garbled(d) \cup
       {Outcome("successful", [rows EXCEPT ![t] = @ \ met], d) : met \in Meanings(t, d)}

-----------------------------------------------------------------------------
(* Request. *)

\* Mutant: the size of the vector is not compared with that of the table.
RequestUnsized(t, m, d) ==
  IF t \notin Tables THEN Refused("illegal table", d)
  ELSE IF m \notin {"Select", "Insert", "Delete"} THEN Refused("illegal method", d)
  ELSE IF m = "Select" THEN Select(t, d)
  ELSE IF m = "Insert" THEN Insert(t, d)
  ELSE Delete(t, d)

\* GetTableList knows the four names in capitals.
Request(t, m, d) ==
  IF t \notin Tables THEN Refused("illegal table", d)
  ELSE IF m \notin {"Select", "Insert", "Delete"} THEN Refused("illegal method", d)
  ELSE IF Len(d) # Columns[t] THEN Refused("size mismatch", d)
  ELSE IF m = "Select" THEN Select(t, d)
  ELSE IF m = "Insert" THEN Insert(t, d)
  ELSE Delete(t, d)

\* The ID, which is left to the database, and the fields of the message.
Packed(t, msg) == <<Empty>> \o [k \in DOMAIN Fields[t] |-> msg[Fields[t][k]]]

\* Mutant: the name of the table meant is passed on.
RequestMeant(t, m, msg, d) ==
  IF t \notin DOMAIN Fields THEN Refused("wrong table", Append(d, Empty))
  ELSE Request(Meant[t], m, d \o Packed(t, msg))

\* The map overloads know the four names in mixed case.
RequestPacked(t, m, msg, d) ==
  IF t \notin DOMAIN Fields THEN Refused("wrong table", Append(d, Empty))
  ELSE Request(t, m, d \o Packed(t, msg))

Reply(overload, t, m, given, o) ==
  /\ rows' = o.rows
  /\ data' = o.data
  /\ last' = [overload |-> overload, table |-> t, method |-> m, given |-> given, ret |-> o.ret]
  /\ UNCHANGED link

RequestVector(t, m, d) == \E o \in Request(t, m, d) : Reply("vector", t, m, d, o)

\* The vector of this overload is a local one; what it held is of no interest.
RequestMap(t, m, msg) ==
  \E o \in RequestPacked(t, m, msg, <<>>) :
    Reply("map", t, m, IF t \in DOMAIN Fields THEN Packed(t, msg) ELSE <<>>,
          [o EXCEPT !.data = <<>>])

\* The caller passes an empty vector, for what a query finds.
RequestMapVector(t, m, msg) ==
  \E o \in RequestPacked(t, m, msg, <<>>) : Reply("map and vector", t, m, <<>>, o)

-----------------------------------------------------------------------------
(* The database. *)

External == data' = <<>> /\ last' = NoCall

OtherWrites(t, r) ==
  /\ \A s \in rows[t] : s[1] # r[1]  \* the ID is the key
  /\ rows' = [rows EXCEPT ![t] = @ \cup {r}]
  /\ External /\ UNCHANGED link

LoseConnection == link /\ link' = FALSE /\ External /\ UNCHANGED rows

Calls ==
  \E t \in TableNames, m \in Methods :
    \/ \E d \in Vectors : RequestVector(t, m, d)
    \/ \E msg \in Messages : RequestMap(t, m, msg) \/ RequestMapVector(t, m, msg)

Next == Calls \/ LoseConnection \/ \E t \in Tables : \E r \in Rows[t] : OtherWrites(t, r)
Spec == Init /\ [][Next]_vars

-----------------------------------------------------------------------------
(* Properties. *)

\* Of StatusRecord::Request: rows go only in the table of a delete that was given
\* a field, so no call empties a table for want of a condition; and when every
\* text given is plain, only rows that have every field given.  A text with a
\* quote or a backslash may take away any row of that table.
DeletesOnlyAskedFor ==
  [][\A t \in Tables : \A r \in rows[t] \ rows'[t] :
       /\ last'.method = "Delete" /\ last'.table = t
       /\ \E k \in DOMAIN last'.given : last'.given[k] # Empty
       /\ PlainCall(last'.given) =>
            \A k \in DOMAIN last'.given : last'.given[k] \in {Empty, r[k]}]_vars

\* StatusRecord.h:19 says of the vector overload that only a query leaves what
\* it found in the vector; every other call returns it as it was.
OnlySelectWritesData ==
  last # NoCall /\ last.overload = "vector" /\ data # last.given => last.method = "Select"

\* StatusRecord::Select leaves the only row that has the given fields in the
\* vector, if every text given is plain, and nothing when what it found is no
\* line or more than one.
SelectIsTheRow ==
  last # NoCall /\ last.overload = "vector" /\ last.method = "Select" =>
    /\ last.ret = "successful" /\ PlainCall(last.given)
         => Matching(last.table, last.given) = {data}
    /\ last.ret = "not one line" => data = <<>>

\* A message of TSAPIInterface never gets further than the test of the table
\* name: no overload that takes a message reads or changes a table.
MessagesChangeNothing ==
  [][last' # NoCall /\ last'.overload # "vector"
       => UNCHANGED rows /\ last'.ret \in {"wrong table", "illegal table"}]_vars

\* TSAPIInterface.cpp:379 and thirty-odd comments like it say "record in the ...
\* table": an insert of a message leaves its fields in a row of the table meant.
RecordIsStored ==
  last # NoCall /\ last.overload = "map" /\ last.method = "Insert"
      /\ last.table \in DOMAIN Fields /\ link =>
    \E r \in rows[Meant[last.table]] :
      \A k \in DOMAIN last.given : last.given[k] \in {Empty, r[k]}
=============================================================================

----------------------------- MODULE JsonReader -----------------------------
(* Json::Reader of src/AvayaCtiService/jsoncpp.cpp, as the dialog uses it: one *)
(* text is read token by token into a value.  The calls of readObject,        *)
(* readArray and readValue inside each other are the stack `frames'; of the    *)
(* value only the type and the members of the outermost object are kept.      *)
(*                                                                            *)
(* The text is chosen as it is read.  Reader::parse copies the capacity of    *)
(* the string and not its length, so that there may be bytes to read after    *)
(* the end of the text: they are `stale'.                                     *)
EXTENDS Integers, SequencesExt

CONSTANTS
  Text,        \* the strings of a text that is typed in
  MaxTokens,   \* bound on the tokens of a text, up to an error
  MaxStale,    \* bound on the tokens made of stale bytes
  StackLimit   \* JSONCPP_DEPRECATED_STACK_LIMIT

Empty == ""
Plain(type) == [type |-> type, text |-> Empty]
String(t) == [type |-> "string", text |-> t]

\* Numbers and the two Booleans are one token, and so is what is no token and
\* what cannot be decoded.
Token ==
  {Plain(t) : t \in {"{", "}", "[", "]", ",", ":", "comment", "null", "number",
                     "bad", "end"}}
  \cup {String(t) : t \in Text}

VARIABLES
  rest,      \* the tokens to come, when they are known: the text of a button
  typed,     \* the text is chosen while it is read
  past,      \* -1, and after the end of the text the number of stale tokens left
  input,     \* history: the tokens read up to the first error, then forgotten
  frames,    \* per readObject or readArray called, innermost last
  at,        \* what is read next, see ReadToken
  value,     \* the token the value of the text begins with
  members,   \* the members of that value, if it is an object
  errors     \* the length of errors_

readerVars == <<rest, typed, past, input, frames, at, value, members, errors>>

ReaderInit ==
  /\ past = -1 /\ input = <<>> /\ frames = <<>> /\ at = "value"
  /\ value = Plain("null") /\ members = <<>> /\ errors = 0

Top == Last(frames)
Pop == Front(frames)
Object(name) == [type |-> "{", name |-> name]
Closing(frame) == IF frame.type = "{" THEN "}" ELSE "]"

\* What the next token may be.
Coming ==
  IF past = 0 THEN {Plain("end")}
  ELSE IF typed THEN Token
  ELSE {IF rest = <<>> THEN Plain("end") ELSE Head(rest)}

\* A string or a comment that is not closed may be closed by bytes after the end.
Cut(t) == typed /\ past < 0 /\ t.type \in {"string", "comment"}

Record(t) ==
  input' = IF errors > 0 THEN <<>> ELSE IF at = "root" THEN input ELSE Append(input, t)

\* readToken, as far as the position in the text goes.
Take(t) ==
  /\ t.type = "end" \/ ~typed \/ errors > 0 \/ at = "root" \/ Len(input) < MaxTokens
  /\ rest' = IF rest = <<>> THEN <<>> ELSE Tail(rest)
  /\ \/ past' = (IF past > 0 THEN past - 1 ELSE past) /\ t.type # "end" /\ Record(t)
     \/ past' \in 0 .. MaxStale /\ Cut(t) /\ Record(Plain("cut"))
     \/ past' \in (IF past < 0 THEN 0 .. MaxStale ELSE {past}) /\ t.type = "end" /\ Record(t)
  /\ UNCHANGED typed

-----------------------------------------------------------------------------
\* A value has been read, and readValue returns to fs: v is its first token.
Complete(fs, v) ==
  /\ frames' = fs
  /\ at' = IF fs = <<>> THEN "root"
           ELSE IF Last(fs).type = "{" THEN "comma" ELSE "item"
  /\ value' = IF fs = <<>> THEN v ELSE value
  /\ members' = IF Len(fs) = 1 /\ fs[1].type = "{"
                THEN [n \in DOMAIN members \cup {fs[1].name} |->
                        IF n = fs[1].name THEN v ELSE members[n]]
                ELSE members
  /\ UNCHANGED errors

\* addError; every readObject and readArray there is skips to its own end.
Fail ==
  /\ errors' = errors + 1
  /\ at' = IF frames = <<>> THEN "root" ELSE "skip"
  /\ UNCHANGED <<frames, value, members>>

Go(where) ==
  /\ at' = where
  /\ UNCHANGED <<frames, value, members, errors>>

\* readValue, which looks at the depth before it reads.
TooDeep == Len(frames) + 1 > StackLimit

Value(t) ==
  CASE TooDeep -> Go("thrown")
    [] ~TooDeep /\ t.type = "comment" -> Go("value")
    [] ~TooDeep /\ t.type \in {"string", "number", "null"} -> Complete(frames, t)
    [] ~TooDeep /\ t.type = "{" ->
         /\ frames' = Append(frames, Object(Empty)) /\ at' = "name"
         /\ UNCHANGED <<value, members, errors>>
    [] ~TooDeep /\ t.type = "[" ->
         /\ frames' = Append(frames, [type |-> "["]) /\ at' = "first"
         /\ UNCHANGED <<value, members, errors>>
    [] OTHER -> Fail

\* readArray: "]" is looked for at once, before comments are skipped.
First(t) == IF t.type = "]" THEN Complete(Pop, Plain("[")) ELSE Value(t)

\* After an item, comments are skipped.
Item(t) ==
  CASE t.type = "comment" -> Go("item")
    [] t.type = "," -> Go("value")
    [] t.type = "]" -> Complete(Pop, Plain("["))
    [] OTHER -> Fail

\* readObject: "}" is taken while the last name is empty.
Name(t) ==
  CASE t.type = "comment" -> Go("name")
    [] t.type = "}" /\ Top.name = Empty -> Complete(Pop, Plain("{"))
    [] t.type = "string" ->
         /\ frames' = Append(Pop, Object(t.text)) /\ at' = "colon"
         /\ UNCHANGED <<value, members, errors>>
    [] OTHER -> Fail

Colon(t) == IF t.type = ":" THEN Go("value") ELSE Fail

\* Mutant: what follows a member is not looked at.
CommaUnchecked(t) ==
  CASE t.type = "}" -> Complete(Pop, Plain("{"))
    [] t.type = "comment" -> Go("separator")
    [] OTHER -> Go("name")

Comma(t) ==
  CASE t.type = "," -> Go("name")
    [] t.type = "}" -> Complete(Pop, Plain("{"))
    [] t.type = "comment" -> Go("separator")
    [] OTHER -> Fail

\* After a comment every token but "}" is taken for the comma.
Separator(t) ==
  CASE t.type = "comment" -> Go("separator")
    [] t.type = "}" -> Complete(Pop, Plain("{"))
    [] OTHER -> Go("name")

\* Mutant: recovery does not stop at the end of the text.
SkipOn(t) ==
  IF t.type = Closing(Top)
  THEN /\ frames' = Pop /\ at' = IF Len(frames) = 1 THEN "root" ELSE "skip"
       /\ UNCHANGED <<value, members, errors>>
  ELSE Go("skip")

\* recoverFromError, of the innermost call.
Skip(t) ==
  IF t.type \in {Closing(Top), "end"}
  THEN /\ frames' = Pop /\ at' = IF Len(frames) = 1 THEN "root" ELSE "skip"
       /\ UNCHANGED <<value, members, errors>>
  ELSE Go("skip")

\* parse reads one token more and does not look at it.
Root(t) == Go(IF t.type = "comment" THEN "root" ELSE "parsed")

ReadToken ==
  \E t \in Coming :
    /\ Take(t)
    /\ \/ at = "value" /\ Value(t)
       \/ at = "first" /\ First(t)
       \/ at = "item" /\ Item(t)
       \/ at = "name" /\ Name(t)
       \/ at = "colon" /\ Colon(t)
       \/ at = "comma" /\ Comma(t)
       \/ at = "separator" /\ Separator(t)
       \/ at = "skip" /\ Skip(t)
       \/ at = "root" /\ Root(t)
-----------------------------------------------------------------------------
(* What the reader promises.                                                 *)

\* Every readToken is taken in the end, and Read is over.
Over == at \in {"parsed", "thrown"}

\* A text that is nothing but what the user typed, without the two things the
\* reader treats in its own way: comments, and members without a name.
Ordinary ==
  \A i \in DOMAIN input : input[i] # String(Empty) /\ input[i].type \notin {"comment", "cut"}

\* The types of tokens.
Types(tokens) == [i \in DOMAIN tokens |-> tokens[i].type]

\* Depth of the token i of the input, counting itself when it opens something.
Depth(i) ==
  LET Count(S) == Cardinality({j \in 1 .. i : input[j].type \in S})
  IN Count({"{", "["}) - Count({"}", "]"})

\* The innermost value that is open after the token i is an array: of what was begun
\* at this depth it is the last.
InsideArray(i) ==
  \E o \in 1 .. i :
    /\ input[o].type = "[" /\ Depth(o) = Depth(i)
    /\ \A j \in o + 1 .. i : Depth(j) = Depth(i) => input[j].type \notin {"{", "["}

\* The string i is the name of a member, if it stands in an object.
IsName(i) ==
  input[i].type = "string" /\ i > 1 /\ input[i - 1].type \in {"{", ","}

\* The grammar of JSON, by the types of a token and the next: what a value begins
\* with, what comes next in an array, and in an object unless it is the colon.
Begins == {"{", "[", "string", "number", "null"}
NextInArray(this, next) ==
  \/ next \in Begins /\ this \in {"[", ","}
  \/ next = "," /\ this \notin {"[", ","}
  \/ next = "]" /\ this # ","
NextInObject(this, next) ==
  \/ next = "string" /\ this \in {"{", ","}
  \/ next \in Begins /\ this = ":"
  \/ next = "," /\ this \notin {"{", ",", ":"}
  \/ next = "}" /\ this \notin {",", ":"}

\* The token behind the first i may stand there.
MayFollow(i) ==
  LET this == input[i].type
      next == input[i + 1].type
  IN \/ i = 0 /\ next \in Begins
     \/ i > 0 /\ Depth(i) > 0 /\ InsideArray(i) /\ NextInArray(this, next)
     \/ i > 0 /\ Depth(i) > 0 /\ ~InsideArray(i) /\ IsName(i) /\ next = ":"
     \/ i > 0 /\ Depth(i) > 0 /\ ~InsideArray(i) /\ ~IsName(i) /\ NextInObject(this, next)
=============================================================================

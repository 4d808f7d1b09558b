------------------------------ MODULE MCDialog ------------------------------
(* Instances for TLC of the dialog: its life with what it owns, and one       *)
(* message.  A message is handled inside one call of the dialog, which the    *)
(* life sees as nothing or as Exit, so a behaviour is one of the two.         *)
EXTENDS AvayaCtiUI, MessageDispatcher

VARIABLE part

G == INSTANCE JsonGrammar

\* The texts tried: of the strings, names are names and values values in the
\* outermost object, and elsewhere there is one; null and an empty name come early,
\* and a text with a comment, of which there is one, is shorter.  The radio buttons
\* are not touched before a text is typed.  A button whose boxes do not hold plain
\* texts has the same one in all, and its text is short.
Names == {"method", "MonitorCrossRefID"}
Strings(n) ==
  IF input[1].type = "[" \/ Depth(n) # 1 THEN {"7"}
  ELSE IF input[n - 1].type = ":" THEN Text \ (Names \cup {Empty})
  ELSE IF n = 2 THEN Names \cup {Empty} ELSE Names
ThisText ==
  LET n == Len(input)
      comments == {i \in 1 .. n : input[i].type = "comment"}
  IN typed =>
       /\ \A key \in DOMAIN shown : shown[key] = 1
       /\ button # "Begin" => n < 4 /\ \A key, other \in DOMAIN boxes : boxes[key] = boxes[other]
       /\ n > 1 /\ input[n].type = "string" => input[n].text \in Strings(n)
       /\ n > 4 => input[n].type # "null"
       /\ comments # {} => Cardinality(comments) = 1 /\ n < 8

MCInit == Init /\ DInit /\ part \in {"life", "message"}
MCNext ==
  /\ \/ part = "life" /\ Next /\ UNCHANGED dvars
     \/ part = "message" /\ DNext /\ ThisText' /\ UNCHANGED vars
  /\ UNCHANGED part
MCSpec == MCInit /\ [][MCNext]_<<vars, dvars, part>> /\ Fairness /\ DFairness

Documents == G!Documents
Viable == G!Viable

\* An ordinary text is taken if and only if it is JSON: by the recursive grammar, and by
\* what may follow what (MessageDispatcher).
ReadsJson == TakenIfJson(Documents, Viable) /\ ReadsText
=============================================================================

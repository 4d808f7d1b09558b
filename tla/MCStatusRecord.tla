--------------------------- MODULE MCStatusRecord ---------------------------
(* Instances of StatusRecord for TLC. *)
EXTENDS StatusRecord

Texts == {"1", "2", "x", "y", "x'"}

\* The texts that stand in a statement as what they are.
PlainTexts == Texts \ {"x'"}

\* What a query may answer that is a row of no table here: one line of one column.
SomeLines == {<<"y">>}

\* Vectors of the size of a table with no, one and two fields, with a quote in
\* one, and a short one.
SomeVectors ==
  { <<"", "", "", "", "">>, <<"", "x", "", "", "">>, <<"", "x", "y", "", "">>,
    <<"", "x", "", "", "", "">>, <<"", "x'", "y", "", "">>, <<"", "x">> }

SomeMessages == { [f \in AllFields |-> "x"],
                  [f \in AllFields |-> IF f = "time" THEN "y" ELSE ""] }

\* Rows that agree in one field and differ in another.
SomeRows ==
  [t \in Tables |->
     IF t = "AGENTSATE"
     THEN {<<"1", "x", "x", "", "">>, <<"2", "x", "y", "", "">>}
     ELSE IF t = "CALLPROCESS" THEN {<<"1", "x", "y", "", "", "">>} ELSE {}]

AllMethods == {"Select", "Insert", "Delete", "INSERT"}
=============================================================================

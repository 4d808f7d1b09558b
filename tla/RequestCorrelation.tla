------------------------- MODULE RequestCorrelation -------------------------
(***************************************************************************)
(* What the two maps from invoke IDs promise the rest of the program: a    *)
(* request that the switch has accepted stays what it was, one operation   *)
(* for one extension, until it is answered; it is answered once; and what  *)
(* is reported of the answer names that operation and that extension.      *)
(***************************************************************************)
EXTENDS Naturals

CONSTANTS Device, Act, MaxInvokeID

VARIABLES
  last,      \* the invoke ID used last
  pending,   \* what each invoke ID in use stands for
  reported   \* what the last step reported

vars == <<last, pending, reported>>

InvokeIDs == 1..MaxInvokeID
Meaning   == [act : Act, dev : Device]
None      == [act |-> ""]
Report    == [id : InvokeIDs, act : Act, dev : Device]
NoReport  == [id |-> 0]

TypeOK ==
  /\ last \in InvokeIDs
  /\ pending \in [InvokeIDs -> Meaning \cup {None}]
  /\ reported \in Report \cup {NoReport}

Init ==
  /\ last = 1
  /\ pending = [i \in InvokeIDs |-> None]
  /\ reported = NoReport

\* A request takes the next ID, whatever comes of it ...
TakeID == last < MaxInvokeID /\ last' = last + 1 /\ reported' = NoReport

\* ... it is accepted and has to be answered ...
Submit(m) == TakeID /\ pending' = [pending EXCEPT ![last + 1] = m]

\* ... or it is refused, or nobody wants to know the answer.
Refuse == TakeID /\ UNCHANGED pending

\* The answer: reported as what was asked, or not reported.
Complete(i) ==
  /\ pending[i] # None
  /\ pending' = [pending EXCEPT ![i] = None]
  /\ reported' \in {NoReport, [id |-> i, act |-> pending[i].act, dev |-> pending[i].dev]}
  /\ UNCHANGED last

\* An answer nobody had asked to keep apart.
Ignore == reported' = NoReport /\ UNCHANGED <<last, pending>>

Next ==
  \/ \E m \in Meaning : Submit(m)
  \/ Refuse
  \/ \E i \in InvokeIDs : Complete(i)
  \/ Ignore

Spec == Init /\ [][Next]_vars
=============================================================================

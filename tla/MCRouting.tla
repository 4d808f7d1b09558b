----------------------------- MODULE MCRouting ------------------------------
(* Instances of Routing for TLC.  The register request IDs are small numbers, *)
(* as the invoke IDs are, so that one may be taken for the other.             *)
EXTENDS Routing, TLC

CONSTANTS d1, d2, n1, x1, x2

TwoIDs == {2, 3}

\* Three instances in one run, chosen at the start and never changed: several
\* extensions and dialogs with a list that answers; one extension and one dialog
\* with any list; AgentSetState for one extension, and requests that bind nothing,
\* beside the registrations of another.
VARIABLE instance

ListAnswers ==
  /\ db
  /\ \A n \in Number : \/ numbers[n] = <<>>
                       \/ numbers[n] = <<"VIP">>

OneDialog ==
  /\ \A x \in CrossRef \ {x1} : dialogs[x] = NoDialog
  /\ \A r \in RegID : owner[r] # d2 /\ (r # 2 => owner[r] = Empty)
  /\ \A i \in InvokeIDs : bound[i].dev # d2 /\ (wire[i] # Nothing => wire[i].dev # d2)
  /\ \A k \in DOMAIN events : events[k].dev # d2

AgentBeside ==
  /\ \A i \in InvokeIDs : /\ bound[i].act = "AgentSetState" <=> bound[i].dev = d2
                          /\ wire[i] # Nothing => wire[i].dev = d1
  /\ \A k \in DOMAIN events : events[k].ev # "cleared" \/ events[k].dev = d1
  /\ db /\ \A n \in Number : numbers[n] = <<>>
  /\ \A x \in CrossRef : dialogs[x] = NoDialog

NoAgents == \A i \in InvokeIDs : bound[i].act # "AgentSetState"

Fits ==
  \/ instance = "dialogs" /\ NoAgents /\ ListAnswers
  \/ instance = "list"    /\ NoAgents /\ OneDialog
  \/ instance = "agents"  /\ AgentBeside

\* The request binds its ID.
Binds == invokeID' # invokeID => bound'[invokeID'] # Unbound

MCInit == Init /\ instance \in {"dialogs", "list", "agents"} /\ Fits
MCNext == Next /\ UNCHANGED instance /\ Fits' /\ (instance # "agents" => Binds)
MCSpec == MCInit /\ [][MCNext]_<<vars, instance>> /\ WF_<<vars, instance>>(HandleEvent /\ UNCHANGED instance)
=============================================================================

-------------------------- MODULE MCTSAPIInterface --------------------------
(* Instances of TSAPIInterface for TLC. *)
EXTENDS TSAPIInterface, TLC

\* Operations that write the same entries of the same extension, and three that
\* bind too eagerly: AgentSetState has a message box in its middle, and nobody
\* answers RouteSelectInv.
CallOps == {"AgentSetState", "AgentHoldCall", "AgentConferenceCall",
            "SingleStepConferenceCall", "AgentTransferCall", "RouteSelectInv"}

SetStateOps == {"AgentSetState", "AgentHoldCall"}

\* A state constraint: the mode "Ready", which asks the return code besides what
\* "Busy" does, is followed with one request fewer.
ReadyEarly ==
  invokeID = MaxInvokeID =>
    /\ \A d \in Device : DeviceID2AgentMode[d] # "Ready"
    /\ \A i \in DOMAIN modal : modal[i] = ExitFrame \/ modal[i].mode # "Ready"

Extensions == Permutations(Device)
=============================================================================

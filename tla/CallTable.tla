----------------------------- MODULE CallTable ------------------------------
(* What the comments of CTsapiDevice (src/AvayaCtiService/Tsapi.cpp) promise: *)
(* a partial map from connections to call handles, in which every handle in   *)
(* use has one local connection.                                              *)

CONSTANTS Conn, Handle, None

VARIABLES
  handleOf,  \* the call each connection is in
  local      \* the local connection of each call

vars == <<handleOf, local>>

Init ==
  /\ handleOf = [c \in Conn |-> None]
  /\ local = [h \in Handle |-> None]

\* A call is created under a handle that no call has.
Create(c, h) ==
  /\ handleOf[c] = None /\ local[h] = None
  /\ handleOf' = [handleOf EXCEPT ![c] = h]
  /\ local' = [local EXCEPT ![h] = c]

\* A further connection is associated with the call.
Add(c, h) ==
  /\ handleOf[c] = None /\ local[h] # None
  /\ handleOf' = [handleOf EXCEPT ![c] = h]
  /\ UNCHANGED local

\* A connection leaves its call.  If it is the only one the call is over.
RemoveConnection(c) ==
  /\ handleOf[c] # None
  /\ handleOf' = [handleOf EXCEPT ![c] = None]
  /\ \/ c # local[handleOf[c]] /\ UNCHANGED local
     \/ /\ \A e \in Conn \ {c} : handleOf[e] # handleOf[c]
        /\ local' = [local EXCEPT ![handleOf[c]] = None]

\* A call is over: all its connections go, and no other.
RemoveCall(h) ==
  /\ local[h] # None
  /\ handleOf' = [c \in Conn |-> IF handleOf[c] = h THEN None ELSE handleOf[c]]
  /\ local' = [local EXCEPT ![h] = None]

Next ==
  \/ \E c \in Conn, h \in Handle : Create(c, h) \/ Add(c, h)
  \/ \E c \in Conn : RemoveConnection(c)
  \/ \E h \in Handle : RemoveCall(h)

Spec == Init /\ [][Next]_vars
=============================================================================

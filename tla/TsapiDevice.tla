---------------------------- MODULE TsapiDevice -----------------------------
(* The calls and connections of one device: class CTsapiDevice of            *)
(* src/AvayaCtiService/Tsapi.cpp.  A call is a row of slots, its handle the   *)
(* address of the row; slot 0 is for the local connection.  A slot is free    *)
(* when the call ID in it is 0.                                               *)
EXTENDS Integers, FiniteSetsExt

CONSTANTS
  CallID,       \* the call IDs of connections; 0 is not one of them
  DeviceID,     \* device IDs with their types
  MaxCalls,     \* MAX_CALLS_AT_DEVICE
  MaxDevices,   \* MAX_DEVICES_IN_CALL
  Free,         \* a slot with call ID 0
  None          \* the handle 0

Handle == 0 .. MaxCalls - 1     \* the rows, in the order of their addresses
Slot   == 0 .. MaxDevices - 1
Conn   == [callID : CallID, deviceID : DeviceID]

ASSUME SizesAssumption == MaxCalls \in Nat /\ MaxDevices \in Nat \ {0}
ASSUME MarksAssumption == Free \notin Conn /\ None \notin Handle \cup Conn

VARIABLES
  connIDList,  \* m_ConnIDList
  orphans      \* history: the rows whose local connection was removed and left others

vars == <<connIDList, orphans>>

TypeOK ==
  /\ connIDList \in [Handle -> [Slot -> Conn \cup {Free}]]
  /\ orphans \subseteq Handle

Init ==
  /\ connIDList = [h \in Handle |-> [j \in Slot |-> Free]]
  /\ orphans = {}

-----------------------------------------------------------------------------
(* Searches.                                                                 *)

\* The rows and, in one row, the slots that hold a connection.
RowsWith(c) == { h \in Handle : \E j \in Slot : connIDList[h][j] = c }
SlotsWith(h, c) == { j \in Slot : connIDList[h][j] = c }

GetCallHandle(c) == IF RowsWith(c) = {} THEN None ELSE Min(RowsWith(c))

\* Mutant: the search ends at the first free row.
GetCallHandleUpToFree(id) ==
  LET rows == { h \in Handle : /\ \A g \in 0 .. h : connIDList[g][0] # Free
                               /\ connIDList[h][0].callID = id }
  IN IF rows = {} THEN None ELSE Min(rows)

\* exactMatch = FALSE: by the call ID of the local connection only.
GetCallHandleByID(id) ==
  LET rows == { h \in Handle : connIDList[h][0] # Free /\ connIDList[h][0].callID = id }
  IN IF rows = {} THEN None ELSE Min(rows)

GetLocalConnection(h) == connIDList[h][0]
IsLocalConnection(h, c) == GetLocalConnection(h) = c

-----------------------------------------------------------------------------
(* Methods that change the table.                                            *)

FreeRows == { h \in Handle : connIDList[h][0] = Free }

CreateCallFromLocalConnection(c) ==
  /\ FreeRows # {}
  /\ connIDList' = [connIDList EXCEPT ![Min(FreeRows)][0] = c]
  /\ UNCHANGED orphans

\* Callers pass handles they were given, perhaps of a call that is over.  (The test
\* of the handle lets the address behind the last row through, which nobody is given.)
AddConnectionToCall(h, c) ==
  LET slots == { j \in Slot \ {0} : connIDList[h][j] = Free }
  IN /\ connIDList[h][0] # Free /\ slots # {}
     /\ connIDList' = [connIDList EXCEPT ![h][Min(slots)] = c]
     /\ UNCHANGED orphans

\* Mutant: only the connections from the one found on are freed.
RemoveCallFrom(c) ==
  LET h == GetCallHandle(c)
      j == Min(SlotsWith(h, c))
  IN /\ h # None
     /\ connIDList' = [connIDList EXCEPT ![h] = [k \in Slot |-> IF k < j THEN @[k] ELSE Free]]
     /\ orphans' = orphans \ {h}

\* Mutant: only the local connection is freed.
RemoveLocal(c) ==
  LET h == GetCallHandle(c)
  IN /\ h # None
     /\ connIDList' = [connIDList EXCEPT ![h][0] = Free]
     /\ orphans' = orphans \ {h}

RemoveCallViaConnection(c) ==
  LET h == GetCallHandle(c)
  IN /\ h # None
     /\ connIDList' = [connIDList EXCEPT ![h] = [k \in Slot |-> Free]]
     /\ orphans' = orphans \ {h}

\* Mutant: the connection is overwritten with the value of an unused handle.
RemoveConnectionToNone(c) ==
  /\ GetCallHandle(c) # None
  /\ connIDList' = [connIDList EXCEPT ![GetCallHandle(c)] =
                       [j \in Slot |-> IF @[j] = c THEN None ELSE @[j]]]
  /\ UNCHANGED orphans

\* Slot 0 may be the one that is freed.
RemoveConnectionFromCall(c) ==
  LET h == GetCallHandle(c)
      j == Min(SlotsWith(h, c))
  IN /\ h # None
     /\ connIDList' = [connIDList EXCEPT ![h][j] = Free]
     /\ orphans' = IF \A k \in Slot : connIDList'[h][k] = Free THEN orphans \ {h}
                   ELSE IF j = 0 THEN orphans \cup {h} ELSE orphans

Next ==
  \E c \in Conn :
    \/ CreateCallFromLocalConnection(c)
    \/ \E h \in Handle : AddConnectionToCall(h, c)
    \/ RemoveCallViaConnection(c)
    \/ RemoveConnectionFromCall(c)

Spec == Init /\ [][Next]_vars

-----------------------------------------------------------------------------
(* Properties.                                                               *)

\* A row without a local connection holds nothing, unless that connection was
\* taken out of it with RemoveConnectionFromCall: the test for a free row looks
\* at slot 0 only, so a new call would otherwise be created among the
\* connections of an old one (Tsapi.cpp 66).
FreeRowsAreEmpty ==
  \A h \in Handle \ orphans :
    connIDList[h][0] = Free => \A j \in Slot : connIDList[h][j] = Free

\* Where the call ID is the same for all connections of a call and tells calls
\* apart, the search by call ID finds the call that the exact search finds (what
\* the comment of GetCallHandle says callers may rely on, Tsapi.cpp 227-230).
OneIDPerCall ==
  /\ \A h \in Handle, j \in Slot :
       connIDList[h][j] # Free => /\ connIDList[h][0] # Free
                                 /\ connIDList[h][j].callID = connIDList[h][0].callID
  /\ \A g, h \in Handle :
       g # h /\ connIDList[g][0] # Free /\ connIDList[h][0] # Free
         => connIDList[g][0].callID # connIDList[h][0].callID
SearchesAgree ==
  OneIDPerCall =>
    \A c \in Conn : RowsWith(c) # {} => GetCallHandle(c) = GetCallHandleByID(c.callID)

\* The table is the partial map of CallTable as long as callers keep to the rules
\* the comments imply: a connection is in one slot, and the local connection is
\* removed with the call.  While a row is without its local connection, or a
\* connection is in two slots, nothing is promised; afterwards it is again.
CT == INSTANCE CallTable WITH
        handleOf <- [c \in Conn |-> GetCallHandle(c)],
        local    <- [h \in Handle |-> IF connIDList[h][0] = Free THEN None ELSE connIDList[h][0]]

Misused ==
  \/ orphans # {}
  \/ \E g, h \in Handle, j, k \in Slot :
       <<g, j>> # <<h, k>> /\ connIDList[g][j] = connIDList[h][k] /\ connIDList[g][j] # Free

PromiseKept == CT!Init /\ [][CT!Next \/ Misused \/ Misused']_(CT!vars)
=============================================================================

------------------------- MODULE TsapiDevice_proofs -------------------------
(* Proofs about TsapiDevice, for every number of calls and of connections:   *)
(* the table keeps its type, free rows are empty, and the table keeps what    *)
(* CallTable promises; and about TsapiWnd, for every number of windows, of    *)
(* events and of windows served on top of each other: the event buffer is     *)
(* freed once and never lost.                                                 *)
EXTENDS MCTsapi, FiniteSetTheorems, TLAPS

-----------------------------------------------------------------------------
(* Searches.                                                                 *)

\* The least element of a set of numbers belongs to the set and is the least:
\* the intervals below the numbers are finite sets, which inclusion orders well.
LEMMA MinIsLeast ==
  ASSUME NEW S \in SUBSET Nat, S # {}
  PROVE  Min(S) \in S /\ \A m \in S : Min(S) <= m
<1>. DEFINE T == { 0 .. (n - 1) : n \in S }
<1>1. T \subseteq FiniteSubsetsOf(Nat) /\ T # {}
  <2>1. \A n \in S : IsFiniteSet(0 .. (n - 1)) /\ 0 .. (n - 1) \in SUBSET Nat
    BY FS_Interval
  <2>. QED  BY <2>1 DEF FiniteSubsetsOf
<1>2. \E x \in T : \A y \in T : <<y, x>> \notin StrictSubsetOrdering(Nat)
  <2>. HIDE DEF T
  <2>. QED  BY <1>1, FS_StrictSubsetOrderingWellFounded, WFMin
<1>3. PICK m \in S : \A n \in S : <<0 .. (n - 1), 0 .. (m - 1)>> \notin StrictSubsetOrdering(Nat)
  BY <1>2
<1>4. ASSUME NEW n \in S  PROVE m <= n
  <2>1. SUFFICES ASSUME n < m  PROVE FALSE
    OBVIOUS
  <2>2. 0 .. (n - 1) \subseteq 0 .. (m - 1) /\ n \in 0 .. (m - 1) /\ n \notin 0 .. (n - 1)
    BY <2>1
  <2>3. <<0 .. (n - 1), 0 .. (m - 1)>> \in StrictSubsetOrdering(Nat)
    BY <2>2 DEF StrictSubsetOrdering
  <2>. QED  BY <1>3, <2>3
<1>. QED  BY <1>4 DEF Min

\* A search returns a row that has the connection, or nothing if there is none.
LEMMA SearchFinds ==
  ASSUME TypeOK, NEW c \in Conn
  PROVE  /\ RowsWith(c) = {} => GetCallHandle(c) = None
         /\ RowsWith(c) # {} => GetCallHandle(c) \in RowsWith(c)
         /\ GetCallHandle(c) # None => GetCallHandle(c) \in Handle
<1>1. RowsWith(c) \in SUBSET Nat /\ RowsWith(c) \subseteq Handle
  BY SizesAssumption DEF RowsWith, Handle
<1>2. RowsWith(c) # {} => Min(RowsWith(c)) \in RowsWith(c)
  BY <1>1, MinIsLeast
<1>. QED  BY <1>1, <1>2 DEF GetCallHandle

\* The first slot of the row found is one that has the connection.
LEMMA SlotFound ==
  ASSUME TypeOK, NEW c \in Conn, GetCallHandle(c) # None
  PROVE  /\ GetCallHandle(c) \in Handle
         /\ Min(SlotsWith(GetCallHandle(c), c)) \in Slot
         /\ connIDList[GetCallHandle(c)][Min(SlotsWith(GetCallHandle(c), c))] = c
<1>. DEFINE h == GetCallHandle(c)
<1>1. h \in RowsWith(c) /\ h \in Handle
  BY SearchFinds
<1>2. SlotsWith(h, c) # {} /\ SlotsWith(h, c) \in SUBSET Nat
  BY <1>1, SizesAssumption DEF SlotsWith, RowsWith, Slot
<1>3. Min(SlotsWith(h, c)) \in SlotsWith(h, c)
  BY <1>2, MinIsLeast
<1>. QED  BY <1>1, <1>3 DEF SlotsWith

\* A row that is free, and a slot that is free in a row.
LEMMA FreeFound ==
  ASSUME TypeOK
  PROVE  /\ FreeRows # {} => Min(FreeRows) \in Handle /\ connIDList[Min(FreeRows)][0] = Free
         /\ \A h \in Handle :
              LET slots == { j \in Slot \ {0} : connIDList[h][j] = Free }
              IN slots # {} => /\ Min(slots) \in Slot \ {0}
                               /\ connIDList[h][Min(slots)] = Free
<1>1. FreeRows \in SUBSET Nat /\ FreeRows \subseteq Handle
  BY SizesAssumption DEF FreeRows, Handle
<1>2. FreeRows # {} => Min(FreeRows) \in FreeRows
  BY <1>1, MinIsLeast
<1>3. ASSUME NEW h \in Handle
      PROVE  LET slots == { j \in Slot \ {0} : connIDList[h][j] = Free }
             IN slots # {} => Min(slots) \in slots
  <2>. DEFINE slots == { j \in Slot \ {0} : connIDList[h][j] = Free }
  <2>1. slots \in SUBSET Nat
    BY SizesAssumption DEF Slot
  <2>. HIDE DEF slots
  <2>2. slots # {} => Min(slots) \in slots
    BY <2>1, MinIsLeast
  <2>. QED  BY <2>2 DEF slots
<1>. QED  BY <1>2, <1>3 DEF FreeRows

-----------------------------------------------------------------------------
(* Types, and free rows.                                                     *)

TableInv == TypeOK /\ FreeRowsAreEmpty

\* Every row has a slot for its local connection.
LEMMA ZeroIsASlot == 0 \in Slot
BY SizesAssumption DEF Slot

\* The constructor frees every slot.
LEMMA InitTableInv == Init => TableInv
BY ZeroIsASlot DEF Init, TableInv, TypeOK, FreeRowsAreEmpty

\* A new call goes into a row that is free (Tsapi.cpp 66).
LEMMA CreateTableInv ==
  ASSUME TableInv, NEW c \in Conn, CreateCallFromLocalConnection(c)
  PROVE  TableInv'
<1>. DEFINE h == Min(FreeRows)
<1>1. h \in Handle /\ connIDList' = [connIDList EXCEPT ![h][0] = c] /\ orphans' = orphans
  BY FreeFound DEF TableInv, CreateCallFromLocalConnection
<1>2. c # Free
  BY MarksAssumption
<1>. HIDE DEF h
<1>3. TypeOK'
  BY <1>1, ZeroIsASlot DEF TableInv, TypeOK
<1>4. FreeRowsAreEmpty'
  BY <1>1, <1>2, ZeroIsASlot DEF TableInv, TypeOK, FreeRowsAreEmpty
<1>. QED  BY <1>3, <1>4 DEF TableInv

\* A connection is added to a row that has a local one.
LEMMA AddTableInv ==
  ASSUME TableInv, NEW c \in Conn, NEW h \in Handle, AddConnectionToCall(h, c)
  PROVE  TableInv'
<1>1. PICK j \in Slot \ {0} : /\ connIDList' = [connIDList EXCEPT ![h][j] = c]
                              /\ connIDList[h][0] # Free /\ orphans' = orphans
  BY FreeFound DEF TableInv, AddConnectionToCall
<1>2. TypeOK'
  BY <1>1 DEF TableInv, TypeOK
<1>3. FreeRowsAreEmpty'
  BY <1>1, ZeroIsASlot DEF TableInv, TypeOK, FreeRowsAreEmpty
<1>. QED  BY <1>2, <1>3 DEF TableInv

\* A removed call leaves its row empty.
LEMMA RemoveCallTableInv ==
  ASSUME TableInv, NEW c \in Conn, RemoveCallViaConnection(c)
  PROVE  TableInv'
<1>1. PICK h \in Handle : /\ connIDList' = [connIDList EXCEPT ![h] = [k \in Slot |-> Free]]
                          /\ orphans' = orphans \ {h}
  BY SearchFinds DEF TableInv, RemoveCallViaConnection
<1>2. TypeOK'
  BY <1>1 DEF TableInv, TypeOK
<1>3. FreeRowsAreEmpty'
  BY <1>1 DEF TableInv, TypeOK, FreeRowsAreEmpty
<1>. QED  BY <1>2, <1>3 DEF TableInv

\* A row that loses its local connection only is an orphan (Tsapi.cpp 164).
LEMMA RemoveConnectionTableInv ==
  ASSUME TableInv, NEW c \in Conn, RemoveConnectionFromCall(c)
  PROVE  TableInv'
<1>. DEFINE h == GetCallHandle(c)
            j == Min(SlotsWith(h, c))
<1>1. h \in Handle /\ j \in Slot /\ connIDList[h][j] = c
  BY SlotFound DEF TableInv, RemoveConnectionFromCall
<1>2. /\ connIDList' = [connIDList EXCEPT ![h][j] = Free]
      /\ orphans' = IF \A k \in Slot : connIDList'[h][k] = Free THEN orphans \ {h}
                    ELSE IF j = 0 THEN orphans \cup {h} ELSE orphans
  BY DEF RemoveConnectionFromCall
<1>. HIDE DEF h, j
<1>3. TypeOK'
  BY <1>1, <1>2 DEF TableInv, TypeOK
<1>4. ASSUME NEW g \in Handle, g \notin orphans', connIDList'[g][0] = Free, NEW k \in Slot
      PROVE  connIDList'[g][k] = Free
  <2>1. CASE g # h
    BY <1>1, <1>2, <1>4, <2>1 DEF TableInv, TypeOK, FreeRowsAreEmpty
  <2>2. CASE g = h /\ \A i \in Slot : connIDList'[h][i] = Free
    BY <2>2
  <2>3. CASE g = h /\ ~ \A i \in Slot : connIDList'[h][i] = Free
    <3>1. j # 0 /\ orphans' = orphans
      BY <1>2, <1>4, <2>3
    <3>2. connIDList[g][0] = Free
      BY <1>1, <1>2, <1>4, <2>3, <3>1, ZeroIsASlot DEF TableInv, TypeOK
    <3>3. connIDList[g][j] = Free
      BY <1>1, <1>4, <3>1, <3>2 DEF TableInv, FreeRowsAreEmpty
    <3>. QED  BY <1>1, <2>3, <3>3, MarksAssumption
  <2>. QED  BY <2>1, <2>2, <2>3
<1>5. FreeRowsAreEmpty'
  BY <1>4 DEF FreeRowsAreEmpty
<1>. QED  BY <1>3, <1>5 DEF TableInv

\* Every method keeps the table.
LEMMA NextTableInv == TableInv /\ [Next]_vars => TableInv'
<1>. SUFFICES ASSUME TableInv, [Next]_vars  PROVE TableInv'
  OBVIOUS
<1>1. CASE UNCHANGED vars
  BY <1>1 DEF vars, TableInv, TypeOK, FreeRowsAreEmpty
<1>2. CASE Next
  <2>1. PICK c \in Conn : \/ CreateCallFromLocalConnection(c)
                          \/ \E h \in Handle : AddConnectionToCall(h, c)
                          \/ RemoveCallViaConnection(c)
                          \/ RemoveConnectionFromCall(c)
    BY <1>2 DEF Next
  <2>. QED  BY <2>1, CreateTableInv, AddTableInv, RemoveCallTableInv, RemoveConnectionTableInv
<1>. QED  BY <1>1, <1>2

\* The table keeps its types, and free rows are empty, under every sequence of the
\* methods (Tsapi.cpp 60 to 260).
THEOREM TableInvariant == Spec => []TableInv
BY InitTableInv, NextTableInv, PTL DEF Spec

\* Every slot of the table holds a connection or is free.
THEOREM TableTypeCorrect == Spec => []TypeOK
<1>1. TableInv => TypeOK
  BY DEF TableInv
<1>. QED  BY <1>1, TableInvariant, PTL

\* A row whose slot 0 is free can be given to a new call: it holds no connection of
\* an old one, unless the local connection was taken out of it on its own.
THEOREM FreeRowsEmpty == Spec => []FreeRowsAreEmpty
<1>1. TableInv => FreeRowsAreEmpty
  BY DEF TableInv
<1>. QED  BY <1>1, TableInvariant, PTL

-----------------------------------------------------------------------------
(* The promise of CallTable.                                                 *)

Local(h) == IF connIDList[h][0] = Free THEN None ELSE connIDList[h][0]

\* No connection is in two slots.
Single ==
  \A g, h \in Handle, j, k \in Slot :
    connIDList[g][j] = connIDList[h][k] /\ connIDList[g][j] # Free => g = h /\ j = k

\* A table that is not misused has each connection in one slot and no orphans.
LEMMA NotMisused == ~Misused => Single /\ orphans = {}
BY DEF Misused, Single

\* The same of the table after a step.
LEMMA NotMisusedNext == ~Misused' => Single' /\ orphans' = {}
BY DEF Misused, Single

\* A connection in one slot only is found in the row of that slot.
LEMMA FoundWhereItIs ==
  ASSUME TypeOK, Single, NEW c \in Conn, NEW h \in Handle, NEW j \in Slot, connIDList[h][j] = c
  PROVE  GetCallHandle(c) = h
<1>1. RowsWith(c) = {h}
  BY MarksAssumption DEF RowsWith, Single
<1>. QED  BY <1>1, SearchFinds

\* The rows decide what the search returns.
LEMMA SameRowsSameHandle ==
  ASSUME NEW c, RowsWith(c)' = RowsWith(c)
  PROVE  GetCallHandle(c)' = GetCallHandle(c)
BY DEF GetCallHandle

\* A slot that was free takes a connection: that connection was in no call and is
\* now in the row of the slot, and every other stays where it was.
LEMMA PlacedInFreeSlot ==
  ASSUME TypeOK, TypeOK', Single', NEW c \in Conn, NEW h \in Handle, NEW j \in Slot,
         connIDList[h][j] = Free, connIDList' = [connIDList EXCEPT ![h][j] = c]
  PROVE  /\ GetCallHandle(c) = None
         /\ GetCallHandle(c)' = h
         /\ \A e \in Conn \ {c} : GetCallHandle(e)' = GetCallHandle(e)
<1>. c # Free
  BY MarksAssumption
<1>1. connIDList'[h][j] = c
  BY DEF TypeOK
<1>2. ASSUME NEW g \in Handle, NEW k \in Slot, <<g, k>> # <<h, j>>
      PROVE  connIDList'[g][k] = connIDList[g][k] /\ connIDList[g][k] # c
  <2>1. connIDList'[g][k] = connIDList[g][k]
    BY <1>2 DEF TypeOK
  <2>2. connIDList'[g][k] # c
    BY <1>1, <1>2 DEF Single
  <2>. QED  BY <2>1, <2>2
<1>3. RowsWith(c) = {}
  BY <1>2 DEF RowsWith
<1>4. RowsWith(c)' = {h}
  BY <1>1, <1>2 DEF RowsWith
<1>5. ASSUME NEW e \in Conn \ {c}  PROVE RowsWith(e)' = RowsWith(e)
  <2>1. \A g \in Handle, k \in Slot : connIDList'[g][k] = e <=> connIDList[g][k] = e
    BY <1>1, <1>2, MarksAssumption
  <2>. QED  BY <2>1 DEF RowsWith
<1>6. GetCallHandle(c)' = h
  <2>1. Min({h}) = h
    BY SizesAssumption DEF Min, Handle
  <2>. QED  BY <1>4, <2>1 DEF GetCallHandle
<1>. QED  BY <1>3, <1>5, <1>6, SearchFinds, SameRowsSameHandle

\* Creating a call in the table creates it in the map.
LEMMA CreateImplements ==
  ASSUME TableInv, TableInv', Single', NEW c \in Conn, CreateCallFromLocalConnection(c)
  PROVE  CT!Next
<1>1. PICK h \in Handle : /\ connIDList' = [connIDList EXCEPT ![h][0] = c]
                          /\ connIDList[h][0] = Free
  BY FreeFound DEF TableInv, CreateCallFromLocalConnection
<1>2. /\ GetCallHandle(c) = None /\ GetCallHandle(c)' = h
      /\ \A e \in Conn \ {c} : GetCallHandle(e)' = GetCallHandle(e)
  BY <1>1, ZeroIsASlot, PlacedInFreeSlot DEF TableInv
<1>3. Local(h) = None /\ Local(h)' = c /\ \A g \in Handle \ {h} : Local(g)' = Local(g)
  <2>1. connIDList'[h][0] = c /\ \A g \in Handle \ {h} : connIDList'[g][0] = connIDList[g][0]
    BY <1>1, ZeroIsASlot DEF TableInv, TypeOK
  <2>. QED  BY <1>1, <2>1, MarksAssumption DEF Local
<1>4. [e \in Conn |-> GetCallHandle(e)]' = [[e \in Conn |-> GetCallHandle(e)] EXCEPT ![c] = h]
  BY <1>2
<1>5. [g \in Handle |-> Local(g)]' = [[g \in Handle |-> Local(g)] EXCEPT ![h] = c]
  BY <1>3
<1>6. CT!Create(c, h)
  BY <1>2, <1>3, <1>4, <1>5 DEF CT!Create, Local
<1>. QED  BY <1>6 DEF CT!Next

\* Adding a connection in the table adds it in the map.
LEMMA AddImplements ==
  ASSUME TableInv, TableInv', Single', NEW c \in Conn, NEW h \in Handle, AddConnectionToCall(h, c)
  PROVE  CT!Next
<1>1. PICK j \in Slot \ {0} : /\ connIDList' = [connIDList EXCEPT ![h][j] = c]
                              /\ connIDList[h][0] # Free /\ connIDList[h][j] = Free
  BY FreeFound DEF TableInv, AddConnectionToCall
<1>2. /\ GetCallHandle(c) = None /\ GetCallHandle(c)' = h
      /\ \A e \in Conn \ {c} : GetCallHandle(e)' = GetCallHandle(e)
  BY <1>1, PlacedInFreeSlot DEF TableInv
<1>3. Local(h) # None /\ \A g \in Handle : Local(g)' = Local(g)
  BY <1>1, ZeroIsASlot, MarksAssumption DEF Local, TableInv, TypeOK
<1>4. CT!Add(c, h)
  BY <1>2, <1>3 DEF CT!Add, Local
<1>. QED  BY <1>4 DEF CT!Next

\* Removing a call from the table removes all of it, and nothing else, from the map.
LEMMA RemoveCallImplements ==
  ASSUME TableInv, TableInv', Single, orphans = {}, NEW c \in Conn, RemoveCallViaConnection(c)
  PROVE  CT!Next
<1>1. PICK h \in Handle : /\ connIDList' = [connIDList EXCEPT ![h] = [k \in Slot |-> Free]]
                          /\ h \in RowsWith(c)
  BY SearchFinds DEF TableInv, RemoveCallViaConnection
<1>2. Local(h) # None
  <2>1. PICK k \in Slot : connIDList[h][k] = c
    BY <1>1 DEF RowsWith
  <2>2. connIDList[h][0] # Free
    BY <2>1, MarksAssumption DEF TableInv, FreeRowsAreEmpty
  <2>. QED  BY <2>2, ZeroIsASlot, MarksAssumption DEF Local, TableInv, TypeOK
<1>3. ASSUME NEW e \in Conn
      PROVE  GetCallHandle(e)' = IF GetCallHandle(e) = h THEN None ELSE GetCallHandle(e)
  <2>1. RowsWith(e)' = RowsWith(e) \ {h}
    BY <1>1, MarksAssumption DEF RowsWith, TableInv, TypeOK
  <2>2. CASE h \in RowsWith(e)
    <3>1. PICK k \in Slot : connIDList[h][k] = e
      BY <2>2 DEF RowsWith
    <3>2. RowsWith(e) = {h} /\ GetCallHandle(e) = h
      BY <3>1, FoundWhereItIs, MarksAssumption DEF TableInv, RowsWith, Single
    <3>3. RowsWith(e)' = {}
      BY <2>1, <3>2
    <3>. QED  BY <3>2, <3>3 DEF GetCallHandle
  <2>3. CASE h \notin RowsWith(e)
    <3>1. RowsWith(e)' = RowsWith(e)
      BY <2>1, <2>3
    <3>2. GetCallHandle(e) # h
      BY <2>3, SearchFinds, MarksAssumption DEF TableInv
    <3>. QED  BY <3>1, <3>2, SameRowsSameHandle
  <2>. QED  BY <2>2, <2>3
<1>4. Local(h)' = None /\ \A g \in Handle \ {h} : Local(g)' = Local(g)
  BY <1>1, ZeroIsASlot DEF Local, TableInv, TypeOK
<1>5. CT!RemoveCall(h)
  BY <1>2, <1>3, <1>4 DEF CT!RemoveCall, Local
<1>. QED  BY <1>5 DEF CT!Next

\* Removing a connection from the table removes it from the map.
LEMMA RemoveConnectionImplements ==
  ASSUME TableInv, TableInv', Single, orphans = {}, orphans' = {},
         NEW c \in Conn, RemoveConnectionFromCall(c)
  PROVE  CT!Next
<1>1. PICK h \in Handle, j \in Slot :
        /\ GetCallHandle(c) = h /\ connIDList[h][j] = c
        /\ connIDList' = [connIDList EXCEPT ![h][j] = Free]
        /\ j = 0 => \A k \in Slot : connIDList'[h][k] = Free
  BY SlotFound DEF TableInv, RemoveConnectionFromCall
<1>2. h # None
  BY MarksAssumption
<1>. c # Free
  BY MarksAssumption
<1>4. ASSUME NEW g \in Handle, NEW k \in Slot, <<g, k>> # <<h, j>>
      PROVE  connIDList'[g][k] = connIDList[g][k] /\ connIDList[g][k] # c
  <2>1. connIDList'[g][k] = connIDList[g][k]
    BY <1>1, <1>4 DEF TableInv, TypeOK
  <2>2. connIDList[g][k] # c
    BY <1>1, <1>4 DEF Single
  <2>. QED  BY <2>1, <2>2
<1>5. connIDList'[h][j] = Free
  BY <1>1 DEF TableInv, TypeOK
<1>6. GetCallHandle(c)' = None
  <2>1. RowsWith(c)' = {}
    BY <1>4, <1>5 DEF RowsWith
  <2>. QED  BY <2>1 DEF GetCallHandle
<1>7. ASSUME NEW e \in Conn \ {c}  PROVE GetCallHandle(e)' = GetCallHandle(e)
  <2>1. \A g \in Handle, k \in Slot : connIDList'[g][k] = e <=> connIDList[g][k] = e
    BY <1>1, <1>4, <1>5, MarksAssumption
  <2>2. RowsWith(e)' = RowsWith(e)
    BY <2>1 DEF RowsWith
  <2>. QED  BY <2>2, SameRowsSameHandle
<1>8. [e \in Conn |-> GetCallHandle(e)]' = [[e \in Conn |-> GetCallHandle(e)] EXCEPT ![c] = None]
  BY <1>6, <1>7
<1>9. CASE j # 0
  <2>1. \A g \in Handle : Local(g)' = Local(g)
    BY <1>4, <1>9, ZeroIsASlot DEF Local
  <2>2. c # Local(h)
    BY <1>1, <1>4, <1>9, ZeroIsASlot, MarksAssumption DEF Local
  <2>3. CT!RemoveConnection(c)
    <3>1. [g \in Handle |-> Local(g)]' = [g \in Handle |-> Local(g)]
      BY <2>1
    <3>. QED  BY <1>1, <1>2, <1>8, <2>2, <3>1 DEF CT!RemoveConnection, Local
  <2>. QED  BY <2>3 DEF CT!Next
<1>10. CASE j = 0
  <2>1. ASSUME NEW e \in Conn \ {c}  PROVE GetCallHandle(e) # h
    <3>1. \A k \in Slot : connIDList[h][k] # e
      BY <1>1, <1>4, <1>10, MarksAssumption
    <3>2. h \notin RowsWith(e)
      BY <3>1 DEF RowsWith
    <3>. QED  BY <1>2, <3>2, SearchFinds DEF TableInv
  <2>2. Local(h)' = None /\ \A g \in Handle \ {h} : Local(g)' = Local(g)
    <3>1. connIDList'[h][0] = Free
      BY <1>5, <1>10
    <3>2. \A g \in Handle \ {h} : connIDList'[g][0] = connIDList[g][0]
      BY <1>4, ZeroIsASlot
    <3>. QED  BY <3>1, <3>2 DEF Local
  <2>3. CT!RemoveConnection(c)
    <3>1. [g \in Handle |-> Local(g)]' = [[g \in Handle |-> Local(g)] EXCEPT ![h] = None]
      BY <2>2
    <3>. QED  BY <1>1, <1>2, <1>8, <2>1, <3>1 DEF CT!RemoveConnection, Local
  <2>. QED  BY <2>3 DEF CT!Next
<1>. QED  BY <1>9, <1>10

\* Every method is a step of the map, or the table is misused.
LEMMA StepImplements ==
  TableInv /\ TableInv' /\ [Next]_vars => [CT!Next \/ Misused \/ Misused']_(CT!vars)
<1>. SUFFICES ASSUME TableInv, TableInv', Next, ~Misused, ~Misused'
              PROVE  CT!Next
  BY DEF vars, CT!vars, GetCallHandle, RowsWith
<1>1. Single /\ orphans = {} /\ Single' /\ orphans' = {}
  BY NotMisused, NotMisusedNext
<1>2. PICK c \in Conn : \/ CreateCallFromLocalConnection(c)
                        \/ \E h \in Handle : AddConnectionToCall(h, c)
                        \/ RemoveCallViaConnection(c)
                        \/ RemoveConnectionFromCall(c)
  BY DEF Next
<1>. QED  BY <1>1, <1>2, CreateImplements, AddImplements, RemoveCallImplements, RemoveConnectionImplements

\* The empty table is the empty map.
LEMMA InitImplements == Init => CT!Init
<1>. SUFFICES ASSUME Init  PROVE CT!Init
  OBVIOUS
<1>1. \A c \in Conn : RowsWith(c) = {}
  BY MarksAssumption DEF Init, RowsWith
<1>. QED  BY <1>1, ZeroIsASlot DEF Init, CT!Init, GetCallHandle

\* While callers keep to the rules of the comments, the rows of slots are the partial
\* map from connections to calls that CallTable describes, for any number of calls and
\* of connections in a call.
THEOREM TablePromiseKept == Spec => PromiseKept
<1>1. Spec => []TableInv
  BY TableInvariant
<1>. QED  BY <1>1, StepImplements, InitImplements, PTL DEF Spec, PromiseKept

-----------------------------------------------------------------------------
(* The pump of TsapiWnd, as MCTsapi puts it beside the device table.          *)

\* After it has been freed the buffer holds no block of the heap.
LEMMA FreedBuffer ==
  ASSUME W!BufferOwned, W!Alive
  PROVE  W!HeapAfterFree = {} /\ {W!BufferAfterFree} \cap W!Block = {}
BY DEF W!BufferOwned, W!HeapAfterFree, W!BufferAfterFree, W!Block

\* OnTsapiMsg (Tsapi.cpp 280-440) frees the block of the event before, and what
\* it allocates afterwards is what m_EventBufPtr points to, also when the second
\* call of acsGetEventPoll fails.
LEMMA PumpOwned ==
  ASSUME W!BufferOwned, W!OnTsapiMsg
  PROVE  W!BufferOwned'
<1>1. W!Alive /\ W!Alive'
  BY DEF W!OnTsapiMsg, W!Alive
<1>2. W!HeapAfterFree = {} /\ {W!BufferAfterFree} \cap W!Block = {}
  BY <1>1, FreedBuffer
<1>3. "static" \notin W!Block /\ "null" \notin W!Block
  BY DEF W!Block
<1>4. CASE W!NothingThere \/ W!PollFails
  BY <1>1, <1>2, <1>4 DEF W!NothingThere, W!PollFails, W!BufferOwned
<1>5. CASE W!SmallEvent
  BY <1>1, <1>2, <1>3, <1>5 DEF W!SmallEvent, W!BufferOwned
<1>6. CASE W!BigEvent
  <2>1. PICK b \in W!Block : buffer' = b /\ heap' = {b}
    BY <1>2, <1>6 DEF W!BigEvent
  <2>. QED  BY <1>1, <2>1 DEF W!BufferOwned
<1>7. CASE W!BigEventFails
  BY <1>1, <1>2, <1>3, <1>7 DEF W!BigEventFails, W!BufferOwned
<1>. QED  BY <1>4, <1>5, <1>6, <1>7 DEF W!OnTsapiMsg

\* Nothing else allocates or frees, but ~CTsapiWnd, which frees what there is.
LEMMA StepOwned == W!BufferOwned /\ [W!Next]_pump => W!BufferOwned'
<1>. SUFFICES ASSUME W!BufferOwned, [W!Next]_pump  PROVE W!BufferOwned'
  OBVIOUS
<1>1. ASSUME UNCHANGED <<buffer, heap>>, W!Alive' = W!Alive  PROVE W!BufferOwned'
  BY <1>1 DEF W!BufferOwned
<1>2. ASSUME NEW e \in W!Event, W!Arrive(e)  PROVE W!BufferOwned'
  BY <1>1, <1>2 DEF W!Arrive, W!Alive
<1>3. ASSUME NEW w \in Window, W!CloseWindow(w)  PROVE W!BufferOwned'
  BY <1>1, <1>3, ControllerAssumption DEF W!CloseWindow, W!Alive
<1>4. CASE W!Destroy
  BY <1>4, FreedBuffer DEF W!Destroy, W!BufferOwned, W!Alive
<1>5. CASE W!SendMessageReturns
  BY <1>1, <1>5 DEF W!SendMessageReturns, W!Alive
<1>6. CASE UNCHANGED pump
  BY <1>1, <1>6 DEF pump, W!Alive
<1>. QED  BY <1>2, <1>3, <1>4, <1>5, <1>6, PumpOwned DEF W!Next

\* No block of the heap is lost and none is freed twice, whatever fails and
\* however deep the pump is nested (Tsapi.cpp 287, 322, 354).
THEOREM Owned == MCSpec => []BufferOwned
<1>1. MCInit => W!BufferOwned
  BY DEF MCInit, W!Init, W!BufferOwned, W!Block
<1>2. W!BufferOwned /\ [MCNext]_<<vars, pump, part>> => W!BufferOwned'
  <2>1. [MCNext]_<<vars, pump, part>> => [W!Next]_pump
    BY DEF MCNext, pump
  <2>. QED  BY <2>1, StepOwned
<1>3. W!BufferOwned => BufferOwned
  BY DEF BufferOwned
<1>. QED  BY <1>1, <1>2, <1>3, PTL DEF MCSpec
=============================================================================

-------------------------- MODULE CendServer_proofs --------------------------
(***************************************************************************)
(* For any number of connections and any maximum: the state of the C-end   *)
(* server keeps its types, and ConnCount is the size of the table up to    *)
(* the goroutines that are between their two statements.                   *)
(***************************************************************************)
EXTENDS CendServer, FiniteSetTheorems, TLAPS

\* handleWebSocket has not stored c yet.
Unstored(c) == accept[c] \in {"none", "checked", "admitted", "refused"}

\* What CountAccounts needs to be inductive: a connection is stored once, the
\* checker deletes a connection that is still there, and until the sweep
\* nobody else deletes any.
OneRemover ==
  /\ \A c \in Conn : Unstored(c) => c \notin table
  /\ checker.pc \in {"close", "subtract"} => checker.conn \in Conn
  /\ stop \in {"no", "cancelled"} =>
       /\ sweep.conn = None
       /\ checker.pc = "close" => checker.conn \in table

CountInv == TypeOK /\ OneRemover /\ CountAccounts

-----------------------------------------------------------------------------
(* Types *)

\* The initial state has the right types.
LEMMA InitType == Init => TypeOK
BY CendAssumption DEF Init, TypeOK, Accepting, Loop

\* The steps of a connection, and of whoever closes it, keep the types.
LEMMA ConnType ==
  ASSUME TypeOK, NEW c \in Conn,
         \/ Accept(c) \/ Handler(c) \/ ReceiveAuth(c) \/ ReadFails(c)
         \/ WriteEnds(c) \/ Close(c)
  PROVE  TypeOK'
<1>. USE CendAssumption DEF TypeOK, connVars, tableVars, Accepting, Loop
<1>1. CASE Accept(c)
  BY <1>1 DEF Accept
<1>2. CASE Upgrade(c)
  BY <1>2 DEF Upgrade
<1>3. CASE StoreConn(c)
  BY <1>3 DEF StoreConn
<1>4. CASE CountConn(c)
  BY <1>4 DEF CountConn
<1>5. CASE ReceiveAuth(c)
  BY <1>5 DEF ReceiveAuth
<1>6. CASE AuthRegister(c)
  BY <1>6 DEF AuthRegister, AddOnlineUser
<1>7. CASE ReadFails(c)
  BY <1>7 DEF ReadFails
<1>8. CASE WriteEnds(c)
  BY <1>8 DEF WriteEnds
<1>9. CASE CloseBegin(c)
  BY <1>9 DEF CloseBegin
<1>10. CASE CloseEnd(c)
  BY <1>10 DEF CloseEnd, RemoveOnlineUser
<1>. QED
  BY <1>1, <1>2, <1>3, <1>4, <1>5, <1>6, <1>7, <1>8, <1>9, <1>10
     DEF Handler, Close

\* The steps of the checker and of the shutdown keep the types.
LEMMA ServerType ==
  ASSUME TypeOK,
         \/ \E c \in Conn : CheckTimeout(c)
         \/ Removal \/ CheckEnds \/ Stop \/ Sweeper \/ StopReturns
  PROVE  TypeOK'
<1>. USE CendAssumption DEF TypeOK, connVars, tableVars
<1>1. ASSUME NEW c \in Conn, CheckTimeout(c) PROVE TypeOK'
  BY <1>1 DEF CheckTimeout
<1>2. CASE CheckDelete
  BY <1>2 DEF CheckDelete
<1>3. CASE CheckSubtract
  <2>1. checker' \in [pc   : {"idle", "close", "subtract", "ended"},
                      conn : Conn \cup {None}]
    BY <1>3, Zenon DEF CheckSubtract
  <2>2. count' \in Int
    BY <1>3 DEF CheckSubtract
  <2>. QED  BY <1>3, <2>1, <2>2 DEF CheckSubtract
<1>4. CASE CheckEnds
  BY <1>4 DEF CheckEnds
<1>5. CASE Stop \/ StopReturns
  BY <1>5 DEF Stop, StopReturns
<1>6. CASE HttpShutdown
  BY <1>6 DEF HttpShutdown
<1>7. ASSUME NEW c \in Conn, SweepVisit(c) PROVE TypeOK'
  BY <1>7 DEF SweepVisit
<1>8. CASE SweepDelete
  BY <1>8 DEF SweepDelete
<1>9. CASE SweepEnds
  BY <1>9 DEF SweepEnds
<1>. QED
  BY <1>1, <1>2, <1>3, <1>4, <1>5, <1>6, <1>7, <1>8, <1>9 DEF Removal, Sweeper

\* Every step keeps the types.
LEMMA StepType == TypeOK /\ [Next]_vars => TypeOK'
<1>1. TypeOK /\ UNCHANGED vars => TypeOK'
  BY DEF TypeOK, vars
<1>. QED  BY <1>1, ConnType, ServerType DEF Next

\* The state of the C-end server keeps its types, whatever its handlers,
\* loops, checker and shutdown do to each other.
THEOREM CendTypeCorrect == Spec => []TypeOK
BY InitType, StepType, PTL DEF Spec

-----------------------------------------------------------------------------
(* The count *)

\* Sets of connections are finite, and one element more or less is one more
\* or less in number.
LEMMA OneMore ==
  ASSUME NEW S \in SUBSET Conn, NEW c \in Conn, c \notin S
  PROVE  /\ Cardinality(S) \in Nat
         /\ Cardinality(S \cup {c}) = Cardinality(S) + 1
<1>1. IsFiniteSet(S)
  BY CendAssumption, FS_Subset
<1>. QED  BY <1>1, FS_AddElement, FS_CardinalityType

\* The size of a set of connections is a number.
LEMMA SomeNumber ==
  ASSUME NEW S \in SUBSET Conn
  PROVE  Cardinality(S) \in Nat
BY CendAssumption, FS_Subset, FS_CardinalityType

\* Initially nothing is there.
LEMMA InitCount == Init => OneRemover /\ CountAccounts
<1>. SUFFICES ASSUME Init PROVE OneRemover /\ CountAccounts
  OBVIOUS
<1>1. table = {} /\ Uncounted = {} /\ Subtracting = {} /\ count = 0
  BY DEF Init, Uncounted, Subtracting
<1>2. CountAccounts
  BY <1>1, FS_EmptySet DEF CountAccounts
<1>. QED  BY <1>1, <1>2 DEF OneRemover, Init, Unstored

\* A connection is stored once, and before the sweep only the checker deletes.
LEMMA RemoverStep == TypeOK /\ OneRemover /\ [Next]_vars => OneRemover'
<1>. SUFFICES ASSUME TypeOK, OneRemover, [Next]_vars PROVE OneRemover'
  OBVIOUS
<1>. USE DEF TypeOK, OneRemover, Unstored, connVars, tableVars
<1>1. ASSUME NEW c \in Conn,
             \/ Accept(c) \/ Handler(c) \/ ReceiveAuth(c) \/ ReadFails(c)
             \/ WriteEnds(c) \/ Close(c)
      PROVE  OneRemover'
  <2>1. CASE Accept(c) \/ Upgrade(c)
    BY <2>1 DEF Accept, Upgrade
  <2>2. CASE StoreConn(c)
    BY <2>2 DEF StoreConn
  <2>3. CASE CountConn(c)
    BY <2>3 DEF CountConn
  <2>4. CASE ReceiveAuth(c) \/ AuthRegister(c) \/ ReadFails(c) \/ WriteEnds(c)
    BY <2>4 DEF ReceiveAuth, AuthRegister, ReadFails, WriteEnds
  <2>5. CASE Close(c)
    BY <2>5 DEF Close, CloseBegin, CloseEnd
  <2>. QED  BY <1>1, <2>1, <2>2, <2>3, <2>4, <2>5 DEF Handler
<1>2. ASSUME NEW c \in Conn, CheckTimeout(c) PROVE OneRemover'
  BY <1>2 DEF CheckTimeout, TimedOut
<1>3. CASE CheckDelete
  BY <1>3 DEF CheckDelete
<1>4. CASE CheckSubtract
  BY <1>4 DEF CheckSubtract
<1>5. CASE CheckEnds
  BY <1>5 DEF CheckEnds
<1>6. CASE Stop \/ StopReturns
  BY <1>6 DEF Stop, StopReturns
<1>7. CASE Sweeper
  BY <1>7, CendAssumption DEF Sweeper, HttpShutdown, SweepVisit, SweepDelete, SweepEnds
<1>8. CASE UNCHANGED vars
  BY <1>8 DEF vars
<1>. QED
  BY <1>1, <1>2, <1>3, <1>4, <1>5, <1>6, <1>7, <1>8 DEF Next, Removal

\* A step that leaves count, table, and the windows alone keeps the account.
LEMMA CountKept ==
  ASSUME CountAccounts, count' = count, table' = table,
         Uncounted' = Uncounted, Subtracting' = Subtracting,
         stop' \in {"no", "cancelled"} => stop \in {"no", "cancelled"}
  PROVE  CountAccounts'
BY DEF CountAccounts

\* Storing a connection: one more in the table, and one to be counted.
LEMMA StoreCount ==
  ASSUME CountInv, NEW c \in Conn, StoreConn(c)
  PROVE  CountAccounts'
<1>. USE DEF CountInv, TypeOK
<1>1. c \notin table /\ c \notin Uncounted
  BY DEF OneRemover, Unstored, StoreConn, Uncounted
<1>2. Uncounted' = Uncounted \cup {c} /\ Subtracting' = Subtracting
  <2>1. \A d \in Conn : accept'[d] = "stored" <=> d = c \/ accept[d] = "stored"
    BY DEF StoreConn
  <2>2. Uncounted' = Uncounted \cup {c}
    BY <2>1 DEF Uncounted
  <2>3. checker' = checker
    BY DEF StoreConn
  <2>4. Subtracting' = Subtracting
    BY <2>3 DEF Subtracting
  <2>. QED  BY <2>2, <2>4
<1>3. /\ Cardinality(table') = Cardinality(table) + 1
      /\ Cardinality(Uncounted') = Cardinality(Uncounted) + 1
  <2>1. Uncounted \in SUBSET Conn
    BY DEF Uncounted
  <2>2. Cardinality(Uncounted') = Cardinality(Uncounted) + 1
    BY <1>1, <1>2, <2>1, OneMore
  <2>3. table' = table \cup {c} /\ table \in SUBSET Conn
    BY DEF StoreConn
  <2>4. Cardinality(table') = Cardinality(table) + 1
    BY <1>1, <2>3, OneMore
  <2>. QED  BY <2>2, <2>4
<1>4. /\ Cardinality(table) \in Nat
      /\ Cardinality(Uncounted) \in Nat
      /\ Cardinality(Subtracting) \in Nat
  BY SomeNumber DEF Uncounted, Subtracting
<1>. QED  BY <1>2, <1>3, <1>4 DEF CountAccounts, StoreConn

\* Counting a connection: one less to be counted.
LEMMA CountCount ==
  ASSUME CountInv, NEW c \in Conn, CountConn(c)
  PROVE  CountAccounts'
<1>. USE DEF CountInv, TypeOK
<1>1. /\ Uncounted = Uncounted' \cup {c} /\ c \notin Uncounted'
      /\ Subtracting' = Subtracting
  BY DEF CountConn, Uncounted, Subtracting
<1>2. Uncounted' \in SUBSET Conn
  BY DEF Uncounted
<1>3. /\ Cardinality(Uncounted') \in Nat
      /\ Cardinality(Uncounted) = Cardinality(Uncounted') + 1
  BY <1>1, <1>2, OneMore
<1>4. /\ Cardinality(table) \in Nat
      /\ Cardinality(Subtracting) \in Nat
  BY SomeNumber DEF Subtracting
<1>. QED  BY <1>1, <1>3, <1>4 DEF CountAccounts, CountConn

\* Deleting a connection: one less in the table, and one to be subtracted.
LEMMA DeleteCount ==
  ASSUME CountInv, CheckDelete
  PROVE  CountAccounts'
<1>. USE DEF CountInv, TypeOK
<1>. SUFFICES ASSUME stop \in {"no", "cancelled"} PROVE CountAccounts'
  BY DEF CountAccounts, CheckDelete
<1>. DEFINE c == checker.conn
<1>1. c \in Conn /\ c \in table /\ checker.pc = "close"
  BY DEF OneRemover, CheckDelete
<1>2. /\ table = table' \cup {c} /\ c \notin table' /\ table' \in SUBSET Conn
      /\ Uncounted' = Uncounted
  BY <1>1 DEF CheckDelete, connVars, Uncounted
<1>3. Subtracting = {} /\ Subtracting' = {} \cup {c}
  BY <1>1 DEF CheckDelete, Subtracting
<1>. HIDE DEF c
<1>4. /\ Cardinality(table') \in Nat
      /\ Cardinality(table) = Cardinality(table') + 1
  BY <1>1, <1>2, OneMore
<1>5. Cardinality(Subtracting') = Cardinality(Subtracting) + 1
  BY <1>1, <1>3, OneMore, Zenon
<1>6. Cardinality(Uncounted) \in Nat /\ Cardinality(Subtracting) \in Nat
  BY SomeNumber DEF Uncounted, Subtracting
<1>. QED  BY <1>2, <1>4, <1>5, <1>6 DEF CountAccounts, CheckDelete

\* Subtracting a connection: one less to be subtracted.
LEMMA SubtractCount ==
  ASSUME CountInv, CheckSubtract
  PROVE  CountAccounts'
<1>. USE DEF CountInv, TypeOK
<1>. DEFINE c == checker.conn
<1>1. c \in Conn
  BY DEF OneRemover, CheckSubtract
<1>2. Subtracting' = {} /\ Subtracting = {} \cup {c}
  BY <1>1 DEF CheckSubtract, Subtracting
<1>3. Uncounted' = Uncounted
  BY DEF CheckSubtract, connVars, Uncounted
<1>. HIDE DEF c
<1>4. /\ Cardinality(Subtracting') \in Nat
      /\ Cardinality(Subtracting) = Cardinality(Subtracting') + 1
  BY <1>1, <1>2, OneMore, Zenon
<1>5. Cardinality(Uncounted) \in Nat /\ Cardinality(table) \in Nat
  BY SomeNumber DEF Uncounted
<1>. QED  BY <1>3, <1>4, <1>5 DEF CountAccounts, CheckSubtract

\* Every step keeps the account.
LEMMA CountStep == CountInv /\ [Next]_vars => CountAccounts'
<1>. SUFFICES ASSUME CountInv, [Next]_vars PROVE CountAccounts'
  OBVIOUS
<1>. USE DEF CountInv, connVars, tableVars, Uncounted, Subtracting
<1>1. ASSUME NEW c \in Conn,
             \/ Accept(c) \/ Upgrade(c) \/ AuthRegister(c) \/ ReceiveAuth(c)
             \/ ReadFails(c) \/ WriteEnds(c) \/ Close(c) \/ CheckTimeout(c)
      PROVE  CountAccounts'
  <2>1. Uncounted' = Uncounted
    BY <1>1, Zenon DEF TypeOK, Accept, Upgrade, AuthRegister, ReceiveAuth, ReadFails,
                WriteEnds, Close, CloseBegin, CloseEnd, CheckTimeout
  <2>2. count' = count /\ table' = table /\ stop' = stop
    BY <1>1, Zenon DEF Accept, Upgrade, AuthRegister, ReceiveAuth, ReadFails,
                WriteEnds, Close, CloseBegin, CloseEnd, CheckTimeout
  <2>3. checker' = checker \/ CheckTimeout(c)
    BY <1>1 DEF Accept, Upgrade, AuthRegister, ReceiveAuth, ReadFails,
                WriteEnds, Close, CloseBegin, CloseEnd
  <2>4. Subtracting' = Subtracting
    BY <2>3 DEF CheckTimeout
  <2>. QED  BY <2>1, <2>2, <2>4, CountKept
<1>2. CASE CheckEnds
  BY <1>2, CountKept DEF CheckEnds, TypeOK
<1>3. CASE Stop \/ UNCHANGED vars
  BY <1>3, CountKept DEF Stop, vars
<1>4. CASE Sweeper \/ StopReturns
  BY <1>4, CendAssumption
     DEF CountAccounts, OneRemover, Sweeper, HttpShutdown, SweepVisit,
         SweepDelete, SweepEnds, StopReturns
<1>. QED
  BY <1>1, <1>2, <1>3, <1>4, StoreCount, CountCount, DeleteCount, SubtractCount
     DEF Next, Handler, Removal

\* ConnCount and the table of connections agree at all times before the
\* shutdown, but for those handlers and that checker which are between two
\* statements, for every number of connections and every interleaving
\* (handleWebSocket, heartbeatChecker).
THEOREM CountIsExact == Spec => []CountAccounts
<1>1. Init => CountInv
  BY InitType, InitCount DEF CountInv
<1>2. CountInv /\ [Next]_vars => CountInv'
  BY StepType, RemoverStep, CountStep DEF CountInv
<1>3. CountInv => CountAccounts
  BY DEF CountInv
<1>. QED  BY <1>1, <1>2, <1>3, PTL DEF Spec

=============================================================================

------------------------ MODULE ColumnLockTableProofs ------------------------
(***************************************************************************)
(* Proofs about ColumnLockTable, for any finite set of transactions and    *)
(* any archetypes and components: the table's counters are its holders,    *)
(* read-write exclusion, and the implementation of ColumnLocks.            *)
(***************************************************************************)
EXTENDS ColumnLockTable, FiniteSetTheorems, TLAPS

Holders(col) == {t \in Txs : col \in shared[t]}

(* Only the transaction that owns the mutex is inside acquire or release,  *)
(* and the loop variables are at rest while nobody owns it.                *)
MutexInv ==
  /\ \A t \in Txs : phase[t] \in InMutex <=> mutex = t
  /\ mutex = NoTx => todo = {}

(* What a lock set looks like.                                             *)
LockSetInv ==
  \A t \in Txs :
    /\ shared[t] \cap excl[t] = {}
    /\ phase[t] \in {"idle", "unready"} => shared[t] = {} /\ excl[t] = {}
    /\ phase[t] \in {"rollback", "releasing"} => todo = shared[t] \cup excl[t]

(* Where acquire's loop stands: what is granted so far is the visited part *)
(* of the request, each entry in the mode the access asks for.             *)
LoopInv ==
  \A t \in Txs :
    /\ phase[t] \in {"acquiring", "failing"} =>
         /\ todo \subseteq Requests(access[t])
         /\ shared[t] \cup excl[t] \subseteq Requests(access[t]) \ todo
         /\ \A col \in excl[t] : col[2] \in access[t].writes
         /\ \A col \in shared[t] : col[2] \notin access[t].writes
    /\ phase[t] = "acquiring" =>
         shared[t] \cup excl[t] = Requests(access[t]) \ todo

(* A failed acquire met a transaction that really is in the way.           *)
BlockedBy(t, u) ==
  /\ phase[u] = "locked"
  /\ \E col \in Requests(access[t]) :
       \/ col \in excl[u]
       \/ col \in shared[u] /\ col[2] \in access[t].writes

RefusalInv ==
  \A t \in Txs :
    phase[t] \in {"failing", "rollback"} => \E u \in Txs : BlockedBy(t, u)

IInv ==
  /\ TypeOK
  /\ MutexInv
  /\ TableIsHolders
  /\ Exclusion
  /\ LockSetInv
  /\ LoopInv
  /\ RefusalInv

-----------------------------------------------------------------------------
(* The holders of a column are finitely many, and their number follows the *)
(* set through the joining and the leaving of one transaction.             *)
LEMMA HoldersFinite ==
  ASSUME NEW col
  PROVE  /\ IsFiniteSet(Holders(col))
         /\ Cardinality(Holders(col)) \in Nat
         /\ Cardinality(Holders(col)) = 0 <=> Holders(col) = {}
<1>1. IsFiniteSet(Holders(col))
  BY TxsAssumption, FS_Subset DEF Holders
<1>2. QED
  BY <1>1, FS_CardinalityType, FS_EmptySet

LEMMA HolderJoins ==
  ASSUME NEW col, NEW t \in Txs, t \notin Holders(col),
         Holders(col)' = Holders(col) \cup {t}
  PROVE  Cardinality(Holders(col)') = Cardinality(Holders(col)) + 1
BY HoldersFinite, FS_AddElement

LEMMA HolderLeaves ==
  ASSUME NEW col, NEW t \in Txs, t \in Holders(col),
         Holders(col)' = Holders(col) \ {t}
  PROVE  /\ Cardinality(Holders(col)') = Cardinality(Holders(col)) - 1
         /\ Cardinality(Holders(col)) > 0
<1>1. Cardinality(Holders(col)) # 0
  BY HoldersFinite
<1>2. Cardinality(Holders(col)) > 0
  BY <1>1, HoldersFinite
<1>3. QED
  BY <1>2, HoldersFinite, FS_RemoveElement

-----------------------------------------------------------------------------
(* Init establishes the invariant.                                         *)
LEMMA InitIInv == Init => IInv
<1>1. SUFFICES ASSUME Init PROVE IInv
  OBVIOUS
<1>2. \A col \in Columns : Holders(col) = {}
  BY <1>1 DEF Init, Holders
<1>3. TableIsHolders
  BY <1>1, <1>2, FS_EmptySet DEF Init, TableIsHolders, Holders
<1>4. TypeOK
  BY <1>1 DEF Init, TypeOK, Phases, Accesses, NoAccess
<1>5. MutexInv /\ Exclusion /\ LockSetInv /\ LoopInv /\ RefusalInv
  BY <1>1, TxsAssumption
  DEF Init, MutexInv, InMutex, Exclusion, LockSetInv, LoopInv, RefusalInv
<1>6. QED
  BY <1>3, <1>4, <1>5 DEF IInv

(* Every action preserves the type invariant.                              *)
LEMMA TypeStep == TypeOK /\ [Next]_vars => TypeOK'
<1>1. SUFFICES ASSUME TypeOK, [Next]_vars PROVE TypeOK'
  OBVIOUS
<1>2. ASSUME NEW a \in Archetypes, NEW cs \in SUBSET Components,
             NewArchetype(a, cs)
      PROVE  TypeOK'
  BY <1>1, <1>2 DEF NewArchetype, TypeOK, Columns
<1>3. ASSUME NEW t \in Txs, TxStep(t) PROVE TypeOK'
  <2>1. ASSUME NEW acc \in AccessSets, Begin(t, acc) PROVE TypeOK'
    BY <1>1, <2>1, AccessAssumption DEF Begin, TypeOK, Phases, Requests
  <2>2. ASSUME NEW col \in Columns, GrantOne(t, col) PROVE TypeOK'
    <3>1. CASE IsExclusive(access[t], col)
      BY <1>1, <2>2, <3>1 DEF GrantOne, TypeOK
    <3>2. CASE ~IsExclusive(access[t], col)
      BY <1>1, <2>2, <3>2 DEF GrantOne, TypeOK
    <3>3. QED BY <3>1, <3>2
  <2>3. ASSUME NEW col \in Columns, RefuseOne(t, col) PROVE TypeOK'
    BY <1>1, <2>3 DEF RefuseOne, TypeOK, Phases
  <2>4. ASSUME NEW col \in Columns, ReleaseOne(t, col) PROVE TypeOK'
    <3>1. CASE col \in excl[t]
      BY <1>1, <2>4, <3>1 DEF ReleaseOne, TypeOK
    <3>2. CASE col \notin excl[t]
      <4>1. readers' \in [Columns -> Nat]
        BY <1>1, <2>4, <3>2 DEF ReleaseOne, TypeOK
      <4>2. QED
        BY <1>1, <2>4, <3>2, <4>1 DEF ReleaseOne, TypeOK
    <3>3. QED BY <3>1, <3>2
  <2>5. CASE AcquireSome(t)
    BY <1>1, <2>5 DEF AcquireSome, TypeOK, Phases
  <2>6. CASE StartRollback(t)
    BY <1>1, <2>6 DEF StartRollback, TypeOK, Phases
  <2>7. CASE AcquireNone(t)
    BY <1>1, <2>7 DEF AcquireNone, TypeOK, Phases
  <2>8. CASE StartRelease(t)
    BY <1>1, <2>8 DEF StartRelease, TypeOK, Phases
  <2>9. CASE EndRelease(t)
    BY <1>1, <2>9 DEF EndRelease, TypeOK, Phases, Accesses, NoAccess
  <2>10. CASE DropUnready(t)
    BY <1>1, <2>10 DEF DropUnready, TypeOK, Phases, Accesses, NoAccess
  <2>11. QED
    BY <1>3, <2>1, <2>2, <2>3, <2>4, <2>5, <2>6, <2>7, <2>8, <2>9, <2>10
    DEF TxStep
<1>4. CASE UNCHANGED vars
  BY <1>1, <1>4 DEF vars, TypeOK
<1>5. QED
  BY <1>1, <1>2, <1>3, <1>4 DEF Next

(* Every action keeps the mutex, the lock sets and the loop in order.      *)
LEMMA ControlStep ==
  IInv /\ [Next]_vars => MutexInv' /\ LockSetInv' /\ LoopInv'
<1>1. SUFFICES ASSUME IInv, [Next]_vars
               PROVE  MutexInv' /\ LockSetInv' /\ LoopInv'
  OBVIOUS
<1> USE DEF IInv, InMutex
<1>2. ASSUME NEW a \in Archetypes, NEW cs \in SUBSET Components,
             NewArchetype(a, cs)
      PROVE  MutexInv' /\ LockSetInv' /\ LoopInv'
  BY <1>1, <1>2 DEF NewArchetype, MutexInv, LockSetInv, LoopInv
<1>3. ASSUME NEW t \in Txs, TxStep(t)
      PROVE  MutexInv' /\ LockSetInv' /\ LoopInv'
  <2>1. ASSUME NEW acc \in AccessSets, Begin(t, acc)
        PROVE  MutexInv' /\ LockSetInv' /\ LoopInv'
    <3>1. MutexInv'
      BY <1>1, <2>1, TxsAssumption DEF Begin, MutexInv, TypeOK
    <3>2. LockSetInv'
      BY <1>1, <2>1, TxsAssumption DEF Begin, MutexInv, LockSetInv, TypeOK
    <3>3. Requests(access[t])' = todo'
      BY <1>1, <2>1 DEF Begin, Requests, TypeOK
    <3>4. LoopInv'
      BY <1>1, <2>1, <3>3, TxsAssumption
      DEF Begin, MutexInv, LockSetInv, LoopInv, TypeOK
    <3>5. QED BY <3>1, <3>2, <3>4
  <2>2. ASSUME NEW col \in Columns, GrantOne(t, col)
        PROVE  MutexInv' /\ LockSetInv' /\ LoopInv'
    <3>1. mutex = t /\ \A u \in Txs \ {t} : phase[u] \notin InMutex
      BY <1>1, <2>2 DEF GrantOne, MutexInv
    <3>2. Requests(access[t])' = Requests(access[t])
      BY <2>2 DEF GrantOne, Requests
    <3>3. col \in Requests(access[t]) /\ col \notin shared[t] \cup excl[t]
      BY <1>1, <2>2 DEF GrantOne, LoopInv
    <3>4. CASE IsExclusive(access[t], col)
      BY <1>1, <2>2, <3>1, <3>2, <3>3, <3>4, TxsAssumption
      DEF GrantOne, MutexInv, LockSetInv, LoopInv, TypeOK, IsExclusive
    <3>5. CASE ~IsExclusive(access[t], col)
      BY <1>1, <2>2, <3>1, <3>2, <3>3, <3>5, TxsAssumption
      DEF GrantOne, MutexInv, LockSetInv, LoopInv, TypeOK, IsExclusive
    <3>6. QED BY <3>4, <3>5
  <2>3. ASSUME NEW col \in Columns, RefuseOne(t, col)
        PROVE  MutexInv' /\ LockSetInv' /\ LoopInv'
    <3>1. mutex = t /\ \A u \in Txs \ {t} : phase[u] \notin InMutex
      BY <1>1, <2>3 DEF RefuseOne, MutexInv
    <3>2. Requests(access[t])' = Requests(access[t])
      BY <2>3 DEF RefuseOne, Requests
    <3>3. QED
      BY <1>1, <2>3, <3>1, <3>2, TxsAssumption
      DEF RefuseOne, MutexInv, LockSetInv, LoopInv, TypeOK
  <2>4. ASSUME NEW col \in Columns, ReleaseOne(t, col)
        PROVE  MutexInv' /\ LockSetInv' /\ LoopInv'
    <3>1. mutex = t /\ \A u \in Txs \ {t} : phase[u] \notin InMutex
      BY <1>1, <2>4 DEF ReleaseOne, MutexInv
    <3>2. CASE col \in excl[t]
      BY <1>1, <2>4, <3>1, <3>2, TxsAssumption
      DEF ReleaseOne, MutexInv, LockSetInv, LoopInv, TypeOK
    <3>3. CASE col \notin excl[t]
      BY <1>1, <2>4, <3>1, <3>3, TxsAssumption
      DEF ReleaseOne, MutexInv, LockSetInv, LoopInv, TypeOK
    <3>4. QED BY <3>2, <3>3
  <2>5. CASE AcquireSome(t)
    BY <1>1, <2>5, TxsAssumption
    DEF AcquireSome, MutexInv, LockSetInv, LoopInv, TypeOK
  <2>6. CASE StartRollback(t)
    BY <1>1, <2>6, TxsAssumption
    DEF StartRollback, MutexInv, LockSetInv, LoopInv, TypeOK
  <2>7. CASE AcquireNone(t)
    BY <1>1, <2>7, TxsAssumption
    DEF AcquireNone, MutexInv, LockSetInv, LoopInv, TypeOK
  <2>8. CASE StartRelease(t)
    BY <1>1, <2>8, TxsAssumption
    DEF StartRelease, MutexInv, LockSetInv, LoopInv, TypeOK
  <2>9. CASE EndRelease(t)
    BY <1>1, <2>9, TxsAssumption
    DEF EndRelease, MutexInv, LockSetInv, LoopInv, TypeOK
  <2>10. CASE DropUnready(t)
    BY <1>1, <2>10, TxsAssumption
    DEF DropUnready, MutexInv, LockSetInv, LoopInv, TypeOK, Requests
  <2>11. QED
    BY <1>3, <2>1, <2>2, <2>3, <2>4, <2>5, <2>6, <2>7, <2>8, <2>9, <2>10
    DEF TxStep
<1>4. CASE UNCHANGED vars
  BY <1>1, <1>4 DEF vars, MutexInv, LockSetInv, LoopInv, Requests
<1>5. QED
  BY <1>1, <1>2, <1>3, <1>4 DEF Next

(* A step that moves no lock keeps the counters and the exclusion.         *)
LEMMA TableUnmoved ==
  ASSUME TableIsHolders, Exclusion, UNCHANGED <<readers, writer, shared, excl>>
  PROVE  TableIsHolders' /\ Exclusion'
BY DEF TableIsHolders, Exclusion

(* GrantOne keeps the counters equal to the holders, and gives a column    *)
(* away only when nobody conflicts.                                        *)
LEMMA GrantOneTable ==
  ASSUME IInv, NEW t \in Txs, NEW col \in Columns, GrantOne(t, col)
  PROVE  TableIsHolders' /\ Exclusion'
<1> USE DEF IInv
<1>1. col \notin shared[t] \cup excl[t]
  BY DEF GrantOne, LoopInv
<1>2. col \notin writer /\ \A u \in Txs : col \notin excl[u]
  BY DEF GrantOne, Grantable, TableIsHolders
<1>3. CASE IsExclusive(access[t], col)
  <2>1. readers[col] = 0
    BY <1>3 DEF GrantOne, Grantable
  <2>2. \A u \in Txs : col \notin shared[u]
    BY <2>1, HoldersFinite DEF TableIsHolders, Holders
  <2>3. /\ writer' = writer \cup {col}
        /\ excl' = [excl EXCEPT ![t] = @ \cup {col}]
        /\ readers' = readers /\ shared' = shared
    BY <1>3 DEF GrantOne
  <2>4. TableIsHolders'
    BY <2>3 DEF TableIsHolders, TypeOK
  <2>5. Exclusion'
    BY <1>2, <2>2, <2>3 DEF Exclusion, TypeOK
  <2>6. QED BY <2>4, <2>5
<1>4. CASE ~IsExclusive(access[t], col)
  <2>1. /\ readers' = [readers EXCEPT ![col] = @ + 1]
        /\ shared' = [shared EXCEPT ![t] = @ \cup {col}]
        /\ writer' = writer /\ excl' = excl
    BY <1>4 DEF GrantOne
  <2>2. Exclusion'
    BY <1>2, <2>1 DEF Exclusion, TypeOK
  <2>3. t \notin Holders(col) /\ Holders(col)' = Holders(col) \cup {t}
    BY <1>1, <2>1 DEF Holders, TypeOK
  <2>4. readers'[col] = Cardinality(Holders(col)')
    BY <2>1, <2>3, HolderJoins DEF TableIsHolders, Holders, TypeOK
  <2>5. ASSUME NEW d \in Columns, d # col
        PROVE  readers'[d] = readers[d] /\ Holders(d)' = Holders(d)
    BY <2>1, <2>5 DEF Holders, TypeOK
  <2>6. \A d \in Columns : readers'[d] = Cardinality(Holders(d)')
    BY <2>4, <2>5 DEF TableIsHolders, Holders
  <2>7. TableIsHolders'
    BY <2>1, <2>6 DEF TableIsHolders, Holders
  <2>8. QED BY <2>2, <2>7
<1>5. QED BY <1>3, <1>4

(* release_one gives back exactly what was granted: the counter it lowers  *)
(* is positive, so the saturation never acts.                              *)
LEMMA ReleaseOneTable ==
  ASSUME IInv, NEW t \in Txs, NEW col \in Columns, ReleaseOne(t, col)
  PROVE  TableIsHolders' /\ Exclusion'
<1> USE DEF IInv
<1>1. col \in shared[t] \cup excl[t] /\ shared[t] \cap excl[t] = {}
  BY DEF ReleaseOne, LockSetInv
<1>2. CASE col \in excl[t]
  <2>1. /\ writer' = writer \ {col}
        /\ excl' = [excl EXCEPT ![t] = @ \ {col}]
        /\ readers' = readers /\ shared' = shared
    BY <1>2 DEF ReleaseOne
  <2>2. \A u \in Txs : u # t => col \notin excl[u]
    BY <1>2 DEF Exclusion
  <2>3. TableIsHolders'
    BY <2>1, <2>2 DEF TableIsHolders, TypeOK
  <2>4. Exclusion'
    BY <2>1 DEF Exclusion, TypeOK
  <2>5. QED BY <2>3, <2>4
<1>3. CASE col \notin excl[t]
  <2>1. /\ readers' = [readers EXCEPT ![col] = IF @ > 0 THEN @ - 1 ELSE 0]
        /\ shared' = [shared EXCEPT ![t] = @ \ {col}]
        /\ writer' = writer /\ excl' = excl
    BY <1>3 DEF ReleaseOne
  <2>2. t \in Holders(col) /\ Holders(col)' = Holders(col) \ {t}
    BY <1>1, <1>3, <2>1 DEF Holders, TypeOK
  <2>3. readers'[col] = Cardinality(Holders(col)')
    <3>1. readers[col] = Cardinality(Holders(col))
      BY DEF TableIsHolders, Holders
    <3>2. /\ Cardinality(Holders(col)') = Cardinality(Holders(col)) - 1
          /\ Cardinality(Holders(col)) > 0
      BY <2>2, HolderLeaves
    <3>3. readers'[col] = IF readers[col] > 0 THEN readers[col] - 1 ELSE 0
      BY <2>1 DEF TypeOK
    <3>4. QED BY <3>1, <3>2, <3>3
  <2>4. ASSUME NEW d \in Columns, d # col
        PROVE  readers'[d] = readers[d] /\ Holders(d)' = Holders(d)
    BY <2>1, <2>4 DEF Holders, TypeOK
  <2>5. \A d \in Columns : readers'[d] = Cardinality(Holders(d)')
    BY <2>3, <2>4 DEF TableIsHolders, Holders
  <2>6. TableIsHolders'
    BY <2>1, <2>5 DEF TableIsHolders, Holders
  <2>7. Exclusion'
    BY <2>1 DEF Exclusion, TypeOK
  <2>8. QED BY <2>6, <2>7
<1>4. QED BY <1>2, <1>3

(* Every action keeps the counters and the exclusion.                      *)
LEMMA TableStep == IInv /\ [Next]_vars => TableIsHolders' /\ Exclusion'
<1>1. SUFFICES ASSUME IInv, [Next]_vars PROVE TableIsHolders' /\ Exclusion'
  OBVIOUS
<1>2. TableIsHolders /\ Exclusion
  BY <1>1 DEF IInv
<1>3. ASSUME NEW t \in Txs, NEW col \in Columns, GrantOne(t, col)
      PROVE  TableIsHolders' /\ Exclusion'
  BY <1>1, <1>3, GrantOneTable
<1>4. ASSUME NEW t \in Txs, NEW col \in Columns, ReleaseOne(t, col)
      PROVE  TableIsHolders' /\ Exclusion'
  BY <1>1, <1>4, ReleaseOneTable
<1>5. ASSUME ~ \E t \in Txs, col \in Columns : GrantOne(t, col) \/ ReleaseOne(t, col)
      PROVE  UNCHANGED <<readers, writer, shared, excl>>
  BY <1>1, <1>5
  DEF Next, TxStep, NewArchetype, Begin, RefuseOne, AcquireSome, StartRollback,
      AcquireNone, StartRelease, EndRelease, DropUnready, vars
<1>6. QED
  BY <1>2, <1>3, <1>4, <1>5, TableUnmoved

(* RefuseOne points at a ready transaction that holds the refused column.  *)
LEMMA RefuseOneBlocked ==
  ASSUME IInv, NEW t \in Txs, NEW col \in Columns, RefuseOne(t, col)
  PROVE  \E u \in Txs \ {t} : BlockedBy(t, u)
<1> USE DEF IInv
<1>1. /\ mutex = t /\ \A u \in Txs \ {t} : phase[u] \notin InMutex
      /\ col \in Requests(access[t]) /\ col \notin shared[t] \cup excl[t]
  BY DEF RefuseOne, MutexInv, LoopInv, InMutex
<1>2. \E u \in Txs : \/ col \in excl[u]
                     \/ col \in shared[u] /\ col[2] \in access[t].writes
  <2>1. CASE col \in writer
    BY <2>1 DEF TableIsHolders
  <2>2. CASE col \notin writer
    <3>1. IsExclusive(access[t], col) /\ readers[col] # 0
      BY <2>2 DEF RefuseOne, Grantable
    <3>2. Holders(col) # {}
      BY <3>1, HoldersFinite DEF TableIsHolders, Holders
    <3>3. QED BY <3>1, <3>2 DEF Holders, IsExclusive
  <2>3. QED BY <2>1, <2>2
<1>3. PICK u \in Txs : \/ col \in excl[u]
                       \/ col \in shared[u] /\ col[2] \in access[t].writes
  BY <1>2
<1>4. u # t
  BY <1>1, <1>3
<1>5. phase[u] = "locked"
  BY <1>1, <1>3, <1>4 DEF LockSetInv, TypeOK, Phases, InMutex
<1>6. QED BY <1>1, <1>3, <1>4, <1>5 DEF BlockedBy

(* The transaction in the way stays in the way until the failed acquire    *)
(* returns: releasing needs the mutex.                                     *)
LEMMA RefusalStep == IInv /\ [Next]_vars => RefusalInv'
<1>1. SUFFICES ASSUME IInv, [Next]_vars PROVE RefusalInv'
  OBVIOUS
<1> USE DEF IInv
<1>2. ASSUME NEW a \in Archetypes, NEW cs \in SUBSET Components,
             NewArchetype(a, cs)
      PROVE  RefusalInv'
  BY <1>1, <1>2 DEF NewArchetype, RefusalInv
<1>3. ASSUME NEW t \in Txs, TxStep(t) PROVE RefusalInv'
  <2> DEFINE Stuck(u) == phase[u] \in {"failing", "rollback"}
  <2>1. ASSUME NEW col \in Columns, RefuseOne(t, col) PROVE RefusalInv'
    <3>1. PICK u \in Txs \ {t} : BlockedBy(t, u)
      BY <1>1, <2>1, RefuseOneBlocked
    <3>2. BlockedBy(t, u)'
      BY <1>1, <2>1, <3>1 DEF BlockedBy, RefuseOne, Requests, TypeOK
    <3>3. \A v \in Txs : v # t => ~Stuck(v)'
      BY <1>1, <2>1 DEF RefuseOne, MutexInv, InMutex, TypeOK
    <3>4. QED BY <3>2, <3>3 DEF RefusalInv
  <2>2. ASSUME NEW col \in Columns, GrantOne(t, col) \/ ReleaseOne(t, col)
        PROVE  RefusalInv'
    <3>1. phase' = phase /\ access' = access /\ columns' = columns
      BY <2>2 DEF GrantOne, ReleaseOne
    <3>2. phase[t] # "locked"
      BY <2>2 DEF GrantOne, ReleaseOne
    <3>3. \A u \in Txs : u # t => shared'[u] = shared[u] /\ excl'[u] = excl[u]
      BY <1>1, <2>2 DEF GrantOne, ReleaseOne, TypeOK
    <3>4. ASSUME NEW v \in Txs, NEW u \in Txs, BlockedBy(v, u)
          PROVE  BlockedBy(v, u)'
      BY <3>1, <3>2, <3>3, <3>4 DEF BlockedBy, Requests
    <3>5. QED BY <1>1, <3>1, <3>4 DEF RefusalInv
  <2>3. CASE StartRollback(t)
    <3>1. access' = access /\ columns' = columns /\ shared' = shared /\ excl' = excl
      BY <2>3 DEF StartRollback
    <3>2. \A u \in Txs : phase[u] = "locked" => phase'[u] = "locked"
      BY <1>1, <2>3 DEF StartRollback, TypeOK
    <3>3. ASSUME NEW v \in Txs, NEW u \in Txs, BlockedBy(v, u)
          PROVE  BlockedBy(v, u)'
      BY <3>1, <3>2, <3>3 DEF BlockedBy, Requests
    <3>4. \A v \in Txs : Stuck(v)' => Stuck(v)
      BY <1>1, <2>3 DEF StartRollback, TypeOK
    <3>5. QED BY <1>1, <3>3, <3>4 DEF RefusalInv
  <2>4. CASE \/ \E acc \in AccessSets : Begin(t, acc)
             \/ StartRelease(t)
    <3>1. \A v \in Txs : ~Stuck(v)'
      BY <1>1, <2>4, TxsAssumption
      DEF Begin, StartRelease, MutexInv, InMutex, TypeOK
    <3>2. QED BY <3>1 DEF RefusalInv
  <2>5. CASE AcquireSome(t) \/ AcquireNone(t) \/ EndRelease(t)
    <3>1. \A v \in Txs : ~Stuck(v)'
      BY <1>1, <2>5, TxsAssumption
      DEF AcquireSome, AcquireNone, EndRelease, MutexInv, InMutex, TypeOK
    <3>2. QED BY <3>1 DEF RefusalInv
  <2>6. CASE DropUnready(t)
    <3>1. columns' = columns /\ shared' = shared /\ excl' = excl
      BY <2>6 DEF DropUnready
    <3>2. \A u \in Txs : phase[u] = "locked" => phase'[u] = "locked"
      BY <1>1, <2>6 DEF DropUnready, TypeOK
    <3>3. \A v \in Txs : Stuck(v)' => Stuck(v) /\ access'[v] = access[v]
      BY <1>1, <2>6 DEF DropUnready, TypeOK
    <3>4. ASSUME NEW v \in Txs, NEW u \in Txs, Stuck(v)', BlockedBy(v, u)
          PROVE  BlockedBy(v, u)'
      BY <3>1, <3>2, <3>3, <3>4 DEF BlockedBy, Requests
    <3>5. QED BY <1>1, <3>3, <3>4 DEF RefusalInv
  <2>7. QED
    BY <1>3, <2>1, <2>2, <2>3, <2>4, <2>5, <2>6 DEF TxStep
<1>4. CASE UNCHANGED vars
  BY <1>1, <1>4 DEF vars, RefusalInv, BlockedBy, Requests
<1>5. QED
  BY <1>1, <1>2, <1>3, <1>4 DEF Next

LEMMA StepIInv == IInv /\ [Next]_vars => IInv'
BY TypeStep, ControlStep, TableStep, RefusalStep DEF IInv

-----------------------------------------------------------------------------
(* IInv is an invariant of the lock table.                                 *)
THEOREM Inductive == Spec => []IInv
BY InitIInv, StepIInv, PTL DEF Spec

(* The variables of the lock table keep their types: in particular no      *)
(* counter of readers ever goes below zero.                                *)
THEOREM TypeCorrect == Spec => []TypeOK
<1>1. IInv => TypeOK
  BY DEF IInv
<1>2. QED BY <1>1, Inductive, PTL

(* readers and writer are exactly the holders in every state, so no abort, *)
(* rollback or commit leaks a lock or gives one back twice.                *)
THEOREM CountersAreHolders == Spec => []TableIsHolders
<1>1. IInv => TableIsHolders
  BY DEF IInv
<1>2. QED BY <1>1, Inductive, PTL

(* Read-write exclusion of the columns, for any number of transactions.    *)
THEOREM ReadWriteExclusion == Spec => []Exclusion
<1>1. IInv => Exclusion
  BY DEF IInv
<1>2. QED BY <1>1, Inductive, PTL

-----------------------------------------------------------------------------
(* AcquireSome is the atomic grant: what was collected column by column is *)
(* the whole request, and no ready transaction conflicts with it.          *)
LEMMA GrantRefines ==
  ASSUME IInv, NEW t \in Txs, AcquireSome(t)
  PROVE  Abs!AbsAcquire(t)
<1> USE DEF IInv
<1> DEFINE sh == Abs!Shared(access[t])
           ex == Abs!Exclusive(access[t])
<1>1. phase[t] = "acquiring" /\ todo = {} /\ phase' = [phase EXCEPT ![t] = "locked"]
      /\ UNCHANGED <<columns, access, shared, excl>>
  BY DEF AcquireSome
<1>2. shared[t] = sh /\ excl[t] = ex
  BY <1>1 DEF LoopInv, Requests, Abs!Shared, Abs!Exclusive, TypeOK, Accesses
<1>3. ~Abs!Contended(access[t])
  <2>1. SUFFICES ASSUME NEW u \in Txs, phase[u] = "locked"
                 PROVE  /\ excl[u] \cap (sh \cup ex) = {}
                        /\ shared[u] \cap ex = {}
    BY <2>1 DEF Abs!Contended, Granted
  <2>2. u # t
    BY <1>1, <2>1
  <2>3. QED BY <1>2, <2>2 DEF Exclusion
<1>4. Granted(shared)' = [Granted(shared) EXCEPT ![t] = sh]
  BY <1>1, <1>2 DEF Granted, TypeOK
<1>5. Granted(excl)' = [Granted(excl) EXCEPT ![t] = ex]
  BY <1>1, <1>2 DEF Granted, TypeOK
<1>6. AbsStatus' = [AbsStatus EXCEPT ![t] = "locked"] /\ AbsStatus[t] = "asking"
  BY <1>1 DEF AbsStatus, TypeOK, Phases
<1>7. AbsWant' = AbsWant /\ AbsWant[t] = access[t]
  BY <1>1 DEF AbsWant, AcquireSome, TypeOK
<1>8. QED BY <1>1, <1>3, <1>4, <1>5, <1>6, <1>7 DEF Abs!AbsAcquire

(* AcquireNone is the atomic refusal: a ready transaction is in the way.   *)
LEMMA RefusalRefines ==
  ASSUME IInv, NEW t \in Txs, AcquireNone(t)
  PROVE  Abs!AbsDeny(t)
<1> USE DEF IInv
<1>1. phase[t] = "rollback" /\ phase' = [phase EXCEPT ![t] = "unready"]
      /\ UNCHANGED <<columns, access, shared, excl>>
  BY DEF AcquireNone
<1>2. PICK u \in Txs : BlockedBy(t, u)
  BY <1>1 DEF RefusalInv
<1>3. Abs!Contended(access[t])
  <2>1. PICK col \in Requests(access[t]) :
               \/ col \in excl[u]
               \/ col \in shared[u] /\ col[2] \in access[t].writes
    BY <1>2 DEF BlockedBy
  <2>2. Granted(excl)[u] = excl[u] /\ Granted(shared)[u] = shared[u]
    BY <1>2 DEF BlockedBy, Granted
  <2>3. col \in Abs!Shared(access[t])
          \cup Abs!Exclusive(access[t])
    BY <2>1 DEF Requests, Abs!Shared, Abs!Exclusive
  <2>4. col[2] \in access[t].writes => col \in Abs!Exclusive(access[t])
    BY <2>1 DEF Requests, Abs!Exclusive
  <2>5. QED BY <2>1, <2>2, <2>3, <2>4 DEF Abs!Contended
<1>4. Granted(shared)' = Granted(shared) /\ Granted(excl)' = Granted(excl)
  BY <1>1 DEF Granted, TypeOK
<1>5. AbsStatus' = [AbsStatus EXCEPT ![t] = "unready"] /\ AbsStatus[t] = "asking"
  BY <1>1 DEF AbsStatus, TypeOK, Phases
<1>6. AbsWant' = AbsWant /\ AbsWant[t] = access[t]
  BY <1>1 DEF AbsWant, AcquireNone, TypeOK
<1>7. QED BY <1>1, <1>3, <1>4, <1>5, <1>6 DEF Abs!AbsDeny

(* Every step of the table is a step of the atomic one or invisible there. *)
LEMMA StepRefines ==
  IInv /\ IInv' /\ [Next]_vars => [Abs!AbsNext]_(Abs!absVars)
<1>1. SUFFICES ASSUME IInv, IInv', [Next]_vars
               PROVE  [Abs!AbsNext]_(Abs!absVars)
  OBVIOUS
<1> USE DEF IInv
<1>2. ASSUME NEW a \in Archetypes, NEW cs \in SUBSET Components,
             NewArchetype(a, cs)
      PROVE  Abs!AbsNewArchetype
  BY <1>1, <1>2 DEF NewArchetype, Abs!AbsNewArchetype, AbsStatus, AbsWant, Granted
<1>3. ASSUME NEW t \in Txs, TxStep(t) PROVE [Abs!AbsNext]_(Abs!absVars)
  <2>1. CASE AcquireSome(t)
    BY <1>1, <2>1, GrantRefines DEF Abs!AbsNext
  <2>2. CASE AcquireNone(t)
    BY <1>1, <2>2, RefusalRefines DEF Abs!AbsNext
  <2>3. CASE StartRelease(t)
    <3>1. Granted(shared)' = [Granted(shared) EXCEPT ![t] = {}]
      BY <1>1, <2>3 DEF StartRelease, Granted, TypeOK
    <3>2. Granted(excl)' = [Granted(excl) EXCEPT ![t] = {}]
      BY <1>1, <2>3 DEF StartRelease, Granted, TypeOK
    <3>3. AbsStatus' = [AbsStatus EXCEPT ![t] = "idle"] /\ AbsStatus[t] = "locked"
      BY <1>1, <2>3 DEF StartRelease, AbsStatus, TypeOK
    <3>4. AbsWant' = [AbsWant EXCEPT ![t] = NoAccess]
      BY <1>1, <2>3 DEF StartRelease, AbsWant, TypeOK
    <3>5. QED
      BY <2>3, <3>1, <3>2, <3>3, <3>4 DEF StartRelease, Abs!AbsRelease, Abs!AbsNext
  <2>4. CASE DropUnready(t)
    <3>1. Granted(shared)' = Granted(shared) /\ Granted(excl)' = Granted(excl)
      BY <1>1, <2>4 DEF DropUnready, Granted, TypeOK
    <3>2. AbsStatus' = [AbsStatus EXCEPT ![t] = "idle"] /\ AbsStatus[t] = "unready"
      BY <1>1, <2>4 DEF DropUnready, AbsStatus, TypeOK
    <3>3. AbsWant' = [AbsWant EXCEPT ![t] = NoAccess]
      BY <1>1, <2>4 DEF DropUnready, AbsWant, TypeOK
    <3>4. QED
      BY <2>4, <3>1, <3>2, <3>3 DEF DropUnready, Abs!AbsGiveUp, Abs!AbsNext
  <2>5. ASSUME NEW acc \in AccessSets, Begin(t, acc)
        PROVE  Abs!AbsAsk(t)
    <3>1. Granted(shared)' = Granted(shared) /\ Granted(excl)' = Granted(excl)
      BY <1>1, <2>5 DEF Begin, Granted, TypeOK
    <3>2. AbsStatus' = [AbsStatus EXCEPT ![t] = "asking"] /\ AbsStatus[t] = "idle"
      BY <1>1, <2>5 DEF Begin, AbsStatus, TypeOK
    <3>3. AbsWant' = [AbsWant EXCEPT ![t] = acc]
      BY <1>1, <2>5 DEF Begin, AbsWant, TypeOK
    <3>4. QED BY <2>5, <3>1, <3>2, <3>3 DEF Begin, Abs!AbsAsk
  <2>6. CASE (\E col \in Columns : RefuseOne(t, col)) \/ StartRollback(t)
    <3>1. UNCHANGED <<columns, access, shared, excl>>
      BY <2>6 DEF RefuseOne, StartRollback
    <3>2. /\ \A u \in Txs : u # t => phase'[u] = phase[u]
          /\ phase[t] \in {"acquiring", "failing"}
          /\ phase'[t] \in {"failing", "rollback"}
      BY <1>1, <2>6 DEF RefuseOne, StartRollback, TypeOK
    <3>3. AbsStatus' = AbsStatus /\ AbsWant' = AbsWant
      BY <3>1, <3>2 DEF AbsStatus, AbsWant
    <3>4. Granted(shared)' = Granted(shared) /\ Granted(excl)' = Granted(excl)
      BY <3>1, <3>2 DEF Granted
    <3>5. QED BY <3>1, <3>3, <3>4 DEF Abs!absVars
  <2>7. CASE EndRelease(t)
    <3>1. UNCHANGED <<columns, shared, excl>>
      BY <2>7 DEF EndRelease
    <3>2. /\ \A u \in Txs : u # t => phase'[u] = phase[u] /\ access'[u] = access[u]
          /\ phase[t] = "releasing" /\ phase'[t] = "idle" /\ access'[t] = NoAccess
      BY <1>1, <2>7 DEF EndRelease, TypeOK
    <3>3. AbsStatus' = AbsStatus /\ AbsWant' = AbsWant
      BY <3>1, <3>2 DEF AbsStatus, AbsWant
    <3>4. Granted(shared)' = Granted(shared) /\ Granted(excl)' = Granted(excl)
      BY <3>1, <3>2 DEF Granted
    <3>5. QED BY <3>1, <3>3, <3>4 DEF Abs!absVars
  <2>8. ASSUME NEW col \in Columns, GrantOne(t, col) \/ ReleaseOne(t, col)
        PROVE  [Abs!AbsNext]_(Abs!absVars)
    <3>1. phase' = phase /\ columns' = columns /\ access' = access /\ phase[t] # "locked"
      BY <2>8 DEF GrantOne, ReleaseOne
    <3>2. \A u \in Txs : u # t => shared'[u] = shared[u] /\ excl'[u] = excl[u]
      BY <1>1, <2>8 DEF GrantOne, ReleaseOne, TypeOK
    <3>3. UNCHANGED Abs!absVars
      BY <3>1, <3>2 DEF Abs!absVars, AbsStatus, AbsWant, Granted
    <3>4. QED BY <3>3
  <2>9. QED
    BY <1>3, <2>1, <2>2, <2>3, <2>4, <2>5, <2>6, <2>7, <2>8 DEF TxStep, Abs!AbsNext
<1>4. CASE UNCHANGED vars
  BY <1>4 DEF vars, Abs!absVars, AbsStatus, AbsWant, Granted
<1>5. QED
  BY <1>1, <1>2, <1>3, <1>4 DEF Next, Abs!AbsNext

(* The lock table walked column by column under its mutex implements the   *)
(* atomic all-or-nothing table of ColumnLocks.                             *)
THEOREM Refinement == Spec => ImplementsColumnLocks
<1>1. Init => Abs!AbsInit
  BY DEF Init, Abs!AbsInit, AbsStatus, AbsWant, Granted
<1>2. QED
  BY <1>1, Inductive, StepRefines, PTL
  DEF Spec, ImplementsColumnLocks, Abs!AbsSpec
=============================================================================

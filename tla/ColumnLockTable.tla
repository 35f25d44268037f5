--------------------------- MODULE ColumnLockTable ---------------------------
(***************************************************************************)
(* The cooperative column lock table of the Pessimistic strategy           *)
(* (crates/minkowski/src/lock_table.rs) and its three callers in           *)
(* transaction.rs: Pessimistic::begin, Pessimistic::try_commit and the     *)
(* abort of a dropped Tx.                                                  *)
(*                                                                         *)
(* Tx is Send, so begin, commit and drop reach the table from several      *)
(* threads; the table is behind a Mutex, which `mutex' is.  Between        *)
(* locking and unlocking it the table is walked one column at a time, as   *)
(* the loops of acquire and release do.                                    *)
(***************************************************************************)
EXTENDS Naturals, FiniteSets

CONSTANTS
  Txs,         \* transaction handles
  Archetypes,  \* archetype ids the world may create
  Components,  \* component ids
  AccessSets,  \* the Access arguments the program's transactions use
  NoTx         \* the mutex is free

ASSUME TxsAssumption == IsFiniteSet(Txs) /\ NoTx \notin Txs

Accesses == [reads : SUBSET Components, writes : SUBSET Components]
NoAccess == [reads |-> {}, writes |-> {}]

ASSUME AccessAssumption == AccessSets \subseteq Accesses

VARIABLES
  columns,  \* columns of the archetypes created so far: world.archetypes
  readers,  \* readers[col]: the counter of ColumnLock
  writer,   \* the columns whose ColumnLock has writer = true
  mutex,    \* the transaction inside acquire or release, or NoTx
  phase,    \* phase[t]: where t is in its life, see Phases
  access,   \* access[t]: the Access t's begin was called with
  shared,   \* shared[t]: the entries (col, Shared) of `acquired', later `held'
  excl,     \* excl[t]: the entries (col, Exclusive)
  todo      \* the entries the running loop has still to visit

vars == <<columns, readers, writer, mutex, phase, access, shared, excl, todo>>

Columns == Archetypes \X Components

(* idle: no Tx.  acquiring, failing: in acquire's loop, `failed' false or   *)
(* true.  rollback: undoing a failed acquire.  locked: a Tx with           *)
(* Some(ColumnLockSet).  unready: a Tx with None.  releasing: in release.  *)
Phases == {"idle", "acquiring", "failing", "rollback", "locked", "unready",
           "releasing"}
InMutex == {"acquiring", "failing", "rollback", "releasing"}

TypeOK ==
  /\ columns \in SUBSET Columns
  /\ readers \in [Columns -> Nat]
  /\ writer \in SUBSET Columns
  /\ mutex \in Txs \cup {NoTx}
  /\ phase \in [Txs -> Phases]
  /\ access \in [Txs -> Accesses]
  /\ shared \in [Txs -> SUBSET Columns]
  /\ excl \in [Txs -> SUBSET Columns]
  /\ todo \in SUBSET Columns

Init ==
  /\ columns = {}
  /\ readers = [col \in Columns |-> 0]
  /\ writer = {}
  /\ mutex = NoTx
  /\ phase = [t \in Txs |-> "idle"]
  /\ access = [t \in Txs |-> NoAccess]
  /\ shared = [t \in Txs |-> {}]
  /\ excl = [t \in Txs |-> {}]
  /\ todo = {}

(***************************************************************************)
(* The request list: one entry per existing column of a component in       *)
(* either set.  dedup_by merges the two entries of a component in both     *)
(* sets and keeps Exclusive.  The order the list is sorted in is immaterial *)
(* under the mutex and is left open.                                       *)
(***************************************************************************)
Requests(acc) == {col \in columns : col[2] \in acc.reads \cup acc.writes}
(* Mutant: dedup_by keeps the Shared entry instead of upgrading it.         *)
IsExclusiveNoUpgrade(acc, col) == col[2] \in acc.writes \ acc.reads

IsExclusive(acc, col) == col[2] \in acc.writes

(* World::insert and friends append an archetype.  They need &mut World,   *)
(* which begin also takes: no archetype appears while acquire runs.        *)
NewArchetype(a, cs) ==
  /\ \A t \in Txs : phase[t] \notin {"acquiring", "failing", "rollback"}
  /\ \A col \in columns : col[1] # a
  /\ columns' = columns \cup ({a} \X cs)
  /\ UNCHANGED <<readers, writer, mutex, phase, access, shared, excl, todo>>

Begin(t, acc) ==
  /\ phase[t] = "idle"
  /\ mutex = NoTx
  /\ mutex' = t
  /\ phase' = [phase EXCEPT ![t] = "acquiring"]
  /\ access' = [access EXCEPT ![t] = acc]
  /\ todo' = Requests(acc)
  /\ UNCHANGED <<columns, readers, writer, shared, excl>>

(* Mutant: a writer does not wait for readers.                             *)
GrantableIgnoringReaders(t, col) == col \notin writer

(* The test of acquire's loop.                                             *)
Grantable(t, col) ==
  IF IsExclusive(access[t], col)
  THEN col \notin writer /\ readers[col] = 0
  ELSE col \notin writer

(* One granted entry of the loop.  The loop keeps trying after a failure.  *)
GrantOne(t, col) ==
  /\ phase[t] \in {"acquiring", "failing"}
  /\ col \in todo
  /\ Grantable(t, col)
  /\ IF IsExclusive(access[t], col)
     THEN /\ writer' = writer \cup {col}
          /\ excl' = [excl EXCEPT ![t] = @ \cup {col}]
          /\ UNCHANGED <<readers, shared>>
     ELSE /\ readers' = [readers EXCEPT ![col] = @ + 1]
          /\ shared' = [shared EXCEPT ![t] = @ \cup {col}]
          /\ UNCHANGED <<writer, excl>>
  /\ todo' = todo \ {col}
  /\ UNCHANGED <<columns, mutex, phase, access>>

(* One contended entry of the loop: failed = true.                         *)
RefuseOne(t, col) ==
  /\ phase[t] \in {"acquiring", "failing"}
  /\ col \in todo
  /\ ~Grantable(t, col)
  /\ phase' = [phase EXCEPT ![t] = "failing"]
  /\ todo' = todo \ {col}
  /\ UNCHANGED <<columns, readers, writer, mutex, access, shared, excl>>

(* acquire returns Some(held).                                             *)
AcquireSome(t) ==
  /\ phase[t] = "acquiring"
  /\ todo = {}
  /\ phase' = [phase EXCEPT ![t] = "locked"]
  /\ mutex' = NoTx
  /\ UNCHANGED <<columns, readers, writer, access, shared, excl, todo>>

(* Mutant: the rollback forgets the exclusive entries of `acquired'.       *)
StartRollbackSharedOnly(t) ==
  /\ phase[t] = "failing"
  /\ todo = {}
  /\ phase' = [phase EXCEPT ![t] = "rollback"]
  /\ todo' = shared[t]
  /\ UNCHANGED <<columns, readers, writer, mutex, access, shared, excl>>

(* acquire saw a contended lock: walk `acquired' and give everything back. *)
StartRollback(t) ==
  /\ phase[t] = "failing"
  /\ todo = {}
  /\ phase' = [phase EXCEPT ![t] = "rollback"]
  /\ todo' = shared[t] \cup excl[t]
  /\ UNCHANGED <<columns, readers, writer, mutex, access, shared, excl>>

(* Mutant: every entry is released as Shared, and without saturation.      *)
ReleaseOneAsShared(t, col) ==
  /\ phase[t] \in {"rollback", "releasing"}
  /\ col \in todo
  /\ readers' = [readers EXCEPT ![col] = @ - 1]
  /\ shared' = [shared EXCEPT ![t] = @ \ {col}]
  /\ todo' = todo \ {col}
  /\ UNCHANGED <<columns, writer, mutex, phase, access, excl>>

(* Mutant: the lock set is dropped without touching the table's flags.     *)
ReleaseOneKeepsWriter(t, col) ==
  /\ phase[t] \in {"rollback", "releasing"}
  /\ col \in todo
  /\ readers' = [readers EXCEPT ![col] = IF @ > 0 THEN @ - 1 ELSE 0]
  /\ shared' = [shared EXCEPT ![t] = @ \ {col}]
  /\ excl' = [excl EXCEPT ![t] = @ \ {col}]
  /\ todo' = todo \ {col}
  /\ UNCHANGED <<columns, writer, mutex, phase, access>>

(* release_one: saturating decrement, or clear the flag.                   *)
ReleaseOne(t, col) ==
  /\ phase[t] \in {"rollback", "releasing"}
  /\ col \in todo
  /\ IF col \in excl[t]
     THEN /\ writer' = writer \ {col}
          /\ excl' = [excl EXCEPT ![t] = @ \ {col}]
          /\ UNCHANGED <<readers, shared>>
     ELSE /\ readers' = [readers EXCEPT ![col] = IF @ > 0 THEN @ - 1 ELSE 0]
          /\ shared' = [shared EXCEPT ![t] = @ \ {col}]
          /\ UNCHANGED <<writer, excl>>
  /\ todo' = todo \ {col}
  /\ UNCHANGED <<columns, mutex, phase, access>>

(* acquire returns None: the Tx is not ready.                              *)
AcquireNone(t) ==
  /\ phase[t] = "rollback"
  /\ todo = {}
  /\ phase' = [phase EXCEPT ![t] = "unready"]
  /\ mutex' = NoTx
  /\ UNCHANGED <<columns, readers, writer, access, shared, excl, todo>>

(* take_locks in try_commit, or abort when the Tx is dropped: both hand    *)
(* the lock set to release under the mutex.                                *)
StartRelease(t) ==
  /\ phase[t] = "locked"
  /\ mutex = NoTx
  /\ mutex' = t
  /\ phase' = [phase EXCEPT ![t] = "releasing"]
  /\ todo' = shared[t] \cup excl[t]
  /\ UNCHANGED <<columns, readers, writer, access, shared, excl>>

EndRelease(t) ==
  /\ phase[t] = "releasing"
  /\ todo = {}
  /\ phase' = [phase EXCEPT ![t] = "idle"]
  /\ mutex' = NoTx
  /\ access' = [access EXCEPT ![t] = NoAccess]
  /\ UNCHANGED <<columns, readers, writer, shared, excl, todo>>

(* An unready Tx is dropped: abort finds no lock set to release.           *)
DropUnready(t) ==
  /\ phase[t] = "unready"
  /\ phase' = [phase EXCEPT ![t] = "idle"]
  /\ access' = [access EXCEPT ![t] = NoAccess]
  /\ UNCHANGED <<columns, readers, writer, mutex, shared, excl, todo>>

TxStep(t) ==
  \/ \E acc \in AccessSets : Begin(t, acc)
  \/ \E col \in Columns : GrantOne(t, col) \/ RefuseOne(t, col) \/ ReleaseOne(t, col)
  \/ AcquireSome(t)
  \/ StartRollback(t)
  \/ AcquireNone(t)
  \/ StartRelease(t)
  \/ EndRelease(t)
  \/ DropUnready(t)

Next ==
  \/ \E a \in Archetypes, cs \in SUBSET Components : NewArchetype(a, cs)
  \/ \E t \in Txs : TxStep(t)

Spec == Init /\ [][Next]_vars

-----------------------------------------------------------------------------
(* The counters are exactly the holders: readers counts the transactions    *)
(* that hold the column shared and writer is set while one holds it         *)
(* exclusively, through every step of a half-finished acquire, rollback or  *)
(* release.  A leaked or doubly released lock breaks it.                    *)
TableIsHolders ==
  \A col \in Columns :
    /\ readers[col] = Cardinality({t \in Txs : col \in shared[t]})
    /\ col \in writer <=> \E t \in Txs : col \in excl[t]

(* Read-write exclusion of the lock table: a column held exclusively by one *)
(* transaction is held by no other, in either mode.                         *)
Exclusion ==
  \A t, u \in Txs :
    t # u => excl[t] \cap (excl[u] \cup shared[u]) = {}

-----------------------------------------------------------------------------
(* The abstract table: a transaction inside acquire still has nothing, one  *)
(* inside release has already given everything up.                          *)
AbsStatus ==
  [t \in Txs |->
     CASE phase[t] \in {"locked", "unready"} -> phase[t]
       [] phase[t] \in {"acquiring", "failing", "rollback"} -> "asking"
       [] OTHER -> "idle"]
AbsWant ==
  [t \in Txs |-> IF phase[t] = "releasing" THEN NoAccess ELSE access[t]]
Granted(lockset) ==
  [t \in Txs |-> IF phase[t] = "locked" THEN lockset[t] ELSE {}]

Abs == INSTANCE ColumnLocks WITH
         status <- AbsStatus,
         want <- AbsWant,
         sharedOf <- Granted(shared),
         exclOf <- Granted(excl)

(* The table walked column by column under its mutex implements the atomic *)
(* one: begin grants the whole request or nothing, refuses only a request  *)
(* that really conflicts with a ready transaction, and release frees all.  *)
ImplementsColumnLocks == Abs!AbsSpec
=============================================================================

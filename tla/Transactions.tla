---------------------------- MODULE Transactions ----------------------------
(***************************************************************************)
(* Transactions of both strategies over one World (transaction.rs), with   *)
(* the World operations that run between their steps (world.rs) and the    *)
(* application of a committed changeset (changeset.rs).                    *)
(*                                                                         *)
(* Every call that mutates the World takes &mut World, so the steps of     *)
(* different transactions interleave but do not overlap: several Tx begun  *)
(* through the building-block API, a nested transact, or a closure that    *)
(* uses the &mut World it is given.  try_commit, mark_committed, drop and  *)
(* apply follow each other under one &mut World borrow in transact_inner,  *)
(* and are one action here.                                                *)
(*                                                                         *)
(* Change ticks are only ever compared: is_newer_than on the tick of a     *)
(* column and the tick a snapshot recorded, and every mark uses a tick     *)
(* newer than all before it.  So a snapshot entry is kept as the column    *)
(* and whether the column has been marked since.                           *)
(*                                                                         *)
(* An archetype is the set of its components.  Rows, pools, sparse sets    *)
(* and the entity allocator are left out; a handle never comes back after  *)
(* a despawn, which EntityAllocator shows of the generations.  The lock    *)
(* table is the atomic one of ColumnLocks, which ColumnLockTable           *)
(* implements.                                                             *)
(***************************************************************************)
EXTENDS Naturals, Sequences, FiniteSets

CONSTANTS
  Txs,          \* transaction handles
  Entities, Components,
  Values,       \* values of a component
  NoValue,      \* the value of a component an entity does not have
  AccessSets,   \* records [reads, writes, despawns]
  Bundles,      \* the sets of components the program spawns and inserts
  Removable,    \* the components the program removes
  First,        \* an archetype that exists at the start, without entities
  MaxBuffered,  \* bound on the mutations of a changeset
  MaxReads      \* bound on the reads a transaction remembers

Archetypes == SUBSET Components
Columns == {col \in Archetypes \X Components : col[2] \in col[1]}
NoAccess == [reads |-> {}, writes |-> {}, despawns |-> FALSE]

ASSUME TransactionsAssumption ==
  /\ First \in Archetypes
  /\ Bundles \subseteq Archetypes /\ Removable \subseteq Components
  /\ NoValue \notin Values
  /\ AccessSets \subseteq [reads : SUBSET Components, writes : SUBSET Components,
                           despawns : BOOLEAN]

VARIABLES
  world,     \* the World, see Worlds
  phase,     \* phase[t]: "idle", "active", or "unready" (no locks)
  strategy,  \* strategy[t]: which strategy began the active t, or "none"
  access,    \* access[t]: the Access t was begun with
  archsAt,   \* archsAt[t]: the archetypes below t's archetype_count
  newer,     \* newer[t]: entries of t's read_ticks whose column was marked since
  buffer,    \* buffer[t]: the mutations of t's EnumChangeSet
  panicked,  \* the expect() on apply has failed
  reads,     \* history: what t has read, <<entity, component, value>>
  unseen     \* history: entities moved since t began, behind t's snapshot

vars == <<world, phase, strategy, access, archsAt, newer, buffer, panicked, reads,
          unseen>>

(* life: "unborn", "reserved" (allocated by a Tx, not placed), "alive" or   *)
(* "dead".  archs: the archetypes created so far.  marks: the columns the   *)
(* running call has marked with its tick, none between calls.              *)
Worlds == [life : [Entities -> {"unborn", "reserved", "alive", "dead"}],
           place : [Entities -> Archetypes],
           val : [Entities -> [Components -> Values \cup {NoValue}]],
           archs : SUBSET Archetypes,
           marks : {{}}]
Mutations == [op : {"spawn", "insert", "remove", "despawn"}, e : Entities,
              cs : SUBSET Components, v : Values \cup {NoValue}]

TypeOK ==
  /\ world \in Worlds
  /\ phase \in [Txs -> {"idle", "active", "unready"}]
  /\ strategy \in [Txs -> {"none", "optimistic", "pessimistic"}]
  /\ access \in [Txs -> AccessSets \cup {NoAccess}]
  /\ archsAt \in [Txs -> SUBSET Archetypes]
  /\ newer \in [Txs -> SUBSET Columns]
  /\ buffer \in [Txs -> Seq(Mutations)]
  /\ reads \in [Txs -> SUBSET (Entities \X Components \X Values)]
  /\ unseen \in [Txs -> SUBSET Entities]
  /\ panicked \in BOOLEAN
  /\ \A e \in Entities : world.life[e] # "alive" => world.place[e] = {}
  /\ \A e \in Entities, c \in Components :
       (world.val[e][c] # NoValue) <=> (c \in world.place[e])

Init ==
  /\ world = [life |-> [e \in Entities |-> "unborn"],
              place |-> [e \in Entities |-> {}],
              val |-> [e \in Entities |-> [c \in Components |-> NoValue]],
              archs |-> {First},
              marks |-> {}]
  /\ phase = [t \in Txs |-> "idle"]
  /\ strategy = [t \in Txs |-> "none"]
  /\ access = [t \in Txs |-> NoAccess]
  /\ archsAt = [t \in Txs |-> {}]
  /\ newer = [t \in Txs |-> {}]
  /\ buffer = [t \in Txs |-> <<>>]
  /\ panicked = FALSE
  /\ reads = [t \in Txs |-> {}]
  /\ unseen = [t \in Txs |-> {}]

-----------------------------------------------------------------------------
(* The World.  Operators take a world and return the world after the call. *)

(* next_tick, and mark_changed on every column in cols.                    *)
Mark(w, cols) == [w EXCEPT !.marks = @ \cup cols]

(* The row of e moves to archetype a, created on demand (get_or_create);   *)
(* components e does not have yet get the value v, lost ones are dropped.  *)
MoveTo(w, e, a, v) ==
  [life |-> [w.life EXCEPT ![e] = "alive"],
   place |-> [w.place EXCEPT ![e] = a],
   val |-> [w.val EXCEPT ![e] = [c \in Components |->
              IF c \notin a THEN NoValue ELSE IF @[c] = NoValue THEN v ELSE @[c]]],
   archs |-> w.archs \cup {a},
   marks |-> w.marks]

SetValue(w, e, cs, v) ==
  [w EXCEPT !.val[e] = [c \in Components |-> IF c \in cs THEN v ELSE @[c]]]

ColumnsOf(a) == {col \in Columns : col[1] = a}

(* World::spawn after alloc, and Mutation::Spawn: every column of the      *)
(* target is marked.                                                       *)
SpawnAt(w, e, a, v) == Mark(MoveTo(w, e, a, v), ColumnsOf(a))

(* Mutant: an overwrite through a bundle or a changeset leaves the tick    *)
(* of the column alone, as replace_protected does by itself.               *)
InsertAtUnmarked(w, e, cs, v) ==
  SetValue(MoveTo(w, e, w.place[e] \cup cs, v), e, cs, v)

(* World::insert and Mutation::Insert: an overwrite in place marks the     *)
(* columns written, a migration marks every column of the target.          *)
InsertAt(w, e, cs, v) ==
  LET a == w.place[e] \cup cs
      moved == SetValue(MoveTo(w, e, a, v), e, cs, v)
  IN  IF cs \subseteq w.place[e]
      THEN Mark(moved, {a} \X cs)
      ELSE Mark(moved, ColumnsOf(a))

(* changeset_remove_raw: nothing happens without the component; otherwise  *)
(* a migration that marks the target.                                      *)
RemoveAt(w, e, c) ==
  LET a == w.place[e] \ {c}
  IN  IF c \in w.place[e] THEN Mark(MoveTo(w, e, a, NoValue), ColumnsOf(a)) ELSE w

(* World::despawn: the row is swap-removed, no tick is touched.            *)
DespawnAt(w, e) == [MoveTo(w, e, {}, NoValue) EXCEPT !.life[e] = "dead",
                                                     !.archs = w.archs]

(* Each entity t had allocated goes to the orphan queue.                   *)
Orphan(w, es) ==
  [w EXCEPT !.life = [e \in Entities |-> IF e \in es THEN "dead" ELSE w.life[e]]]

-----------------------------------------------------------------------------
(* EnumChangeSet::apply.                                                   *)

(* A mutation that names a dead or unplaced entity stops the loop.         *)
Applies(w, m) ==
  IF m.op = "spawn" THEN w.life[m.e] = "reserved" ELSE w.life[m.e] = "alive"

ApplyOne(w, m) ==
  CASE m.op = "spawn" -> SpawnAt(w, m.e, m.cs, m.v)
    [] m.op = "insert" -> InsertAt(w, m.e, m.cs, m.v)
    [] m.op = "remove" -> RemoveAt(w, m.e, CHOOSE c \in m.cs : TRUE)
    [] m.op = "despawn" -> DespawnAt(w, m.e)

ApplyNext(acc, m) ==
  IF acc.ok /\ Applies(acc.w, m) THEN [acc EXCEPT !.w = ApplyOne(acc.w, m)]
                                 ELSE [acc EXCEPT !.ok = FALSE]

(* One tick for the whole changeset; a failure keeps what came before it.  *)
ApplyRun(w, ms) ==
  LET run[n \in 0 .. Len(ms)] ==
        IF n = 0 THEN [w |-> w, ok |-> TRUE] ELSE ApplyNext(run[n - 1], ms[n])
  IN  run
ApplyAll(w, ms) == ApplyRun(w, ms)[Len(ms)]

-----------------------------------------------------------------------------
(* What a World that became w means for the running transactions other     *)
(* than those in ending.  A snapshot entry is newer than recorded when its *)
(* column was marked.  History: an entity placed in an archetype that t's  *)
(* begin did not see is outside of t's snapshot, and so are those in quiet. *)
Snapshotted(t) ==
  {col \in Columns : /\ strategy[t] = "optimistic" /\ col[1] \in archsAt[t]
                     /\ col[2] \in access[t].reads \cup access[t].writes}

Become(w, ending, quiet) ==
  /\ world' = [w EXCEPT !.marks = {}]
  /\ newer' = [t \in Txs |-> IF t \in ending THEN {}
                             ELSE newer[t] \cup (w.marks \cap Snapshotted(t))]
  /\ unseen' = [t \in Txs |->
       IF t \in ending \/ strategy[t] # "optimistic" THEN {}
       ELSE unseen[t] \cup quiet
            \cup {e \in Entities : /\ w.place[e] # world.place[e]
                                  /\ w.place[e] \notin archsAt[t]}]

Alive(e) == world.life[e] = "alive"

WorldStep(w, quiet) ==
  /\ ~panicked
  /\ Become(w, {}, quiet)
  /\ UNCHANGED <<phase, strategy, access, archsAt, buffer, panicked, reads>>

WorldSpawn(e, a, v) ==
  /\ world.life[e] = "unborn"
  /\ WorldStep(SpawnAt(world, e, a, v), {})

(* World::get_mut and a write through it.                                  *)
WorldGetMut(e, c, v) ==
  /\ Alive(e) /\ c \in world.place[e]
  /\ WorldStep(Mark(SetValue(world, e, {c}, v), {<<world.place[e], c>>}), {})

WorldInsert(e, cs, v) ==
  /\ Alive(e)
  /\ WorldStep(InsertAt(world, e, cs, v), {})

(* World::remove migrates without advancing the tick or marking a column.  *)
WorldRemove(e, c) ==
  /\ Alive(e) /\ c \in world.place[e]
  /\ WorldStep(MoveTo(world, e, world.place[e] \ {c}, NoValue), {e})

WorldDespawn(e) ==
  /\ Alive(e)
  /\ WorldStep(DespawnAt(world, e), {})

-----------------------------------------------------------------------------
(* Pessimistic locks: t holds what existed at its begin.                   *)

HeldExcl(t) == {col \in Columns : /\ strategy[t] = "pessimistic"
                                  /\ col[1] \in archsAt[t]
                                  /\ col[2] \in access[t].writes}
HeldShared(t) == {col \in Columns : /\ strategy[t] = "pessimistic"
                                    /\ col[1] \in archsAt[t]
                                    /\ col[2] \in access[t].reads \ access[t].writes}
Held(t) == HeldExcl(t) \cup HeldShared(t)

(* Mutant: a writer is not turned away by readers.                         *)
ContendedByWritersOnly(acc) ==
  \E u \in Txs : \E col \in HeldExcl(u) :
     col[2] \in acc.reads \cup acc.writes

Contended(acc) ==
  \E u \in Txs : \/ \E col \in HeldExcl(u) : col[2] \in acc.reads \cup acc.writes
                 \/ \E col \in HeldShared(u) : col[2] \in acc.writes

(* Mutant: a conflict is reported for the columns read, not for those      *)
(* written.                                                                *)
ValidatesReadsOnly(t) == \A col \in newer[t] : col[2] \notin access[t].reads

(* World::check_column_conflicts finds nothing.                            *)
Validates(t) == newer[t] = {}

-----------------------------------------------------------------------------
(* Transactions.                                                           *)

(* Optimistic::begin, and Pessimistic::begin when acquire returns Some.    *)
Begin(t, s, acc) ==
  /\ ~panicked /\ phase[t] = "idle"
  /\ s = "pessimistic" => ~Contended(acc)
  /\ phase' = [phase EXCEPT ![t] = "active"]
  /\ strategy' = [strategy EXCEPT ![t] = s]
  /\ access' = [access EXCEPT ![t] = acc]
  /\ archsAt' = [archsAt EXCEPT ![t] = world.archs]
  /\ UNCHANGED <<world, newer, buffer, panicked, reads, unseen>>

(* acquire returned None: is_ready is false, the closure is skipped and    *)
(* the Tx dropped.                                                         *)
BeginUnready(t, acc) ==
  /\ ~panicked /\ phase[t] = "idle"
  /\ Contended(acc)
  /\ phase' = [phase EXCEPT ![t] = "unready"]
  /\ UNCHANGED <<world, strategy, access, archsAt, newer, buffer, panicked, reads, unseen>>

(* Tx::read, and what Tx::query yields for one row of an archetype below   *)
(* archetype_count.  Reading leaves the World and the Tx alone; what the   *)
(* Optimistic transactions read is remembered for their validation.        *)
Read(t, e, c) ==
  /\ strategy[t] = "optimistic" /\ phase[t] = "active" /\ ~panicked
  /\ c \in (access[t].reads \cup access[t].writes) \cap world.place[e]
  /\ Cardinality(reads[t]) < MaxReads
  /\ reads' = [reads EXCEPT ![t] = @ \cup {<<e, c, world.val[e][c]>>}]
  /\ UNCHANGED <<world, phase, strategy, access, archsAt, newer, buffer, panicked, unseen>>

Record(t, m) ==
  /\ phase[t] = "active" /\ ~panicked
  /\ Len(buffer[t]) < MaxBuffered
  /\ buffer' = [buffer EXCEPT ![t] = Append(@, m)]
  /\ UNCHANGED <<phase, strategy, access, archsAt, newer, panicked, reads, unseen>>

Buffered(t, op) == {buffer[t][i].e : i \in {j \in DOMAIN buffer[t] : buffer[t][j].op = op}}

(* Tx::allocated.                                                          *)
Allocated(t) == Buffered(t, "spawn")

(* The entities the closure works on: it does not use a handle that it has *)
(* itself despawned.                                                       *)
Known(t, e) == /\ Alive(e) \/ e \in Allocated(t)
               /\ e \notin Buffered(t, "despawn")

(* The Access is the contract of the closure: the reducer handles enforce  *)
(* it, Tx trusts it.                                                       *)
Write(t, e, c, v) ==
  /\ Known(t, e) /\ c \in access[t].writes
  /\ Record(t, [op |-> "insert", e |-> e, cs |-> {c}, v |-> v])
  /\ UNCHANGED world

Remove(t, e, c) ==
  /\ Known(t, e) /\ c \in access[t].writes
  /\ Record(t, [op |-> "remove", e |-> e, cs |-> {c}, v |-> NoValue])
  /\ UNCHANGED world

(* EntityMut::despawn, DynamicCtx::despawn.                                *)
Despawn(t, e) ==
  /\ Known(t, e) /\ access[t].despawns
  /\ Record(t, [op |-> "despawn", e |-> e, cs |-> {}, v |-> NoValue])
  /\ UNCHANGED world

(* Tx::spawn allocates the handle at once and buffers the components.      *)
Spawn(t, e, a, v) ==
  /\ world.life[e] = "unborn" /\ a \subseteq access[t].writes
  /\ Record(t, [op |-> "spawn", e |-> e, cs |-> a, v |-> v])
  /\ world' = [world EXCEPT !.life[e] = "reserved"]

(* The Tx is gone: locks and snapshot with it.                             *)
End(t) ==
  /\ phase' = [phase EXCEPT ![t] = "idle"]
  /\ strategy' = [strategy EXCEPT ![t] = "none"]
  /\ access' = [access EXCEPT ![t] = NoAccess]
  /\ archsAt' = [archsAt EXCEPT ![t] = {}]
  /\ buffer' = [buffer EXCEPT ![t] = <<>>]
  /\ reads' = [reads EXCEPT ![t] = {}]

(* try_commit returns Ok, and the caller applies.  A changeset that does   *)
(* not apply panics.                                                       *)
Commit(t) ==
  /\ phase[t] = "active" /\ ~panicked
  /\ strategy[t] = "optimistic" => Validates(t)
  /\ LET r == ApplyAll(world, buffer[t])
     IN  /\ Become(r.w, {t}, {})
         /\ panicked' = ~r.ok
  /\ End(t)

(* Dropped without mark_committed: a conflict at try_commit, an unready    *)
(* Tx, or a caller that lets go.                                           *)
Abort(t) ==
  /\ phase[t] # "idle" /\ ~panicked
  /\ Become(Orphan(world, Allocated(t)), {t}, {})
  /\ End(t)
  /\ UNCHANGED panicked

WorldNext ==
  \/ \E e \in Entities, a \in Bundles, v \in Values : WorldSpawn(e, a, v)
  \/ \E e \in Entities, c \in Components, v \in Values : WorldGetMut(e, c, v)
  \/ \E e \in Entities, cs \in Bundles, v \in Values : WorldInsert(e, cs, v)
  \/ \E e \in Entities, c \in Removable : WorldRemove(e, c)
  \/ \E e \in Entities : WorldDespawn(e)

TxNext(t) ==
  \/ \E s \in {"optimistic", "pessimistic"}, acc \in AccessSets : Begin(t, s, acc)
  \/ \E acc \in AccessSets : BeginUnready(t, acc)
  \/ \E e \in Entities, c \in Components : Read(t, e, c)
  \/ \E e \in Entities, c \in Components, v \in Values : Write(t, e, c, v)
  \/ \E e \in Entities, c \in Removable : Remove(t, e, c)
  \/ \E e \in Entities : Despawn(t, e)
  \/ \E e \in Entities, a \in Bundles, v \in Values : Spawn(t, e, a, v)
  \/ Commit(t)
  \/ Abort(t)

Next == WorldNext \/ \E t \in Txs : TxNext(t)

Spec == Init /\ [][Next]_vars

-----------------------------------------------------------------------------
(* Properties.                                                             *)

(* Optimistic validation: when try_commit would let t through, every value *)
(* t has read is still the one in the World, unless the entity lost the    *)
(* component, or moved behind t's snapshot: into an archetype created      *)
(* after t began (snapshot_column_ticks lists the archetypes of that       *)
(* moment) or by World::remove (which marks nothing).                      *)
ValidatedReadsAreCurrent ==
  \A t \in Txs :
    strategy[t] = "optimistic" /\ Validates(t) =>
      \A r \in reads[t] :
        LET e == r[1]  c == r[2]  v == r[3]
        IN  e \notin unseen[t] /\ c \in world.place[e] => world.val[e][c] = v

(* Pessimistic locks: when a transaction of the strategy ends, no entity   *)
(* that stays in the World loses or changes a component in a column        *)
(* another one has locked, as long as the archetype existed when the       *)
(* ending transaction began (acquire locks the archetypes of that moment). *)
LockedColumnsAreStable ==
  [][\A t, u \in Txs :
       t # u /\ strategy[t] = "pessimistic" /\ phase'[t] = "idle" =>
         \A e \in Entities, c \in Components :
           /\ <<world.place[e], c>> \in Held(u)
           /\ world.place[e] \in archsAt[t]
           /\ world'.life[e] = "alive"
           => c \in world'.place[e] /\ world'.val[e][c] = world.val[e][c]]_vars
=============================================================================

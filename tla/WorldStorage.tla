---------------------------- MODULE WorldStorage ----------------------------
(***************************************************************************)
(* The storage of a World as a value: archetypes with rows and one change  *)
(* tick a column, the table of entity locations, the generations and one   *)
(* sparse set.  Every operation of world.rs, changeset.rs and sparse.rs    *)
(* that changes the storage is an operator from a world to a world; the    *)
(* module ChangeDetection calls them.                                      *)
(*                                                                         *)
(* A handle is a slot with a generation.  Which free slot the allocator    *)
(* hands out, and how it keeps them, is the subject of EntityAllocator.    *)
(* Columns of one archetype grow and shrink together, so a row is a record *)
(* of its entity and its component values.                                 *)
(***************************************************************************)
EXTENDS Integers, FiniteSets, SequencesExt

CONSTANTS Slots,      \* entity indices
          Components, \* the components stored in archetypes
          None

EmptyWorld == [tick   |-> 0,
               gens   |-> [s \in Slots |-> 0],
               free   |-> Slots,
               loc    |-> [s \in Slots |-> None],
               archs  |-> << >>,
               pages  |-> [s \in Slots |-> None],
               dense  |-> << >>]

IsAlive(w, e) == w.gens[e.idx] = e.gen

IsPlaced(w, e) == w.loc[e.idx] # None

\* Alive and placed: the guard of every operation on an existing entity.
Located(w, e) == IsAlive(w, e) /\ IsPlaced(w, e)

ArchAt(w, e) == w.archs[w.loc[e.idx].arch]

Row(w, e) == ArchAt(w, e).rows[w.loc[e.idx].row]

NextTick(w) == [w EXCEPT !.tick = @ + 1]

\* Functions on components: one value, and what a write leaves of the old ones.
Just(c, v) == [x \in {c} |-> v]

Overlay(new, old) == [c \in DOMAIN new \cup DOMAIN old |->
                        IF c \in DOMAIN new THEN new[c] ELSE old[c]]

Only(f, S) == [c \in S |-> f[c]]

(***************************************************************************)
(* Archetypes.                                                             *)
(***************************************************************************)
Known(w, ids) == \E i \in DOMAIN w.archs : w.archs[i].ids = ids

ArchOf(w, ids) == CHOOSE i \in DOMAIN w.archs : w.archs[i].ids = ids

GetOrCreate(w, ids) ==
  IF Known(w, ids) THEN w
  ELSE [w EXCEPT !.archs = Append(@, [ids |-> ids, rows |-> << >>,
                                      ticks |-> [c \in ids |-> 0]])]

\* The columns cols of archetype a, or of the archetypes A, marked changed.
MarkedArch(arch, cols, tick) ==
  [arch EXCEPT !.ticks = [c \in DOMAIN arch.ticks |->
                            IF c \in cols THEN tick ELSE arch.ticks[c]]]

Marked(w, a, cols, tick) == [w EXCEPT !.archs[a] = MarkedArch(@, cols, tick)]

MarkedAll(w, A, cols, tick) ==
  [w EXCEPT !.archs = [a \in DOMAIN w.archs |->
     IF a \in A THEN MarkedArch(w.archs[a], cols, tick) ELSE w.archs[a]]]

\* The rows, and the entities, of some archetypes.
RowsOf(w, A) == UNION {Range(w.archs[a].rows) : a \in A}

EntitiesOf(w, A) == {x.ent : x \in RowsOf(w, A)}

\* A new last row, and the entity's location with it.
Pushed(w, a, e, vals) ==
  [w EXCEPT !.archs[a].rows = Append(@, [ent |-> e, vals |-> vals]),
            !.loc[e.idx] = [arch |-> a, row |-> Len(w.archs[a].rows) + 1]]

SwapRemovedBlind(w, a, r) ==
  LET rows == w.archs[a].rows
  IN [w EXCEPT !.archs[a].rows = Front(ReplaceAt(rows, r, rows[Len(rows)]))]

\* The last row moves into the gap and its entity's location follows.
SwapRemoved(w, a, r) ==
  LET rows == w.archs[a].rows
      last == Len(rows)
      cut  == [w EXCEPT !.archs[a].rows = Front(ReplaceAt(rows, r, rows[last]))]
  IN IF r < last THEN [cut EXCEPT !.loc[rows[last].ent.idx] = [arch |-> a, row |-> r]]
                 ELSE cut

Overwritten(w, a, r, vals) ==
  [w EXCEPT !.archs[a].rows[r].vals = Overlay(vals, @)]

\* Component c of the rows of the entities E, set to v.
RewrittenRow(row, E, c, v) ==
  IF row.ent \in E THEN [row EXCEPT !.vals = Overlay(Just(c, v), @)] ELSE row

RewrittenArch(arch, E, c, v) ==
  [arch EXCEPT !.rows = [r \in DOMAIN arch.rows |-> RewrittenRow(arch.rows[r], E, c, v)]]

Rewritten(w, E, c, v) ==
  [w EXCEPT !.archs = [a \in DOMAIN w.archs |-> RewrittenArch(w.archs[a], E, c, v)]]

\* Moving a row between archetypes: pushed first, then cut from the source.
Migrated(w, e, vals) ==
  LET from   == w.loc[e.idx]
      grown  == GetOrCreate(w, DOMAIN vals)
  IN SwapRemoved(Pushed(grown, ArchOf(grown, DOMAIN vals), e, vals), from.arch, from.row)

(***************************************************************************)
(* The sparse set: pages map a slot to a position in the dense vectors;    *)
(* an entry counts only if the entity stored there is the one asked for.   *)
(***************************************************************************)
DenseIndex(w, e) ==
  LET d == w.pages[e.idx]
  IN IF d # None /\ d <= Len(w.dense) /\ w.dense[d].ent = e THEN d ELSE None

SparseInserted(w, e, v) ==
  IF DenseIndex(w, e) # None
  THEN [w EXCEPT !.dense = ReplaceAt(@, DenseIndex(w, e), [ent |-> e, val |-> v])]
  ELSE [w EXCEPT !.pages[e.idx] = Len(w.dense) + 1,
                 !.dense = Append(@, [ent |-> e, val |-> v])]

SparseRemoved(w, e) ==
  LET d    == DenseIndex(w, e)
      last == Len(w.dense)
      cut  == [w EXCEPT !.pages[e.idx] = None,
                        !.dense = Front(ReplaceAt(@, d, w.dense[last]))]
  IN IF d = None THEN w
     ELSE IF d = last THEN cut
     ELSE [cut EXCEPT !.pages[w.dense[last].ent.idx] = d]

(***************************************************************************)
(* Entities.                                                               *)
(***************************************************************************)
Allocated(w, s) == [w EXCEPT !.free = @ \ {s}]

Handle(w, s) == [idx |-> s, gen |-> w.gens[s]]

\* One tick a spawned entity, and every column of its archetype is marked.
Placed(w, e, vals, tick) ==
  LET grown == GetOrCreate(w, DOMAIN vals)
      a     == ArchOf(grown, DOMAIN vals)
  IN Marked(Pushed(grown, a, e, vals), a, DOMAIN vals, tick)

Spawned(w, s, vals) ==
  LET t == NextTick(w) IN Placed(Allocated(t, s), Handle(w, s), vals, t.tick)

\* The locations are cleared and the generations go up: the handles are dead.
DeallocAll(w, E) ==
  LET dead == {e.idx : e \in E}
  IN [w EXCEPT !.loc = [s \in Slots |-> IF s \in dead THEN None ELSE @[s]],
               !.gens = [s \in Slots |-> IF s \in dead THEN @[s] + 1 ELSE @[s]],
               !.free = @ \cup dead]

Dealloc(w, e) == DeallocAll(w, {e})

Despawned(w, e) ==
  LET at == w.loc[e.idx]
  IN Dealloc(SparseRemoved(SwapRemoved(w, at.arch, at.row), e), e)

\* Sparse values first, then the rows of each archetype from the last to the
\* first, then the handles.
RowOrder(w, E) ==
  CHOOSE s \in [1..Cardinality(E) -> E] :
    /\ IsInjective(s)
    /\ \A i, j \in DOMAIN s : i < j => w.loc[s[i].idx].row >= w.loc[s[j].idx].row

SparseCleaned(w, s) ==
  LET clean[n \in 0..Len(s)] == IF n = 0 THEN w ELSE SparseRemoved(clean[n - 1], s[n])
  IN clean

RowsCut(w, s) ==
  LET cut[n \in 0..Len(s)] ==
        IF n = 0 THEN w
        ELSE SwapRemoved(cut[n - 1], w.loc[s[n].idx].arch, w.loc[s[n].idx].row)
  IN cut

DespawnedBatch(w, E) ==
  LET order == RowOrder(w, E)
      clean == SparseCleaned(w, order)[Len(order)]
  IN DeallocAll(RowsCut(clean, order)[Len(order)], E)

(***************************************************************************)
(* Components.                                                             *)
(***************************************************************************)
\* The tick advances also when the entity has no such column.
GotMut(w, e, c, v) ==
  LET t  == NextTick(w)
      at == w.loc[e.idx]
  IN IF c \in ArchAt(w, e).ids
     THEN Marked(Overwritten(t, at.arch, at.row, Just(c, v)), at.arch, {c}, t.tick)
     ELSE t

InsertedMarkingBundle(w, e, vals) ==
  LET t   == NextTick(w)
      at  == w.loc[e.idx]
      all == Overlay(vals, Row(w, e).vals)
      m   == Migrated(t, e, all)
  IN IF DOMAIN vals \subseteq ArchAt(w, e).ids
     THEN Marked(Overwritten(t, at.arch, at.row, vals), at.arch, DOMAIN vals, t.tick)
     ELSE Marked(m, ArchOf(m, DOMAIN all), DOMAIN vals, t.tick)

\* World::insert: in place, or into the archetype with the added components,
\* all of whose columns are marked.
Inserted(w, e, vals) ==
  LET t   == NextTick(w)
      at  == w.loc[e.idx]
      all == Overlay(vals, Row(w, e).vals)
      m   == Migrated(t, e, all)
  IN IF DOMAIN vals \subseteq ArchAt(w, e).ids
     THEN Marked(Overwritten(t, at.arch, at.row, vals), at.arch, DOMAIN vals, t.tick)
     ELSE Marked(m, ArchOf(m, DOMAIN all), DOMAIN all, t.tick)

\* One tick for the batch; only the columns of rows that were found.
GotBatchMut(w, E, c, v) ==
  LET t     == NextTick(w)
      found == {e \in E : c \in ArchAt(w, e).ids}
  IN MarkedAll(Rewritten(t, found, c, v), {w.loc[e.idx].arch : e \in found}, {c}, t.tick)

\* query_table_mut: the table's archetype is made if need be and all its
\* columns are marked; the caller then writes through the iterator.
TableMut(w, ids, c, v) ==
  LET t    == NextTick(w)
      made == GetOrCreate(t, ids)
      a    == ArchOf(made, ids)
  IN Rewritten(Marked(made, a, ids, t.tick), EntitiesOf(made, {a}), c, v)

\* World::remove takes no tick and marks no column.
Removed(w, e, c) ==
  IF c \in ArchAt(w, e).ids
  THEN Migrated(w, e, Only(Row(w, e).vals, ArchAt(w, e).ids \ {c}))
  ELSE w

(***************************************************************************)
(* Reads: World::get through the location table, and the rows as an        *)
(* iteration over the archetypes yields them.                              *)
(***************************************************************************)
Lookup(w, e) == IF Located(w, e) THEN Row(w, e).vals ELSE << >>

SparseLookup(w, e) ==
  IF Located(w, e) /\ DenseIndex(w, e) # None THEN w.dense[DenseIndex(w, e)].val ELSE None

\* Archetypes with a component, and with its column newer than a tick.
Having(w, c) == {a \in DOMAIN w.archs : c \in w.archs[a].ids /\ w.archs[a].rows # << >>}

ChangedSince(w, c, tick) == {a \in Having(w, c) : w.archs[a].ticks[c] > tick}
=============================================================================

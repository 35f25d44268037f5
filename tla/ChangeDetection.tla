--------------------------- MODULE ChangeDetection ---------------------------
(***************************************************************************)
(* A World under direct calls and changesets, and four readers that look   *)
(* only at what changed:                                                   *)
(*                                                                         *)
(*   query   World::query::<(Changed<Key>, &Key)>, whose read tick is      *)
(*           committed by the next call, and only if the iterator was used *)
(*   writer  a QueryWriter reducer over (Changed<Key>, &mut Key), with a   *)
(*           read tick of its own, set after its changeset was applied     *)
(*   index   a BTreeIndex or HashIndex on Key, synchronized by             *)
(*           query_changed_since                                           *)
(*   plan    a MaterializedView over a plan with Changed<Key>, next to     *)
(*           other plans on the same world; plans share the index they     *)
(*           were registered with, so nobody can update it any more        *)
(*                                                                         *)
(* A call holds &mut World to its end, an iterator holds it while it       *)
(* lives: one call, with the iteration of its result, is one action.  A    *)
(* changeset touches the world only when it is applied; that it was filled *)
(* earlier shows in the handles it names, which may be dead by then.       *)
(*                                                                         *)
(* Readers share nothing but the world and its tick, and neither do the    *)
(* sparse set and the readers: a behaviour has one of them, its subject.   *)
(***************************************************************************)
EXTENDS QueryPlan

CONSTANTS Bundles,     \* what spawns and inserts carry: functions on component sets
          Linked,      \* the same for plans: bundles with references to entities
          Sparse,      \* the component kept in a sparse set
          SparseValues,
          Removable,   \* the components World::remove is called for
          Plans,       \* the builders of the plans that are executed
          Watched,     \* the builder of the view's plan: a scan with Changed<Key>
          Policies,    \* the debounce policies, in refresh calls (1: immediate)
          MaxCalls,    \* bound: operations in a behaviour of each subject
          MaxGen,      \* bound: generations of a slot
          MaxMutations \* bound: mutations in a changeset

ASSUME KeyIsStored == Key \in Components /\ Sparse \notin Components
ASSUME WorldAssumption ==
  /\ IsFiniteSet(Slots) /\ IsFiniteSet(Components)
  /\ {MaxGen, MaxMutations} \subseteq Nat /\ Removable \subseteq Components
  /\ None \notin Nat /\ None \notin [arch : Nat, row : Nat]
  /\ \A b \in Bundles : DOMAIN b \subseteq Components /\ b = [c \in DOMAIN b |-> b[c]]
  /\ \A b \in Linked : DOMAIN b \subseteq Components /\ b = [c \in DOMAIN b |-> b[c]]

\* The view under test shows every key its plan finds changed: further
\* components, predicates and joins would hide some, and are left to Plans.
ASSUME WatchedIsAScan ==
  /\ Watched.required \subseteq {Key} /\ Watched.changed = {Key}
  /\ Watched.preds = << >> /\ Watched.joins = << >> /\ Watched.er = << >>

VARIABLES subject,
          world,  \* the storage
          query,  \* the QueryCacheEntry of the query
          writer, \* the reducer's last_read_tick
          index,  \* the secondary index
          view,   \* the materialized view
          truth,  \* history: the components each placed entity was given
          unseen, \* history: entities whose Key changed since the subject looked
          covered, \* history: the last apply kept within its reservation
          calls

vars == <<subject, world, query, writer, index, view, truth, unseen, covered, calls>>

Subjects == {"query", "writer", "index", "sparse", "plan"}

Handles == [idx : Slots, gen : 0..MaxGen]

EmptyIndex == [tree |-> [v \in Values |-> {}], rev |-> << >>, sync |-> 0]

NewView(policy) == [last |-> 0, cached |-> << >>, populated |-> FALSE,
                    policy |-> policy, since |-> 0]

Init ==
  /\ subject \in Subjects
  /\ world = EmptyWorld
  /\ query = [last |-> 0, pending |-> None, iterated |-> FALSE]
  /\ writer = 0
  /\ index = EmptyIndex
  /\ \E n \in IF subject = "plan" THEN Policies ELSE {1} : view = NewView(n)
  /\ truth = << >>
  /\ unseen = {}
  /\ covered = TRUE
  /\ calls = 0

----------------------------------------------------------------------------
(***************************************************************************)
(* What the calls mean, on a plain map from entities to values.            *)
(***************************************************************************)
Dense(vals) == Only(vals, DOMAIN vals \cap Components)

Given(m, e, vals) ==
  Overlay(Just(e, IF e \in DOMAIN m THEN Overlay(vals, m[e]) ELSE vals), m)

Taken(m, e, c) == [m EXCEPT ![e] = Only(@, DOMAIN @ \ {c})]

Gone(m, E) == Only(m, DOMAIN m \ E)

\* A changeset means its mutations in order, up to the first that names an
\* entity that is not there (for a spawn: one that is).
MeantBy(s, x) ==
  IF s.failed \/ (x.op = "spawn") = (x.ent \in DOMAIN s.m) THEN [s EXCEPT !.failed = TRUE]
  ELSE CASE x.op \in {"spawn", "insert", "sparse_insert"} ->
                                   [s EXCEPT !.m = Given(@, x.ent, x.vals)]
         [] x.op \in {"remove", "sparse_remove"} ->
                                   [s EXCEPT !.m = Taken(@, x.ent, x.comp)]
         [] x.op = "despawn"    -> [s EXCEPT !.m = Gone(@, {x.ent})]

Meant(m, muts) ==
  LET meant[n \in 0..Len(muts)] ==
        IF n = 0 THEN [m |-> m, failed |-> FALSE] ELSE MeantBy(meant[n - 1], muts[n])
  IN meant

\* The entities whose Key is new or different in m.
Touched(m) ==
  {e \in DOMAIN m : /\ Key \in DOMAIN m[e]
                    /\ \/ e \notin DOMAIN truth
                       \/ Key \notin DOMAIN truth[e]
                       \/ truth[e][Key] # m[e][Key]}

\* The world becomes w, and m is what that should mean.
Becomes(w, m) ==
  /\ world' = w
  /\ truth' = m
  /\ unseen' = IF subject \in {"query", "writer", "plan"}
               THEN {e \in unseen \cup Touched(m) : e \in DOMAIN m /\ Key \in DOMAIN m[e]}
               ELSE {}
  /\ UNCHANGED <<subject, query, writer, index, view>>

----------------------------------------------------------------------------
(***************************************************************************)
(* Direct calls.                                                           *)
(***************************************************************************)
\* The handles a caller may name in a call on an existing entity: calls on
\* others return without effect.
Present == {e \in Handles : Located(world, e)}

Batches == {E \in SUBSET Present : Cardinality(E) > 1}

Carried == IF subject = "plan" THEN Linked ELSE Bundles

Mortal(E) == \A e \in E : e.gen < MaxGen

AllocEntity(s) == s \in world.free /\ Becomes(Allocated(world, s), truth)

Spawn(s, vals) ==
  /\ s \in world.free
  /\ Becomes(Spawned(world, s, vals), Given(truth, Handle(world, s), vals))

SpawnBatch(s, t, vals) ==
  /\ s # t
  /\ {s, t} \subseteq world.free
  /\ Becomes(Spawned(Spawned(world, s, vals), t, vals),
            Given(Given(truth, Handle(world, s), vals), Handle(world, t), vals))

Despawn(e) == Mortal({e}) /\ Becomes(Despawned(world, e), Gone(truth, {e}))

DespawnBatch(E) == Mortal(E) /\ Becomes(DespawnedBatch(world, E), Gone(truth, E))

GetMut(e, v) ==
  Becomes(GotMut(world, e, Key, v),
         IF Key \in DOMAIN truth[e] THEN Given(truth, e, Just(Key, v)) ELSE truth)

GetBatchMut(E, v) ==
  Becomes(GotBatchMut(world, E, Key, v),
          [e \in DOMAIN truth |-> IF e \in E /\ Key \in DOMAIN truth[e]
                                  THEN Overlay(Just(Key, v), truth[e]) ELSE truth[e]])

\* The tables that have the key.
Tables == {DOMAIN b : b \in {d \in Carried : Key \in DOMAIN d}}

QueryTableMut(ids, v) ==
  Becomes(TableMut(world, ids, Key, v),
          [e \in DOMAIN truth |-> IF DOMAIN Dense(truth[e]) = ids
                                  THEN Overlay(Just(Key, v), truth[e]) ELSE truth[e]])

Insert(e, vals) == Becomes(Inserted(world, e, vals), Given(truth, e, vals))

RemoveFrom(e, c) == Becomes(Removed(world, e, c), Taken(truth, e, c))

InsertSparse(e, v) ==
  /\ subject = "sparse"
  /\ Becomes(SparseInserted(world, e, v), Given(truth, e, Just(Sparse, v)))

----------------------------------------------------------------------------
(***************************************************************************)
(* Changesets.                                                             *)
(***************************************************************************)
\* The handles a changeset may name: those issued so far, dead ones
\* included.  Only an unplaced handle is spawned, and never after the same
\* changeset has despawned it; sparse values go to handles that have a row.
Issued == {e \in Handles : e.gen < world.gens[e.idx]
                             \/ (IsAlive(world, e) /\ e.idx \notin world.free)}

Unplaced == {e \in Issued : IsAlive(world, e) /\ ~ IsPlaced(world, e)}

Mutations ==
  LET On(op, E, S)  == {[op |-> op, ent |-> e, vals |-> v] : e \in E, v \in S}
      Off(op, E, S) == {[op |-> op, ent |-> e, comp |-> c] : e \in E, c \in S}
  IN UNION {On("spawn", Unplaced, Carried),
            On("insert", Issued, {b \in Carried : Cardinality(DOMAIN b) = 1}),
            Off("remove", Issued, Components),
            {[op |-> "despawn", ent |-> e] : e \in {f \in Issued : Mortal({f})}},
            IF subject # "sparse" THEN {}
            ELSE On("sparse_insert", Issued \ Unplaced, {Just(Sparse, v) : v \in SparseValues})
                   \cup Off("sparse_remove", Issued \ Unplaced, {Sparse})}

\* Longer changesets are left to the subjects index and sparse: the others see
\* of a changeset only the columns it marked.
Changesets ==
  {muts \in UNION {[1..n -> Mutations] :
                     n \in 1..(IF subject \in {"index", "sparse"} THEN MaxMutations ELSE 1)} :
     \A i, j \in DOMAIN muts :
       i < j /\ muts[i].op = "despawn" /\ muts[j].op = "spawn" => muts[i].ent # muts[j].ent}

\* The writes of consecutive inserts into one column, held back and then
\* made in one go.
Written(w, b) ==
  LET written[n \in 0..Len(b.entries)] ==
        IF n = 0 THEN w
        ELSE Overwritten(written[n - 1], b.arch, b.entries[n].row, Just(b.comp, b.entries[n].val))
  IN written

NoBatch == [arch |-> 0, comp |-> Key, entries |-> << >>]

Flushed(s, tick) ==
  LET b == s.batch
  IN IF b.entries = << >> THEN s
     ELSE [s EXCEPT !.w = Marked(Written(@, b)[Len(b.entries)], b.arch, {b.comp}, tick),
                    !.batch = NoBatch]

Fail(s) == [s EXCEPT !.failed = TRUE]

ApplyInsert(s, x, tick) ==
  LET at    == s.w.loc[x.ent.idx]
      comp  == CHOOSE c \in DOMAIN x.vals : TRUE
      entry == [row |-> at.row, val |-> x.vals[comp]]
      f     == Flushed(s, tick)
      new   == Overlay(x.vals, Row(f.w, x.ent).vals)
      moved == Migrated(f.w, x.ent, new)
  IN IF ~ Located(s.w, x.ent) THEN Fail(f)
     ELSE IF s.batch.entries # << >> /\ s.batch.arch = at.arch /\ s.batch.comp = comp
     THEN [s EXCEPT !.batch.entries = Append(@, entry)]
     ELSE IF comp \in ArchAt(s.w, x.ent).ids
     THEN [f EXCEPT !.batch = [arch |-> at.arch, comp |-> comp, entries |-> <<entry>>]]
     ELSE [f EXCEPT !.w = Marked(moved, ArchOf(moved, DOMAIN new), DOMAIN new, tick)]

ApplyRemove(s, x, tick) ==
  LET kept  == Only(Row(s.w, x.ent).vals, ArchAt(s.w, x.ent).ids \ {x.comp})
      moved == Migrated(s.w, x.ent, kept)
  IN IF ~ Located(s.w, x.ent) THEN Fail(s)
     ELSE IF x.comp \notin ArchAt(s.w, x.ent).ids THEN s
     ELSE [s EXCEPT !.w = Marked(moved, ArchOf(moved, DOMAIN kept), DOMAIN kept, tick)]

ApplyOther(s, x, tick) ==
  CASE x.op = "spawn"   -> IF IsPlaced(s.w, x.ent) THEN Fail(s)
                           ELSE [s EXCEPT !.w = Placed(@, x.ent, x.vals, tick)]
    [] x.op = "despawn" -> IF Located(s.w, x.ent) THEN [s EXCEPT !.w = Despawned(@, x.ent)]
                           ELSE Fail(s)
    [] x.op = "remove"  -> ApplyRemove(s, x, tick)
    [] x.op = "sparse_insert" -> IF IsAlive(s.w, x.ent)
                                 THEN [s EXCEPT !.w = SparseInserted(@, x.ent, x.vals[Sparse])]
                                 ELSE Fail(s)
    [] x.op = "sparse_remove" -> IF IsAlive(s.w, x.ent)
                                 THEN [s EXCEPT !.w = SparseRemoved(@, x.ent)]
                                 ELSE Fail(s)

\* The most rows every archetype, and the most entries the sparse set, has had.
MostHeld(s) ==
  [s EXCEPT !.rows = [a \in DOMAIN s.w.archs |->
                        Max({Len(s.w.archs[a].rows)} \cup IF a \in DOMAIN @ THEN {@[a]} ELSE {})],
            !.dense = Max({@, Len(s.w.dense)})]

Started(w) == [w |-> w, batch |-> NoBatch, failed |-> FALSE, rows |-> << >>, dense |-> 0]

\* One tick for the whole changeset; what precedes a failure stays.
ApplyOne(s, x, tick) ==
  IF s.failed THEN s
  ELSE MostHeld(IF x.op = "insert" THEN ApplyInsert(s, x, tick)
                ELSE ApplyOther(Flushed(s, tick), x, tick))

Applying(w, muts) ==
  LET t == NextTick(w)
      state[n \in 0..Len(muts)] ==
        IF n = 0 THEN MostHeld(Started(t)) ELSE ApplyOne(state[n - 1], muts[n], t.tick)
  IN state

Applied(w, muts) == Flushed(Applying(w, muts)[Len(muts)], NextTick(w).tick)

(***************************************************************************)
(* try_reserve walks the same mutations beforehand, on simulated locations *)
(* only, so that no step of apply can run out of memory.                   *)
(***************************************************************************)
Unreserved(w) == [w |-> w, growth |-> << >>, moved |-> << >>, stopped |-> FALSE,
                  open |-> FALSE, present |-> << >>, len |-> 0, peak |-> 0]

Locate(s, e) ==
  IF e \in DOMAIN s.moved THEN s.moved[e]
  ELSE IF Located(s.w, e) THEN s.w.loc[e.idx].arch ELSE None

SeemsAlive(s, e) == IF e \in DOMAIN s.moved THEN s.moved[e] # None ELSE IsAlive(s.w, e)

BumpedNet(growth, a, by) ==
  LET g == IF a \in DOMAIN growth THEN growth[a] ELSE [now |-> 0, peak |-> 0]
  IN Overlay(Just(a, [now |-> g.now + by, peak |-> g.now + by]), growth)

Bumped(growth, a, by) ==
  LET g == IF a \in DOMAIN growth THEN growth[a] ELSE [now |-> 0, peak |-> 0]
  IN Overlay(Just(a, [now |-> g.now + by, peak |-> Max({g.peak, g.now + by})]), growth)

Vacated(s, e, from) == [s EXCEPT !.growth = IF from = None THEN @ ELSE Bumped(@, from, -1),
                                   !.moved = Overlay(Just(e, None), @)]

Arrived(s, e, ids) ==
  LET w == GetOrCreate(s.w, ids)
      a == ArchOf(w, ids)
  IN [s EXCEPT !.w = w, !.growth = Bumped(@, a, 1), !.moved = Overlay(Just(e, a), @)]

\* Sparse entries: removals count only once an insertion of the component has
\* opened the simulation of its set.
Holds(s, e) == IF e \in DOMAIN s.present THEN s.present[e] ELSE DenseIndex(s.w, e) # None

SparseGrown(s, e) ==
  IF Holds(s, e) THEN [s EXCEPT !.open = TRUE]
  ELSE [s EXCEPT !.open = TRUE, !.present = Overlay(Just(e, TRUE), @),
                 !.len = @ + 1, !.peak = Max({@, s.len + 1})]

SparseShrunk(s, e) ==
  IF s.open /\ Holds(s, e)
  THEN [s EXCEPT !.present = Overlay(Just(e, FALSE), @), !.len = @ - 1] ELSE s

Reserve(s, x) ==
  LET at  == Locate(s, x.ent)
      ids == s.w.archs[at].ids
      stop == [s EXCEPT !.stopped = TRUE]
  IN IF s.stopped THEN s ELSE
     CASE x.op = "spawn" -> IF at # None THEN stop ELSE Arrived(s, x.ent, DOMAIN x.vals)
       [] x.op = "sparse_insert" -> IF SeemsAlive(s, x.ent) THEN SparseGrown(s, x.ent) ELSE stop
       [] x.op = "sparse_remove" -> IF SeemsAlive(s, x.ent) THEN SparseShrunk(s, x.ent) ELSE stop
       [] x.op \in {"insert", "remove", "despawn"} /\ at = None -> stop
       [] x.op = "despawn" /\ at # None -> Vacated(s, x.ent, at)
       [] x.op = "insert" /\ at # None -> IF DOMAIN x.vals \subseteq ids THEN s
                              ELSE Arrived(Vacated(s, x.ent, at), x.ent, ids \cup DOMAIN x.vals)
       [] x.op = "remove" /\ at # None -> IF x.comp \notin ids THEN s
                              ELSE Arrived(Vacated(s, x.ent, at), x.ent, ids \ {x.comp})

Reserving(w, muts) ==
  LET state[n \in 0..Len(muts)] ==
        IF n = 0 THEN Unreserved(w) ELSE Reserve(state[n - 1], muts[n])
  IN state

\* What the walk reserved against what apply went on to need.
Covers(w, plan, done) ==
  /\ plan.stopped = done.failed
  /\ Len(plan.w.archs) = Len(done.w.archs)
  /\ \A a \in DOMAIN done.rows :
       done.rows[a] - (IF a \in DOMAIN w.archs THEN Len(w.archs[a].rows) ELSE 0)
         = IF a \in DOMAIN plan.growth THEN plan.growth[a].peak ELSE 0
  /\ done.dense - Len(w.dense) <= plan.peak

Apply(muts) ==
  LET plan == Reserving(world, muts)[Len(muts)]
      done == Applied(world, muts)
  IN /\ covered' = Covers(world, plan, done)
     /\ Becomes(done.w, Meant(truth, muts)[Len(muts)].m)

----------------------------------------------------------------------------
(***************************************************************************)
(* Readers.                                                                *)
(***************************************************************************)
SweptTruth(E, v) == [e \in DOMAIN truth |->
                       IF e \in E THEN Overlay(Just(Key, v), truth[e]) ELSE truth[e]]

BaselineEager == IF query.pending # None THEN query.pending ELSE query.last

\* The read tick a query starts from: the deferred one if its iterator was
\* used.
Baseline == IF query.iterated THEN query.pending ELSE query.last

\* `use` is what the caller does with the iterator: drop it, walk it with
\* next (which marks only when there is an item) or by chunks.
Query(use) ==
  LET t   == NextTick(world)
      hit == ChangedSince(world, Key, Baseline)
      it  == use = "chunks" \/ (use = "next" /\ hit # {})
  IN /\ subject = "query"
     /\ world' = t
     /\ query' = [last |-> Baseline, pending |-> t.tick, iterated |-> it]
     /\ unseen' = IF use = "drop" THEN unseen ELSE unseen \ EntitiesOf(world, hit)
     /\ UNCHANGED <<subject, writer, index, view, truth>>

AdvanceQueryTick ==
  /\ subject = "query"
  /\ world' = NextTick(world)
  /\ query' = [last |-> world'.tick, pending |-> None, iterated |-> FALSE]
  /\ unseen' = {}
  /\ UNCHANGED <<subject, writer, index, view, truth>>

\* query::<&mut Key>: the columns are marked before the iterator is handed
\* out, and the read tick of that query is taken after.
QueryMut(v) ==
  LET t   == NextTick(world)
      hit == Having(world, Key)
  IN /\ hit # {}
     /\ Becomes(NextTick(Rewritten(MarkedAll(t, hit, {Key}, t.tick), EntitiesOf(t, hit), Key, v)),
               SweptTruth(EntitiesOf(world, hit), v))

\* ReducerRegistry::call: the rows found are rewritten through the fast
\* lane, then the reducer's own read tick moves past its writes.
CallWriter(v) ==
  LET t    == NextTick(world)
      hit  == ChangedSince(world, Key, writer)
      done == NextTick(Rewritten(MarkedAll(t, hit, {Key}, t.tick), EntitiesOf(t, hit), Key, v))
      m    == SweptTruth(EntitiesOf(world, hit), v)
  IN /\ subject = "writer"
     /\ world' = done
     /\ writer' = done.tick
     /\ truth' = m
     /\ unseen' = unseen \ EntitiesOf(world, hit)
     /\ UNCHANGED <<subject, query, index, view>>

\* remove_entity and insert_entity for every row found.
Reindexed(ix, w, A) ==
  LET found == [e \in EntitiesOf(w, A) |-> (CHOOSE r \in RowsOf(w, A) : r.ent = e).vals[Key]]
  IN [tree |-> [v \in Values |->
                  {e \in ix.tree[v] : ~ (e \in DOMAIN found /\ e \in DOMAIN ix.rev /\ ix.rev[e] = v)}
                    \cup {e \in DOMAIN found : found[e] = v}],
      rev  |-> Overlay(found, ix.rev),
      sync |-> w.tick]

UpdateIndex ==
  /\ subject = "index"
  /\ index' = Reindexed(index, world, ChangedSince(world, Key, index.sync))
  /\ UNCHANGED <<subject, world, query, writer, view, truth, unseen>>

RebuildIndex ==
  /\ subject = "index"
  /\ world' = NextTick(world)
  /\ index' = Reindexed(EmptyIndex, world', Having(world, Key))
  /\ UNCHANGED <<subject, query, writer, view, truth, unseen>>

----------------------------------------------------------------------------
(***************************************************************************)
(* Plans and the view.                                                     *)
(***************************************************************************)
\* A new index, a planner it is registered with and a view on a new plan: a
\* plan's lookups hold the index, which is not updated while they do.
Plan ==
  /\ subject = "plan"
  /\ world' = NextTick(world)
  /\ index' = Reindexed(EmptyIndex, world', Having(world, Key))
  /\ view' = NewView(view.policy)
  /\ UNCHANGED <<subject, query, writer, truth, unseen>>

\* A refresh executes the plan, unless the policy suppresses it; executing
\* moves the plan's read tick.
Refresh ==
  LET due == view.policy = 1 \/ ~ view.populated \/ view.since + 1 >= view.policy
      t   == NextTick(world)
      got == ExecuteCollect(world, index.tree, Built(Watched), view.last)
  IN /\ subject = "plan"
     /\ IF due
        THEN /\ world' = t
             /\ view' = [view EXCEPT !.last = t.tick, !.cached = got,
                                     !.populated = TRUE, !.since = 0]
             /\ unseen' = unseen \ Range(got)
        ELSE /\ view' = [view EXCEPT !.since = @ + 1]
             /\ UNCHANGED <<world, unseen>>
     /\ UNCHANGED <<subject, query, writer, index, truth>>

SetPolicy(n) ==
  /\ subject = "plan"
  /\ view' = [view EXCEPT !.policy = n, !.since = 0]
  /\ UNCHANGED <<subject, world, query, writer, index, truth, unseen>>

Invalidate ==
  /\ subject = "plan"
  /\ view' = [view EXCEPT !.populated = FALSE, !.since = 0]
  /\ UNCHANGED <<subject, world, query, writer, index, truth, unseen>>

----------------------------------------------------------------------------

Call ==
  \/ \E s \in Slots : AllocEntity(s) \/ \E vals \in Carried : Spawn(s, vals)
  \/ \E s, t \in Slots, vals \in Carried : SpawnBatch(s, t, vals)
  \/ \E e \in Present : Despawn(e)
  \/ \E E \in Batches : DespawnBatch(E) \/ \E v \in Values : GetBatchMut(E, v)
  \/ \E e \in Present, v \in Values : GetMut(e, v)
  \/ \E ids \in Tables, v \in Values : QueryTableMut(ids, v)
  \/ \E e \in Present, vals \in Carried : Insert(e, vals)
  \/ \E e \in Present, c \in Removable : RemoveFrom(e, c)
  \/ \E e \in Present, v \in SparseValues : InsertSparse(e, v)
  \/ \E use \in {"drop", "next", "chunks"} : Query(use)
  \/ AdvanceQueryTick
  \/ \E v \in Values : QueryMut(v) \/ CallWriter(v)
  \/ UpdateIndex
  \/ RebuildIndex
  \/ Plan
  \/ Refresh
  \/ \E n \in Policies : SetPolicy(n)
  \/ Invalidate

\* A changeset counts as many operations as it has mutations.
Next ==
  \/ calls < MaxCalls[subject] /\ calls' = calls + 1 /\ UNCHANGED covered /\ Call
  \/ \E muts \in Changesets :
       /\ calls + Len(muts) <= MaxCalls[subject]
       /\ calls' = calls + Len(muts)
       /\ Apply(muts)

Spec == Init /\ [][Next]_vars

----------------------------------------------------------------------------
(***************************************************************************)
(* Properties.                                                             *)
(***************************************************************************)
\* Whatever rows were swapped, moved or recycled on the way, World::get finds
\* for every handle exactly the components it was given, an iteration over
\* the rows yields every placed entity once and nothing else, and the sparse
\* set answers for live handles only (entity_locations, world.rs; pages and
\* dense vectors, sparse.rs).
StorageHoldsWhatWasGiven ==
  /\ \A a \in DOMAIN world.archs : \A r \in DOMAIN world.archs[a].rows :
       LET e == world.archs[a].rows[r].ent
       IN IsAlive(world, e) /\ world.loc[e.idx] = [arch |-> a, row |-> r]
  /\ \A e \in Handles :
       /\ e \in DOMAIN truth <=> Located(world, e)
       /\ e \in DOMAIN truth => Lookup(world, e) = Dense(truth[e])
       /\ SparseLookup(world, e) =
            IF e \in DOMAIN truth /\ Sparse \in DOMAIN truth[e] THEN truth[e][Sparse] ELSE None
  /\ \A d \in DOMAIN world.dense : DenseIndex(world, world.dense[d].ent) = d

\* The walk of try_reserve over a changeset stops exactly where apply stops
\* and reserves for every archetype the very peak of its rows, and for the
\* sparse set no less than it grows: apply cannot run out of memory half-way,
\* and no failing changeset is refused for growth it would not reach
\* ("Reserve every pool slot apply will need", changeset.rs).
ReservationCoversApply == covered

\* An entity whose Key changed since a reader last walked its result is in an
\* archetype that the reader's next call visits: no Changed<T> window closes
\* on a change it has not shown (the deferred read tick of World::query, and
\* the tick ReducerRegistry::call stores after the apply, and the one a plan
\* stores when a view's refresh executes it, and only then).
NoChangeIsMissed ==
  \A e \in unseen :
    ArchAt(world, e).ticks[Key] > CASE subject = "query"  -> Baseline
                                    [] subject = "writer" -> writer
                                    [] subject = "plan"   -> view.last

\* As long as the index is in step with the world, get_valid returns for
\* every value the entities that have it, all of them and no others: "After
\* `update`, all lookups (`get`, `range`, planner execution, reducer queries)
\* see consistent, fresh data" (SpatialIndex::update, index.rs).
IndexIsFresh ==
  subject = "index" /\ index.sync = world.tick =>
    \A v \in Values :
      {e \in index.tree[v] : Located(world, e) /\ Key \in ArchAt(world, e).ids}
        = {e \in DOMAIN truth : Key \in DOMAIN truth[e] /\ truth[e][Key] = v}

\* What a builder asks for, on the plain map: the entities whose components
\* and recent changes each joined query wants, that satisfy the predicates and
\* refer to an entity of every query they are inner-joined with.
Selects(e, required, changed) ==
  /\ required \subseteq DOMAIN truth[e]
  /\ \A c \in changed : c \in DOMAIN truth[e] /\ ArchAt(world, e).ticks[c] > view.last

Answer(q) ==
  {e \in DOMAIN truth :
     /\ Selects(e, q.required, q.changed)
     /\ \A p \in Range(q.preds) : p.comp \in DOMAIN truth[e] /\ truth[e][p.comp] \in p.vals
     /\ \A j \in Range(q.joins) : j.kind = "inner" => Selects(e, j.required, j.changed)
     /\ \A j \in Range(q.er) : j.kind = "inner" =>
          /\ j.comp \in DOMAIN truth[e]
          /\ \E t \in DOMAIN truth : t = truth[e][j.comp] /\ Selects(t, j.required, j.changed)}

\* Whichever way a plan is executed (direct column scan, filtered scan, index
\* lookup, joins), it yields entities of its answer only, each once, and all
\* of them but those rewritten after the index was built; and aggregating it
\* counts and feeds exactly what collecting it yields (execute_collect and
\* aggregate, exec.rs; join elimination and driver choice, builder.rs).
PlanAnswersScan ==
  subject = "plan" =>
    \A q \in Plans :
      LET plan  == Built(q)
          got   == ExecuteCollect(world, index.tree, plan, view.last)
          agg   == Aggregate(world, index.tree, plan, view.last, Key)
          keyed == SelectSeq(got, LAMBDA e : Key \in DOMAIN truth[e])
          since == {e \in DOMAIN truth : Key \in DOMAIN truth[e]
                                           /\ ArchAt(world, e).ticks[Key] > index.sync}
      IN /\ IsInjective(got)
         /\ Range(got) \subseteq Answer(q)
         /\ Answer(q) \subseteq Range(got) \cup IF plan.driver = None THEN {} ELSE since
         /\ agg.count = Len(got)
         /\ agg.fed = [i \in DOMAIN keyed |-> truth[keyed[i]][Key]]
=============================================================================

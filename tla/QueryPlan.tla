------------------------------ MODULE QueryPlan ------------------------------
(***************************************************************************)
(* The query planner as operators: what ScanBuilder::build makes of the    *)
(* calls on a builder, and what executing the plan yields on a world.      *)
(*                                                                         *)
(* The calls are a record: the components the query requires and those it  *)
(* wants changed, its predicates, its joins with other queries on the same *)
(* entity, its ER joins (through a component that holds a handle) and the  *)
(* kinds of index on Key that were registered with the planner.  A         *)
(* predicate is a component, a kind, the values that satisfy it and the    *)
(* rank of its selectivity.                                                *)
(*                                                                         *)
(* Costs decide which of several plans with one answer is used; only the   *)
(* choice of the driving index depends on anything the answer could show.  *)
(* Spatial indexes are supplied by the user of the crate and left out.     *)
(***************************************************************************)
EXTENDS WorldStorage

CONSTANTS Key,   \* the indexed component
          Values \* its values

----------------------------------------------------------------------------
(***************************************************************************)
(* Building.                                                               *)
(***************************************************************************)
\* One index per component type: a BTreeIndex displaces a HashIndex.
Descriptor(added) ==
  CASE "btree" \in added -> "btree" [] added = {"hash"} -> "hash" [] OTHER -> "none"

FindBestIndex(p, kind) ==
  /\ p.comp = Key
  /\ \/ kind = "btree" /\ p.kind \in {"eq", "range"}
     \/ kind = "hash" /\ p.kind = "eq"

\* The most selective predicate an index can answer, the earliest of equals.
Driver(q) ==
  LET able == {i \in DOMAIN q.preds : FindBestIndex(q.preds[i], Descriptor(q.indexes))}
      best == {i \in able : \A j \in able : q.preds[i].sel <= q.preds[j].sel}
  IN IF able = {} THEN None ELSE q.preds[Min(best)]

\* An inner join on the same entity asks for more components of it: it is
\* merged into the scan.
MergedJoinsAll(q) == Range(q.joins)

MergedJoins(q) == {j \in Range(q.joins) : j.kind = "inner"}

\* Every predicate stays a filter, the driving one included.  Plans whose
\* filters all work on columns, and that have no driver and no join left, are
\* executed by walking the archetypes directly.
Built(q) ==
  LET driver == Driver(q)
      joined == Range(q.joins) # MergedJoins(q) \/ q.er # << >>
  IN [required |-> q.required \cup UNION {j.required : j \in MergedJoins(q)},
      changed  |-> q.changed \cup UNION {j.changed : j \in MergedJoins(q)},
      filters  |-> q.preds,
      driver   |-> driver,
      joined   |-> joined,
      er       |-> q.er,
      direct   |-> /\ ~ joined
                   /\ driver = None
                   /\ \A i \in DOMAIN q.preds : q.preds[i].kind = "column"]

----------------------------------------------------------------------------
(***************************************************************************)
(* Executing.                                                              *)
(***************************************************************************)
PassesChangeFilter(arch, changed, tick) ==
  \A c \in changed : c \in arch.ids /\ arch.ticks[c] > tick

ArchMatches(arch, required, changed, tick) ==
  required \subseteq arch.ids /\ PassesChangeFilter(arch, changed, tick)

Component(w, e, c) == LET vals == Lookup(w, e) IN IF c \in DOMAIN vals THEN vals[c] ELSE None

FilterFn(w, e, p) == p.comp \in DOMAIN Lookup(w, e) /\ Lookup(w, e)[p.comp] \in p.vals

PassesFilters(w, e, filters) == \A i \in DOMAIN filters : FilterFn(w, e, filters[i])

\* The rows of the matching archetypes, in order, each with what its
\* archetype stores.
Walk(w, required, changed, tick) ==
  FlattenSeq([a \in DOMAIN w.archs |->
    LET arch == w.archs[a]
    IN IF ArchMatches(arch, required, changed, tick)
       THEN [r \in DOMAIN arch.rows |-> [ids |-> arch.ids, row |-> arch.rows[r]]] ELSE << >>])

EntitiesIn(rows) == [i \in DOMAIN rows |-> rows[i].row.ent]

CollectMatching(w, required, changed, tick) == EntitiesIn(Walk(w, required, changed, tick))

\* custom_column: a mask over the column; without the column nothing passes.
ColumnMask(x, p) == p.comp \in x.ids /\ x.row.vals[p.comp] \in p.vals

DirectScan(w, plan, tick) ==
  LET walk == Walk(w, plan.required, plan.changed, tick)
  IN EntitiesIn(IF plan.filters = << >> THEN walk
                ELSE SelectSeq(walk, LAMBDA x :
                       \A i \in DOMAIN plan.filters : ColumnMask(x, plan.filters[i])))

ScanWithFilters(w, plan, tick) ==
  SelectSeq(CollectMatching(w, plan.required, plan.changed, tick),
            LAMBDA e : PassesFilters(w, e, plan.filters))

\* Index lookups go to the index the plan holds, key by key.
Candidates(tree, p) ==
  LET keys == SetToSortSeq(p.vals, LAMBDA a, b : a < b)
  IN FlattenSeq([i \in DOMAIN keys |-> SetToSeq(tree[keys[i]])])

\* What the index names is checked against the world: alive, in an archetype
\* that matches, and with the value asked for.
Survives(w, plan, tick, e) ==
  /\ Located(w, e)
  /\ ArchMatches(ArchAt(w, e), plan.required, plan.changed, tick)
  /\ PassesFilters(w, e, plan.filters)

GatherIndexCandidates(w, tree, plan, tick) ==
  SelectSeq(Candidates(tree, plan.driver), LAMBDA e : Survives(w, plan, tick, e))

LeftCollector(w, tree, plan, tick) ==
  IF plan.driver = None THEN ScanWithFilters(w, plan, tick)
  ELSE GatherIndexCandidates(w, tree, plan, tick)

\* The left rows whose reference leads to a row of the other query; a left
\* join drops nothing.
ErStep(w, tick, s, step) ==
  LET targets == Range(CollectMatching(w, step.required, step.changed, tick))
  IN IF step.kind = "left" THEN s
     ELSE SelectSeq(s, LAMBDA e : Component(w, e, step.comp) \in targets)

\* run_join: the joins that are left are left joins, which keep the left side.
RunJoin(w, tree, plan, tick) ==
  FoldLeft(LAMBDA s, step : ErStep(w, tick, s, step), LeftCollector(w, tree, plan, tick), plan.er)

ExecuteCollect(w, tree, plan, tick) ==
  IF plan.direct THEN DirectScan(w, plan, tick)
  ELSE IF plan.joined THEN RunJoin(w, tree, plan, tick)
  ELSE LeftCollector(w, tree, plan, tick)

----------------------------------------------------------------------------
(***************************************************************************)
(* Aggregating component c: [count, fed], the rows counted and the values  *)
(* an accumulator was fed.                                                 *)
(***************************************************************************)
NothingFed == [count |-> 0, fed |-> << >>]

\* Rows of one archetype at a time, if its column could be bound.
FlushRowBatch(w, acc, a, rows, c) ==
  LET arch == w.archs[a]
  IN [count |-> acc.count + Len(rows),
      fed   |-> acc.fed \o (IF c \in arch.ids
                            THEN [i \in DOMAIN rows |-> arch.rows[rows[i]].vals[c]] ELSE << >>)]

\* Candidates of the index: a batch ends where the archetype changes.
GatherIndexBatched(w, tree, plan, tick, c) ==
  LET start == [acc |-> NothingFed, arch |-> None, rows |-> << >>]
      Flush(s) == IF s.rows = << >> THEN s.acc ELSE FlushRowBatch(w, s.acc, s.arch, s.rows, c)
      Take(s, e) ==
        LET at == w.loc[e.idx]
        IN IF ~ Survives(w, plan, tick, e) THEN s
           ELSE IF s.arch = at.arch THEN [s EXCEPT !.rows = Append(@, at.row)]
           ELSE [acc |-> Flush(s), arch |-> at.arch, rows |-> <<at.row>>]
  IN Flush(FoldLeft(Take, start, Candidates(tree, plan.driver)))

\* An unfiltered scan: every matching archetype as a whole.
AggregateArchetypes(w, plan, tick, c) ==
  LET Take(acc, a) ==
        IF ArchMatches(w.archs[a], plan.required, plan.changed, tick)
        THEN FlushRowBatch(w, acc, a, [r \in DOMAIN w.archs[a].rows |-> r], c) ELSE acc
  IN FoldLeft(Take, NothingFed, [a \in DOMAIN w.archs |-> a])

\* Plans with joins, and filtered scans: entity by entity.
AggregateEntities(w, s, c) ==
  LET has == SelectSeq(s, LAMBDA e : Component(w, e, c) # None)
  IN [count |-> Len(s), fed |-> [i \in DOMAIN has |-> Component(w, has[i], c)]]

Aggregate(w, tree, plan, tick, c) ==
  CASE plan.joined -> AggregateEntities(w, RunJoin(w, tree, plan, tick), c)
    [] ~ plan.joined /\ plan.driver # None -> GatherIndexBatched(w, tree, plan, tick, c)
    [] ~ plan.joined /\ plan.driver = None /\ plan.filters = << >> ->
         AggregateArchetypes(w, plan, tick, c)
    [] OTHER -> AggregateEntities(w, ScanWithFilters(w, plan, tick), c)
=============================================================================

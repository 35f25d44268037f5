# Minkowski in TLA+

Minkowski is an in-process column-store database engine: an archetype-based
world of entities and components (`crates/minkowski`), a write-ahead log with
replication (`crates/minkowski-persist`) and an LSM store that holds the
checkpoints (`crates/minkowski-lsm`). This directory holds TLA+ models of its
core, the TLC configurations that check them, and TLAPS proofs.

`PROJECT.json` is the index: components, runs, the source lines every definition
stands for (`map`), one mutant per checked property, findings, hazards, theorems.

## 1. The system

### Components, state and operations

| Component | State | Operations |
|---|---|---|
| Entity allocator (`entity.rs`) | generation per slot, free list with tombstones and a lazy index, atomic `next_reserved` | `alloc`, `reserve` (through `&World`, any thread), `dealloc`, `materialize_reserved`, `adopt`/`would_adopt` for replay |
| World (`world.rs`) | archetypes, rows, entity locations, column ticks, dirty pages, orphan queue | spawn, insert, remove, despawn, `get_mut`, queries, `drain_orphans`, tick snapshots and their validation |
| Archetype storage (`storage/`) | columns (`BlobVec`), sparse sets, dirty-page bitmaps | push, `swap_remove`, migration, sparse insert/remove |
| Slab pool (`pool.rs`) | size-class lists, two-frontier arena, thread caches | allocate, deallocate, grow, carve, epoch bump |
| Changeset (`changeset.rs`) | buffered mutations, fast-lane batches | record, `try_reserve`, `apply`, `apply_replay` |
| Lock table (`lock_table.rs`) | reader count and writer flag per column, behind a mutex | `acquire`, `release` |
| Transactions (`transaction.rs`) | per `Tx`: snapshot or locks, changeset, allocated handles | begin, read/write/remove/spawn, `try_commit`, `mark_committed`, drop |
| Queries, reducers, indexes (`query/`, `reducer/`, `index.rs`) | read ticks (committed late), index entries with a reverse map and a sync tick | `query`, query-writer calls, `update`, `rebuild`, `get_valid` |
| Query planner, views (`query/planner/`, `view.rs`) | compiled plans with a read tick and the index they hold; cached result and debounce counter | `build`, `execute_collect`, `aggregate`; `refresh`, `set_policy`, `invalidate` |
| WAL (`wal.rs`) | segment files; handle with sequence numbers, published ends, checkpoint counter, pending cleanup, view | create, append, rollover, `acknowledge_flush`, `delete_segments_before`, open, replay |
| Durable, checkpoint, recovery (`durable.rs`, `checkpoint.rs`, `recover.rs`) | the WAL behind a mutex, the newest run | WAL-first commit, checkpoint handler, `recover_world` |
| Replication (`replication.rs`, `replicated.rs`, `transport.rs`, `wal/ingest.rs`, `wal/range.rs`) | members with their sessions and consumed numbers, follower progress and poison flag, ingest journal | range reads, ingest, pull pump, retention cutoffs |
| LSM (`manifest*.rs`, `writer.rs`, `recovery.rs`, `compactor.rs`) | dirty pages, run files, manifest and its log | flush, record, compact, recover, orphan cleanup |
| Formats, codecs, Python bindings, observability, derive macros | – | conversions and glue |

### Interactions

A transaction begins by snapshotting column ticks (Optimistic) or taking column
locks (Pessimistic), buffers its mutations in a changeset, and allocates entity
handles up front. `try_commit` validates or unlocks and reserves memory; `Durable`
then logs the changeset; the caller applies it to the world. A dropped
transaction returns its locks at once and its handles through the orphan queue,
which the next `&mut World` call drains. After a commit the checkpoint handler
may flush dirty pages and the allocator's state to a new LSM run and acknowledge
it in the WAL. Recovery loads the runs and replays the WAL from the newest run's
`seq_hi`. Followers pull the published prefix of the WAL, journal it and apply
it; what they have made durable holds back the deletion of segments. Queries,
reducers, indexes and views share nothing with a writer but the world's tick and
the tick of each column.

### What is hard

* *Concurrency.* Handles are reserved on several threads; `Tx` is `Send` and may
  be dropped on one thread while another drains the queue; several transactions
  overlap in time and the world is changed directly between their steps.
* *Staleness.* A snapshot or a lock set describes the archetypes of the moment
  of begin; the free list keeps an index and a cached slice of an older self; a
  reader of changes compares ticks it took earlier; a plan holds an index of the
  moment it was registered.
* *Crashes.* Between write and fsync, fsync and publication, creating a segment
  and switching to it, flushing a run and acknowledging it; a checkpoint can be
  taken while transactions hold handles; unlinked files can come back; a
  follower stops between journaling and applying; a compaction between writing
  its output, logging it and deleting its inputs.
* *Delivery.* Answers of the source are lost, repeated, late or of another
  session, and the locks are given up between the three parts of a fetch.
* *Partial failure.* A rollover, a cleanup, a checkpoint may fail and the
  process goes on; a failed write may leave part of a frame.
* *Boundaries.* The tombstone is an index value; a free list at its capacity
  must not grow; a log whose records were all deleted must not reuse numbers.

`hazards` in `PROJECT.json` lists each at its line, with the properties that
would catch it.

### What makes each component correct

* Lock table: counters are exactly the holders; readers exclude writers; all or
  nothing; refusal only because of a real conflict.
* Allocator: a slot has one owner; no handle is issued twice; an aborted
  transaction's handles come back; replay after recovery is accepted.
* Transactions: what a committed transaction read is still so; locked columns
  do not change under their holder; `Ok` from `try_commit` means the changeset
  applies.
* Durability: an acknowledged commit survives any crash; sequence numbers, views
  and ticks of one log only go forward; readers see only what is durable.
* Pool: a block has one holder and none is lost; the frontiers stay apart; a free
  is routed by the class the block was allocated with.
* Replication: what a follower has made durable is a prefix of the published log
  and never shrinks; the source counts no more than that as consumed; a pump
  that keeps being called catches up.
* LSM: recovery gives back the world that was flushed, and no dead rows; the
  manifest names only runs that are on disk.
* World: a handle finds what it was given, whatever was swapped, moved or
  recycled; a changeset that was reserved applies; `Changed<T>` misses nothing;
  an updated index and every way of executing a plan agree with a full scan.

## 2. Modules

| Module | Models | Composes |
|---|---|---|
| `ColumnLocks` | abstract lock manager: one step grants all or refuses | – |
| `ColumnLockTable` | `lock_table.rs`, with begin, commit and drop as callers | implements `ColumnLocks` |
| `ColumnLockTableProofs` | proofs about it | `ColumnLockTable` |
| `FreeList` | the free list of `entity.rs` as operators on a record | – |
| `EntityAllocator` | `entity.rs`, orphan queue, `Tx::drop`, allocator state in checkpoints and replay | `FreeList` |
| `EntityAllocatorProofs` | proofs about it and about the free list | `EntityAllocator` |
| `Transactions` | both strategies, the world between them, apply | takes the lock table in its atomic form |
| `TransactionsProofs` | proofs about it | `Transactions` |
| `Wal` | `wal.rs`, `durable.rs`, `checkpoint.rs`, `recover.rs` | – |
| `WalProofs` | proofs about it | `Wal` |
| `Frontier` | the two frontiers of the pool window as operators on a record | – |
| `SlabPool` | `pool.rs`: lock-free lists, thread caches, side table, large runs | `Frontier` |
| `SlabPoolProofs` | proofs about it and about the frontiers | `SlabPool` |
| `LogShipping` | abstract replication: copies are growing prefixes | – |
| `Replication` | `replicated.rs`, `replication.rs`, `transport.rs`, `wal/range.rs`, `wal/ingest.rs`, `wal/plan.rs` | implements `LogShipping`; takes from `Wal` what a published prefix is |
| `ReplicationProofs` | proofs about it | `Replication` |
| `LsmStore` | `minkowski-lsm`: writer, manifest, compaction, recovery, with dirty pages and import | takes from `Wal` that commits are replayed in order |
| `LsmStoreProofs` | proofs about it | `LsmStore` |
| `WorldStorage` | rows, locations, ticks, sparse set: every storage operation as an operator on a world | – |
| `QueryPlan` | `query/planner/`: what `build` makes of a builder and what executing it yields | `WorldStorage` |
| `ChangeDetection` | `world.rs` calls, `changeset.rs`, the query's read tick, a query-writer reducer, `index.rs`, `view.rs` | `WorldStorage`, `QueryPlan` |
| `WorldProofs` | proofs about the storage under all of them, and its readers | `ChangeDetection` |
| `MC*` | small instances for TLC | |

### ColumnLocks, ColumnLockTable

`mutex` is the table's mutex; `todo` the loop variable of `acquire`/`release`;
`readers` and `writer` the counters; `shared[t]`, `excl[t]` the lock set of
transaction t. `Begin` enters `acquire`, `GrantOne`/`RefuseOne` visit one
column, `AcquireSome`/`AcquireNone` return, `StartRollback`, `StartRelease` and
`ReleaseOne` give back. A component both read and written gives two requests that
`dedup_by` merges into an exclusive one. Nobody else can see the table in the
middle of a loop, but its counters are checked there as well. The refinement
mapping shows a transaction inside `acquire` as "asking" with no locks yet, and
one inside `release` as holding none any more: both are atomic to the outside.

### FreeList, EntityAllocator

A handle is `<<index, generation>>`. One `&mut World` call is a sequence of
stages (`EnterWorld`, `CheckFlag`, `DrainQueue`, `ClearFlag`, then the call
itself), because a `Tx` dropped on another thread (`DropStep`: push, then flag)
comes between them; `reserve` is a load and a compare-and-swap. `Checkpoint`
stores generations and free list, commits log their spawns and despawns, `Crash`
forgets everything else, and `ReplaySpawn`/`ReplayDespawn` run the log through
`adopt` and `dealloc`. The indices are `0 .. REMOVED - 1`; `REMOVED` is the
number that is also the tombstone. `reserve` asserts that it stays below;
`alloc` does not look: with every index taken and nothing to recycle, `TxSpawn`
opens one more slot, and `next_reserved` wraps to 0 (`NextIndex`), which is what a
release build does. `stage` is then "ended" and the world does nothing more
(a `Tx` may still be dropped, and the process still crash): what a program does with a handle whose
index is the tombstone is not modelled.

### Transactions

The world is the state of entities (life, archetype, values) and the archetypes
created so far. Ticks are compared only with "newer than the snapshot", so each
transaction keeps the set of snapshotted columns marked since (`newer`). World
calls (`WorldSpawn`, `WorldInsert`, `WorldRemove`, `WorldDespawn`, `WorldGetMut`)
run between the steps of transactions; commit, mark, drop and apply are one
action since `transact_inner` holds `&mut World` throughout. A closure touches
only what its `Access` declares (the reducer layer enforces that).

### Wal

A segment is the sequence of its frames; `synced` says how many of them are
durable, `named` which directory entries are, `removed` which unlinked files may
come back. A frame counts as one byte. The steps of a commit are in `pc`:
`AppendWrite`, `AppendSync`, `RollCreate`, `RollPublish`/`RollAbandon`, `Apply`,
`Flush`, `AckWrite`, `AckSync`. Each step that performs I/O has a failing
counterpart, except those of `append` itself and of a later `append`'s cleanup:
their errors make `Durable` panic, which is a crash. `ProcessCrash` keeps the
page cache, `PowerLoss` keeps the synchronized frames and any prefix of the rest,
perhaps with a torn frame at its end. `Open` truncates, rebuilds the counters
and synchronizes; `Recover` replays from the newest run.

Abstractions to know: a run is flushed atomically (`LsmStore` has the steps of a
flush); commits either leave something to flush or do not; an fsync
that fails leaves its data dirty, so that a later one may still write it; a torn
frame in a sealed segment may be read as an error or as the end of the file, and
the garbage view numbers a misaligned header scan could yield are left out.

### Frontier, SlabPool

Addresses count slots of the smallest block. `Frontier` has the methods of the
struct as operators, under the frontier mutex and hence atomic. A thread's call
is in `th[t]`: `Pop`, `PopNext`, `PopCas` and `PushLink`, `PushCas`, `CasFails` are
the accesses to a list head and to the link of a block, which other threads come
between. A tag that grows with each CAS makes a CAS succeed exactly when no other
has succeeded since the head was loaded; `fresh` keeps that bit instead of a
64-bit counter (which would take centuries to wrap). `CheckEpoch`, `ReturnBlock`,
`Spill`, `CacheHit`, `CacheMiss` and `RefillEnds` are the thread cache,
`GrowInPlace`, `GrowByCopy`, `CopyToRun` and `ReleaseCopied` the two ways to grow
a run, with the lock given up between the steps of the second. Side table entries
are written by the holder of a block only, so they change in the step that makes
it the holder. A caller that gets a block writes over the link in it; the model
writes None there, and a pop that reads it later has a stale head.

### LogShipping, Replication

The published log is a sequence of frames (schema, mutations, checkpoint), each
with its view; a source restart keeps it, as `Wal` shows. A fetch is three
actions: `FetchCheck` looks the session up under the membership lock, `FetchRead`
reads a range with neither lock held, `FetchConfirm` checks the session again
before it counts the follower's position as consumed. `Lost` and `DeliverLate`
are the link. The follower validates the range (`Bounded`, `Segmented`,
`Contiguous`, `Fenced`, `Ticking`: the rules of `wal/plan.rs`), writes it to its
journal (`IngestWrite`), synchronizes and applies (`IngestSync`), with an I/O error
at each, a process crash, a power loss that tears the last entry, and `Open`, which
replays the journal. `Administer` bounds reconfigurations of the members.
`copy[f]` is the history variable the refinement maps to the abstract copy: what a
replay of the synchronized journal gives.

A record may not apply (`applies`, chosen by `Commit`): the second of two logged
despawns of an entity (observation 2 of section 3), or bytes with a good checksum
whose values the follower's checked decoding refuses. `IngestSync` then applies
the records before it, stops the pump and leaves the follower poisoned, with the
entry complete in the journal. `OpenRefused` is the open that meets this entry
again: it replays up to the record, returns the error and makes no follower. The
follower's copy still holds what the entry's first records say: the bytes are
durable, although no process can use them until somebody mends the log.

### LsmStore

A world is rows of entities in archetypes and the set of dirty pages. A run
stores, for each archetype, the dirty pages of each column, the page of entity
handles and the allocator. `job.at` is the position of the checkpoint handler:
`Checkpoint`, `FlushRename`, `Record`, `ClearDirty`, `CompactWrite`, `CompactCommit`,
`DeleteInput`, `CompactDone`, `Acknowledge`, each with its failure, and `Crash`
between any two. `ghost` is a manifest entry of an append that failed after its
bytes were written: a restart may find it or not, and the properties quantify
over both. `Recovered` merges the pages newest first, drops dead rows and imports
the rest; `Restart` then replays the log. `displaced` is a history variable, see
observation 6 in section 3.

### WorldStorage, QueryPlan, ChangeDetection

A world is a record; `Spawned`, `Despawned`, `DespawnedBatch`, `Inserted`,
`Removed`, `GotMut`, `GotBatchMut`, `TableMut`, `SparseInserted` and `SparseRemoved`
take one to the next, through `Pushed`, `SwapRemoved`, `Migrated` and `Marked`.
`truth` is the plain map from entities to components that the same calls should
mean. A call, with the iteration of its result, holds `&mut World` and is one
action. A changeset is `Apply`: `Reserve` folds over its mutations on simulated
locations (`try_reserve`), `Applied` runs them, holding back consecutive inserts
into one column (`Flushed`), and stops at the first that fails.

Readers share nothing but the world, so a behaviour has one of five subjects:
`query` (`Query`, `AdvanceQueryTick`: the read tick is pending until the next call
finds the iterator was used), `writer` (`CallWriter`: the reducer's own tick, taken
after its changeset was applied), `index` (`UpdateIndex`, `RebuildIndex`), `sparse`
(the sparse set) and `plan` (`Plan`, `Refresh`, `SetPolicy`, `Invalidate`).

A builder is a record of required and changed components, predicates, joins, ER
joins and registered indexes. `Built` picks the driving index, merges inner joins
into the scan and decides for the direct column path; `ExecuteCollect` has the
three executions of `execute_collect`, `Aggregate` the four of `aggregate` down to
the row batches per archetype. A plan holds an `Arc` of the index it was built
with, and `update` needs `&mut`: no index changes under a plan, and `Plan` makes a
new index with the new plan. `Answer` is the reference: what the builder asks for,
on `truth`.

## 3. Runs

| Run | Module, bounds | Result |
|---|---|---|
| `column_lock_table` | 3 transactions, 2 archetypes, 2 components, 4 access sets | passes, 381,244 states |
| `entity_allocator` | 2 transactions, 2 slots (reservations are refused there, `alloc` opens one more), generations to 2, 1 checkpoint, free list capacity from 1 | passes, 70,553 states |
| `recovery_replay` | same | finds a violation |
| `transactions` | 2 transactions of either strategy, 1 entity, 2 components, changesets of 2 mutations, 1 remembered read | passes, 941,498 states |
| `wal` | 4 commits, segments of 3 frames, a checkpoint every 2, 1 view change, 2 failures, 2 crashes | passes, 216,653 states |
| `slab_pool` | 2 threads, 2 slab classes (two blocks a chunk, and one), 2 units, 5 slots, bins of 2, 1 flush, 2 allocations in use | passes, 2,017,496 states |
| `large_runs` | 2 threads, 1 slab class, 3 units and half of one, runs of 1 and 2 units, bins of 1 | passes, 229,012 states |
| `torn_checkpoint` | 3 commits, 1 failure, 1 crash | finds a violation |
| `replication` | 1 follower, 1 member name, 2 commits, segments of 2 frames, ranges of 2 records and 4 frames, 1 view change, 2 reconfigurations, 3 faults; any record may be one that does not apply | passes, 220,570 states |
| `lsm_store` | 2 archetypes (one and two components), 2 slots, pages of 1 row, 3 levels, compaction at 2 runs, 4 operations, 1 fault | passes, 221,418 states |
| `lsm_columns` | the same with writes to one of two components, no faults | finds a violation |
| `world` | 2 slots of 2 generations, 2 dense components, 2 key values, 1 sparse value, 11 plans, debounce 1 and 2; 5 operations for query and index, 4 for writer, sparse and plan; changesets of 2 | passes, 490,105 states |

What the passing runs check:

* `column_lock_table`: `TableIsHolders` (no leak, no double release, in the middle
  of every loop), `Exclusion`, `ImplementsColumnLocks` (all or nothing, refusal
  only for a real conflict).
* `entity_allocator`: `FreeListIsSound` (index and cached slice agree with the
  list), `EverySlotHasOneOwner` (free, placed, held by a transaction, queued or
  leaked by a restore, and exactly one), `NextHandleIsFresh`, `OrphansAnnounced` (a
  queued handle is announced by the flag or by a drop under way),
  `WouldAdoptMirrorsAdopt`, `QuiescentReplayAccepted` (a checkpoint taken while no
  transaction holds a handle always replays), `DeallocNeverGrows`, and the
  liveness property `OrphansReclaimed`. Owners, fresh handles, `would_adopt` and
  reclamation are claimed as long as the index space lasts: once `alloc` has run
  past it they are false (observation 13). `TypeOK` says
  what is left: reservations that race for the last index stay below it, and the
  call that opens slot `REMOVED` opens no other.
* `transactions`: `ValidatedReadsAreCurrent` and `LockedColumnsAreStable`, the
  guarantees that do hold, with the limits that the observations below explain
  (1 for the reads; 12 for the locks, whose columns are those of the archetypes
  there were when they were taken).
* `wal`: `AcknowledgedCommitsSurvive`, `AckedIsRecoverable` (at every moment, not
  only after a crash), `SegmentsPartition`, `SequenceNumbersAreFresh`,
  `PublishedPrefixIsDurable`, `ViewsNeverRegress`, `UncheckpointedIsCounted`.
* `slab_pool`: `EveryBlockHasOneHolder` (a carved slot is in exactly one block of
  one list, bin, call or caller; a slot between the frontiers in none) and
  `SideTableRoutesFrees`; `TypeOK` bounds the bins.
* `large_runs`: `FrontiersNeverCross`, the invariants written above
  `struct Frontier`, and the liveness property `CallsEnd` (lock-freedom).
* `replication`: `ImplementsLogShipping`, `ConsumedIsDurable` (what the source
  counts as consumed survives the follower's power loss, over every loss and
  reuse of sessions), `JournalRebuildsFollower` (replaying the journal at any
  moment stops at a record of the log that does not apply and for no other
  reason, has what reads were ever shown, and gives a healthy follower its very
  state), and the liveness property `CatchesUp`, for a pump that is not stopped: a
  record that does not apply stops it for good, in the code as in the model. Of
  such a record the properties say that it costs nothing before it; they do not
  say that the follower can be opened again, because it cannot.
* `lsm_store`: `FlushedWorldRecovers`, `DeadStayDead`, `ManifestIsDurable` (the
  manifest is what its log replays to, and every run it names is on disk, unless
  a file name was used twice: observation 7), at every step of a flush and a
  compaction.
* `world`: `StorageHoldsWhatWasGiven`; `ReservationCoversApply` (the walk stops
  exactly where apply does and reserves exactly the peak of rows);
  `NoChangeIsMissed`; `IndexIsFresh`; `PlanAnswersScan` (every execution yields only
  entities of its answer, each once, and all but those rewritten since the index
  was built; aggregating agrees with collecting).

*Why the bounds are enough.* Three transactions give a requester that fails half-
way while two others hold different columns. With two slots and one checkpoint
the free list meets its capacity, tombstones, recycling and the end of the index
space, and a crash follows a checkpoint taken at any moment. Two transactions
and one entity suffice for every conflict between a pair; two components make an
entity move between archetypes. Four commits with segments of three frames roll
over twice, checkpoint twice and leave segments to delete, and two crashes make
one recovery start from the result of another. In the pool a thread that has
loaded a list head needs one other thread, and two blocks, to find the same head
over a stale link; five slots end in less than a chunk, three and a half units in
less than a unit, and three units are what a run needs to be blocked, freed and
moved. Two commits with segments of two frames give a follower a range that
crosses a segment, a repeated and a partly new one; two reconfigurations remove
and re-add a member while a fetch is under way. Pages of one row make every row a
page of its own, so that two operations suffice for runs that hold different
pages, and four for two flushes, a compaction and a change after it. Two slots
make every swap-remove move a row and every second generation recycle a slot; a
lost window of a reader takes a spawn, a look, a change and a look.

*Deadlock* is checked for the lock table and the WAL. In `EntityAllocator` and
`Transactions` the bounds on generations and buffers bring the model to a stop
where the program goes on, and so do the bounds on commits, operations and calls
in `Replication`, `LsmStore` and `ChangeDetection`; a pool that is dropped, with
its caches, does stop.

*Fairness* is assumed in three modules. `Replication`: weak fairness for the
steps of a pump and its ingest: the caller keeps calling `pump_once` and every
call ends; nothing is assumed of the source, of the reopening of a follower that
is down, or of the link, whose mishaps are bounded by `MaxFaults`. `SlabPool`: weak fairness for the steps of a
call that has begun, and none for beginning one. `EntityAllocator`: weak fairness for a `&mut World`
call, a compare-and-swap and a drop that have begun (running code keeps running),
and strong fairness for `EnterWorld`: a program that goes on using its world calls
it again and again, although shared borrows keep coming in between. The other
modules state no liveness: nothing in them waits (`acquire` fails instead of
blocking), and every commit step is followed by the next or by a crash.

### Findings

* `recovery_replay`: a checkpoint stores a slot held only by a transaction as
  live; recycled and committed later, its spawn is refused at replay and
  recovery ends in an error.
* `torn_checkpoint`: a checkpoint frame written in part (a full disk) stays in the
  file, the process goes on, and the next open cuts off the acknowledged commits
  behind it. The `wal` run therefore takes a failed write to leave nothing.
* `lsm_columns`: a flush stores only the dirty columns of an archetype, and
  recovery takes the columns it finds for the signature: after spawn, checkpoint,
  write of one component, checkpoint, the entity is recovered without the other.
  The `lsm_store` run therefore writes in place only in one-component archetypes.

### Observations

Met while modelling, each where the model has to step around the code or where
a checked property stops short of what a comment says; none has a run of its own.

1. An optimistic snapshot lists the archetypes of its moment (`world.rs:1789`): a
   value read from a row that moves to a younger archetype and is overwritten there
   passes validation. `ValidatedReadsAreCurrent` excludes such reads.
2. Two transactions that despawn the same entity both get `Ok` from `try_commit`
   (`transaction.rs:816`, `:835`); applying the second panics, after it was logged.
   A follower that is sent this log is poisoned at the second record, and its journal
   refuses to open from then on (`replication` has such records).
3. Runs store no tick (`recover.rs:66`), so a recovered leader may stamp records
   with ticks its log has used; a follower that has the earlier ones refuses them.
4. `World::remove` (`world.rs:1641`) takes no tick and marks no target column,
   unlike `changeset_remove_raw`: a change nobody has looked at yet moves, with
   its row, into a column that looks old. With the tag among `Removable`,
   `IndexIsFresh` fails in three steps; `World.cfg` removes the key only.
5. A checkpoint records its run before it saves the registered indexes
   (`checkpoint.rs:100-130`); a crash in between leaves an index older than the
   baseline, and `update` after the load never sees the gap (`docs/indexing.md`).
6. Compaction gives all images of a signature group the largest `seq_hi` of its
   inputs (`compaction_writer.rs:60-66`) and lays rows out by entity, and recovery
   imports pages newest first without marking them dirty (`recovery.rs:786-801`):
   afterwards pages of different runs no longer describe the same rows, and a
   later merge of them may lose some. `displaced` records it, and
   `FlushedWorldRecovers` is about behaviours without it. A row that a recovery lost
   is still in its old run, hidden by a page of the same number; once a compaction
   rewrites that page under another number, the next recovery places the row again,
   although the world flushed in between did not have it. `lost` records that a
   recovery has lost a row, and `DeadStayDead` is about behaviours up to the first
   such recovery, that one included. TLC finds the return with one archetype, 3 slots,
   6 operations and 1 crash, in 35 steps.
7. A compaction names its output after the span of its inputs alone
   (`compactor.rs:212`: "Generates a unique output path"; `:430-431`: "the extension
   difference prevents collisions"). That tells it from a flush's file, not from
   another compaction's: when the newest input of an L1 compaction already spans
   the others, the output has that input's name, the rename overwrites it, and the
   deletion of the inputs (`:358-364`) removes the run the manifest has just been
   given. It needs runs of different archetypes interleaved on level 1: TLC finds it
   with two one-component archetypes, compaction at 2 runs, 3 levels, 7 operations and
   no fault, in 51 steps. `NameReused` says that it has happened; what
   `ManifestIsDurable` says of files is about behaviours without it. The proof
   attempt brought this to light.
8. Index lookups of a plan are commented as reading the "live index at execution
   time (not a snapshot)" (`planner/mod.rs:343`), but the plan's `Arc` keeps anyone
   from updating it: a subscription shows what was indexed when it was planned,
   filtered by what holds now, and never an entity that came to match later.
9. A view over a plan with `Changed<T>` holds only what changed since its last
   refresh, so a refresh with nothing changed empties it (`view.rs:5-8`).
10. `execute_stream_batched` and `execute_stream_join_chunk` with `&mut T` mark the
   columns before the change filter is evaluated, so that every matching archetype
   passes it; `World::query` filters first. `aggregate_raw` on an unfiltered scan
   ignores whether `bind_archetype` succeeded. Neither is in the model.
11. `insert_sparse` does not ask whether the entity is alive; `Spawn` in a changeset
   asks by slot where `try_reserve` asks by handle; `has_changed` does not see new
   archetypes; sparse components have neither ticks nor locks. The model names
   only handles for which these make no difference.
12. A pessimistic transaction locks the columns of the archetypes that exist when
   it begins (`transaction.rs:893`). A row that moves from them into an archetype created
   later is under none of its locks any more, and a transaction that began before that
   archetype existed writes to the row there without a lock, although a third
   has locked the column. `LockedColumnsAreStable` is about rows in an archetype that
   both transactions knew when they began, and does not catch this.
13. With all 2^32 - 1 indices taken and none to recycle, `alloc` (`entity.rs:370-373`)
   issues the tombstone as an index, although the comment at `entity.rs:21` says that
   "The allocator never issues u32::MAX", and computes `index + 1`: a debug build
   panics with the slot already pushed, a release build wraps `next_reserved` to 0, and
   `reserve` hands out index 0, generation 0, again. Only `reserve` (`:281`) asserts the
   end; reservations get there without a row, given a pool that holds 2^32
   generations. The comment is stated as `NeverIssuesRemoved` in `EntityAllocator`;
   as an invariant of the `entity_allocator` instance TLC finds it violated in 8 states.

## 4. Proofs

`Init /\ [][Next]_vars` is what the invariants need; fairness, where a `Spec` has
it, is not used. A theorem holds for every value of the constants that its
module's assumptions allow; the hypotheses that some theorems have besides are
named below.

| Theorem | States, of every behaviour |
|---|---|
| `ColumnLockTableProofs!TypeCorrect`, `CountersAreHolders`, `ReadWriteExclusion` | `TypeOK`, `TableIsHolders`, `Exclusion` |
| `ColumnLockTableProofs!Refinement` | `ImplementsColumnLocks` |
| `EntityAllocatorProofs!TypeCorrectness` | `TypeOK` |
| `EntityAllocatorProofs!FreeListStaysSound`, `FreeingNeverAllocates` | `FreeListIsSound`, `DeallocNeverGrows` |
| `EntityAllocatorProofs!OneOwner`, `HandlesAreFresh`, `OrphansStayAnnounced` | `EverySlotHasOneOwner`, `NextHandleIsFresh`, `OrphansAnnounced` |
| `EntityAllocatorProofs!PreflightIsExact`, `QuiescentRecovery` | `WouldAdoptMirrorsAdopt`, `QuiescentReplayAccepted` |
| `TransactionsProofs!TypeCorrectness` | `TypeOK` |
| `TransactionsProofs!OptimisticReadsAreCurrent` | `ValidatedReadsAreCurrent` |
| `TransactionsProofs!PessimisticLocksHold` | `LockedColumnsAreStable` |
| `WalProofs!TypeCorrectness` | `TypeOK` |
| `WalProofs!DurabilityOfCommits`, `NothingNeededIsLost` | `AcknowledgedCommitsSurvive`, `AckedIsRecoverable` |
| `WalProofs!SegmentsAreNamedAfterContent`, `SequenceNumbersStayFresh` | `SegmentsPartition`, `SequenceNumbersAreFresh` |
| `WalProofs!ViewsStayInOrder`, `PublishedIsDurable` | `ViewsNeverRegress`, `PublishedPrefixIsDurable` |
| `WalProofs!NothingEscapesTheCheckpoint` | `UncheckpointedIsCounted` |
| `SlabPoolProofs!TypeCorrectness`, `FrontiersStayApart` | `TypeOK`, `FrontiersNeverCross` |
| `SlabPoolProofs!FreesAreRouted`, `OneHolder` | `SideTableRoutesFrees`, `EveryBlockHasOneHolder` |
| `SlabPoolProofs!TagsPreventAba` | `NoAba`: a compare-and-swap that can succeed has the current head and its current link |
| `ReplicationProofs!Refinement` | `ImplementsLogShipping` |
| `ReplicationProofs!ConsumedStaysDurable`, `JournalIsTheFollower` | `ConsumedIsDurable`, `JournalRebuildsFollower` |
| `LsmStoreProofs!ManifestStaysDurable` | `ManifestIsDurable` |
| `WorldProofs!StorageHolds` | `StorageHoldsWhatWasGiven` |
| `WorldProofs!NothingIsMissed`, `IndexStaysFresh` | `NoChangeIsMissed`, `IndexIsFresh`, both for `Removable \subseteq {Key}` |

Each module states its invariant (`IInv`), proves that `Init` gives it and that one
lemma per action keeps it, and draws the theorems from it (`Inductive` in
`ColumnLockTableProofs`, `StorageIsKept` and `ReadersWatch` in `WorldProofs`, `Invariance` in
the others).

### ColumnLockTableProofs

For every finite set of transactions and any archetypes, components and access
sets (`TxsAssumption`: `Txs` is finite and `NoTx` is not one of them;
`AccessAssumption`: accesses are pairs of sets of components).

None of the properties is inductive alone. `IInv` adds
`MutexInv` (only the owner of the mutex is inside a loop, and the loop variable is
empty when nobody is), `LockSetInv` (a lock set is empty outside a transaction and
is what remains to be given back inside a release), `LoopInv` (what was granted is
the visited part of the request, each entry in its mode) and `RefusalInv` (a
transaction that is failing is blocked by one that holds its locks). The last is
what the refinement needs: at the moment of refusal the abstract lock manager must
see the conflict. The counters are cardinalities of sets of holders; three
lemmas (`HoldersFinite`, `HolderJoins`, `HolderLeaves`) carry all the arithmetic.

### Induction

The library states induction for an operator `P(_)`, which no installed prover
instantiates. `LeastElement` and `UpTo`, at the head of every module that needs them,
state it for a set, from the library's theorem on minimal elements: what a proof by
induction is about becomes the set `{n \in 0 .. N : ...}`. `GreatestElement`, `MaxIs` and
`MinIs` follow. The folds of the models over a changeset, a log or a journal are
recursive functions on `0 .. Len(s)`; that such a function exists is itself such an
induction (`RecordsInUnfolds` and its like), and after that what it computes is proved
for every input.

### EntityAllocatorProofs

For any index space, generations, transactions and checkpoints
(`FreeListAssumption`, `EntityAllocatorAssumption`: an absent value is none of the
present ones). `Sound` is `FreeListSound` with types; one lemma per operation says
that it keeps `Sound` and what it does to `Free`, the set of free slots. That is all
the allocator needs to know of the tombstones, the lazy index and the cached slice.
Each operation of the allocator then has a lemma on `Free`, the generations and
`next_reserved` alone (`AllocIs`, `DeallocIs`, `AdoptIs`, ...), with `AllocOK` as its
invariant: the capacity is at least the number of slots, so that a push finds room
or a tombstone to reclaim (`RoomForOneMore`), which is B3.

`IInv` has four parts. `Owned` (`Disjoint`, `Covered`, `Alive`): the free list, the
rows, the leaked slots, the handles of each transaction and the orphans partition
the slots below `next_reserved`, reserved ones included. `StageInv`: who excludes
whom, and the flag. `FreshInv`: an issued handle is `Stale`, that is, its slot
carries a newer generation or its own and is not free; a committed one may instead
await its spawn in the part of the log still to be replayed. `SavedInv`, `LogInv` and
`ReplayInv` are about recovery: `RowAfter` and `GenAfter` say, for each slot, what
the first n records make of the last checkpoint, found from the last record that names
the slot instead of by a fold; the state in memory has just those rows, at those
generations, except that a slot without a row may have been recycled more often; and
each record is `Accepted` by a replay that has reached it. So when replay gets there
it refuses a spawn only if a leaked slot stands in its way. That is why
`QuiescentReplayAccepted` speaks of a checkpoint with no unplaced slot, and the
finding `recovery_replay` is the other case.

`IInv` is kept until `alloc` runs past the index space. From that call on
(`EndInv`) `next_reserved` is 0, slot `REMOVED` exists and the partition is gone;
`DiskInv`, the part of `IInv` about the checkpoint and the log, stays, and it is all
that a crash leaves, so that a restarted process is back in `IInv`. `Invariance` is
therefore about `IInv \/ EndInv`. The checkpoint and the log cannot hold the tombstone
because the transaction it was issued to has not committed when the model stops.
The properties that except the end say so themselves (`stage # "ended"`);
`TypeOK`, `FreeListIsSound`, `DeallocNeverGrows`, `OrphansAnnounced` and
`QuiescentReplayAccepted` do not.

### TransactionsProofs

For any transactions, entities, components, values, access sets and changeset
lengths (`TransactionsAssumption`). A changeset is applied mutation by mutation:
`Touched` says what one operation does to a world, and induction over the buffer
gives what the whole changeset does (`Reported`: a component that an entity has
afterwards is marked, or was left alone in place; `Kept`: what is outside the
write set stays while the entity lives). `IInv` says that a world is consistent
(`Consistent`: rows only for the living, in archetypes that exist, with the values
of their components), that buffers hold what the closures may record (`BuffersOK`),
that an ended transaction keeps nothing (`PhasesOK`), that reserved handles have one
owner (`AllocationsOK`) and that locks exclude (`LocksExclude`). `SnapshotOK` (an
entity that is not `unseen` lives in an archetype of the snapshot) and `ReadsCurrent`
(no mark, no change) together give `ValidatedReadsAreCurrent`.

### WalProofs

For any numbers of commits, views, failures, crashes and frames per segment
(`WalAssumption`). The argument is about
`Files`, the segments that are there or that a power loss may bring back, and
`Durable`, how much of each is synchronized. `DiskOK`: only the newest file is not
durable to its end, names partition the sequence numbers, views do not go back, a
torn frame is the last of all. `HandleOK`: the handle, while there is one, is ahead
of every file but that of a rollover under way or given up. `RecoverableOK`: the
durable part of the named files holds every acknowledged commit that the newest run
lacks, and reaches the sequence number the next append will use. `TicksOK` keeps the
order of ticks above the newest run; it must be in `IInv` because a recovered world
takes its tick from the records it replays. What a power loss leaves of a file is
`Survivors`; the lemmas `DiskShrinks`, `DiskGrows` and `DiskSurvives` carry
`DiskOK` through all actions.

The theorems have a hypothesis on `FailedWrites`, the constant that says what a
failed write of a checkpoint frame may leave in the file (any other failed write
ends the process, and a crash may tear whatever is not synchronized): it leaves no
part of a frame. Without it the theorems are false, as the finding
`torn_checkpoint` shows. `PublishedIsDurable` also needs that no whole frame is left
by a write that reported an error: it is not in `active_bytes`, the
published end then falls one frame short of the file, and the last record below
`durable_next_seq` lies behind it (TLC shows that in 12 steps with
`FailedWrites = {"nothing", "all"}`). The `wal` run has the same setting.

`NothingEscapesTheCheckpoint` compares the counter towards the next checkpoint (`bytes`) with the records
that no checkpoint frame covers, over all files. It needs to know where checkpoint
frames stand: `MarksOK` says that a checkpoint frame's number is one past the record
before it in its file, or the file's name if there is none, so that the records before it
are older than it and those behind it are not (`MarkOrder`). Any prefix of a file keeps
that, so it survives cuts, power losses and deletions, and a checkpoint frame left whole
by a failed write satisfies it too. `CountOK`: while the log is open the counter is at
least the number of records `Behind` the last checkpoint, which is not ahead of the log. An append adds one to both, an
acknowledgement resets the counter behind everything there is, and the recount of an
open is the number of records behind the last checkpoint frame it scans (`RecountIs`).
`CountOK` was checked by TLC first, with failed writes that leave a whole frame.

### SlabPoolProofs

For any finite set of threads, any slots, units, slab classes, block sizes, cache
capacity and large runs (`FrontierAssumption`, `SlabPoolAssumption`), with no other
hypothesis. The pool keeps no record of who has a block: a free block is found only by
following links, and a thread between two steps has it in a local variable. `IInv`
therefore says that an assignment exists (`Blocked`): `own` gives each block its one
owner (a list, a cache, a chain, a call under way, the caller), `cls` its class, `stk` each
free list as a sequence, bottom first, and `chain` the chain each thread is about to push.

* `ListOK`: a list's head is the top of `stk`, and each of its blocks links to the one below.
  `ChainOK` says the same of chains, `CallOK` what a call has in its hands at each program
  counter.
* `CasOK` is the ABA argument. While `fresh` holds (the tag is the one the thread loaded)
  nobody has popped or pushed, so the loaded block is still on top of the list and a
  link read from it is still current. A stale thread may have read the link of a
  block that another thread has in use by now; nothing is said of what it read,
  because its exchange fails. `TagsPreventAba` states this on its own.
* `SideOK` and `Layout`: the side table has the class of every slab block, slab blocks tile
  what is below `lo` and large blocks are the runs the upper frontier has given out. The operators
  of `Frontier` have a lemma each (`TakeRunKeeps`, `ReleaseRunKeeps`, `GrowRunKeeps`,
  `CarveKeeps`) that gives `FrontiersNeverCross`.
* `EpochInv`: a flush under way has its raise of the epoch still to come, which bounds
  the epoch.

Most steps change one list, one call and the owners of the blocks that
move between them; `MoveStep`, `CasStep` and `RunStep` say what else has to be shown
for such a step, and each action's lemma gives the new assignment. `OneHolder` then
compares the assignment with the property's own count, which knows nothing of it:
`ListWalk` (following links from the head visits `stk`, by induction along it),
`ClaimsAre` (an owned block has one claim), `OneCover` and `SomeCover` (a slot below `lo`
or in a run lies in one block). `IInv` was checked by TLC on both instances
before it was proved.

Two definitions of `SlabPool` changed for the provers: the call record of an idle thread
has `op` "none" like the others have a string, and `SideTableRoutesFrees` has parentheses
that `tlapm` and TLC read alike (`UNION A \cup B`).

### ReplicationProofs

For any followers, members, sessions, commits, range limits and faults
(`ReplicationAssumption`), with no other hypothesis. `LogOK`:
the records of the published log are numbered from 0 without gaps. `Genuine`: a
record of an answer, sent or under way and however late, is the record of the log
with its number; since the log only grows this survives every step, and it is
all that is needed of the link. `Healthy` and `Growing` speak of every entry of a
journal and not only of its synchronized end, because a power loss may cut it
anywhere behind that; they say that a replay stopped there has a prefix of
the log and no less than at an earlier entry, and fails at the last entry only, at a
record of the log that does not apply (`AtFailure`): a follower that met one is poisoned
and writes nothing behind it. Where a replay fails is no matter of the
moment, since the log only grows (`FailureStays`). `InStep`: the journal is ahead of a
healthy follower in memory by the entry under way alone, and a valid one.
`MemberOK`: a member's consumed number is covered by the copy of the follower that
holds its session. In the refinement `Commit` is `Publish`, `IngestSync`, `Open` and
`OpenRefused` (which synchronizes the journal before it fails) are `Ship`, and every other action leaves the abstract log and copies as they are.

Preparing these proofs, two operators written with overlapping `CASE` arms
(`RecordsFrom`, `Reserve`) were given the order that the code's early returns have:
`CASE` promises none, though TLC takes the first arm that holds.

### LsmStoreProofs

For any archetypes, slots, page size, levels, trigger, operations and faults
(`LsmAssumption`). The argument is about names: the upper end of a run's span is that
of one flush, flushes have different ones, and a compaction passes on the newest
of its inputs. `Distinct`: no two tracked runs have the same upper end, on whatever
levels. `Fits`: an entry can be replayed, and the upper end of its output is new or
that of one of its inputs. It holds of the entry under way while a flush or a
compaction is between its file operations (`JobInv`), and of the frame that a failed
append may have left behind the end of the log (`GhostInv`): the next append
overwrites it, or a restart finds and replays it, and until then nothing it relies on
changes. `LogInv` says that the log replays to its end. Then what is deleted after a compaction is tracked nowhere (unless
`NameReused`), and so `DiskInv`. `KeptUnfolds` and `ReplayUnfolds` are the
inductions over runs and log entries, `CandidateIs` says that the inputs a compaction
picks are tracked on its level, `CompactionFits` and `FlushFits` that their entries fit.
`IInv` was checked by TLC on the instance of `lsm_store` first.

### WorldProofs

For any finite sets of slots and components, any bundles, changeset lengths, generations,
plans and policies (`WorldAssumption`; `Removable \subseteq Components` in it says that
`World::remove` is called for stored components, sparse ones have a call of their own).
The invariant is `Kept`: the storage is `Fit`, and `truth` is its `Meaning`.

* `Meaning(w, G)` reads a plain map off the storage: for every handle that is alive and
  placed, its row's values, with the sparse value the page table finds. `G` is for the
  middle of a call: the handles whose row is gone (or doubled) while their location
  is still there. Between calls `G` is empty.
* `Fit` is what makes reading and writing agree. `Columns`: rows have the components of their
  archetype, and no two archetypes have the same ones. `RowsFound`: the location of a row's entity
  is that row, and the entity's generation is its slot's. `LocationsHold`: a location leads to a
  row of that entity. `FreeUnplaced`: a free slot has no location, so that a new
  entity finds none. `SparseFits`: each dense entry belongs to a placed entity whose page
  points at it; an old page entry may be left behind and must then lose the check
  of the entity it points at.

Each primitive has a lemma about `Fit` and `Meaning`: a push gives
(`Given`), a cut takes (`CutKeeps`: the row that moves into the gap keeps its
meaning because its location follows), a migration is a push and a cut with the
entity in `G` in between (`MigratedKeeps`), sparse insertions and removals change one sparse value.
`despawn_batch` cuts the rows of a set of entities by the locations they had before: that works
because, within an archetype, rows are cut from the last to the first, and a cut
leaves the locations below it alone (`LowerStay`).

A changeset holds writes back, and only then are they part of the storage. Its meaning in
between is `Held`, the meaning of the world with the held-back batch written, and
`Sound` says that the rows the batch has resolved are still the rows of
those entities: every operation that could move them flushes first. `Agree` relates the
state of apply after `n` mutations with the plain map after the same `n`, including
where both stop (`FailKeeps`, `Refused`); `Since` carries what a later mutation relies on, that
a handle which was alive when the changeset was filled, and that it does not despawn, still is.
Induction over the mutations gives `Apply`.

The readers have an invariant on top, `Watching`: read ticks are in the past (`ReadTicks`), an
entity whose key the subject has not shown yet is in an archetype newer than the tick its next
visit starts from (`Ahead`), and an index has the value of every key except those in
archetypes newer than its own tick (`Mirrors`, `UpToDate`). Its first two parts are what
`NoChangeIsMissed` adds up to, the last gives `IndexIsFresh` as soon as the ticks are equal.
TLC checked its parts on the instance of `world` before they were proved.

What the calls owe to the readers is one relation between the storage before and after,
`Goes`: for every entity with a key afterwards, either its archetype's key column is
newer than the whole storage was before, or the entity had the same key before in a column
no newer than the one it is in now. Ticks of columns never go down (`Later`), so what
has to be shown of an operation is where its rows end up. An overwrite marks its column.
A migration marks the whole target; without the mark an untouched key would move into
a column that may look old. The row that a swap puts into the gap stays in its archetype. A
changeset writes held-back inserts before it marks their column (`FlushShows`), and until
then `Elsewhere` says that nothing else in the storage has changed. One lemma an
operation (`SpawnedGoes` to `AppliedGoes`) gives `Goes`, and `BecomesWatching` draws
`Watching` from it for all of them. A visit takes the archetypes newer than the read tick, and so
every entity that is `Ahead` (`Visited`; for the view `RefreshVisits`, through the flattened
walk); its new tick may therefore be the present.

`Removable \subseteq {Key}` is the hypothesis of these theorems because `World::remove` is the one
call without `Goes`: it marks nothing (observation 4), and taking another component than the key
moves an unshown key into a column that looks old. Taking the key itself leaves nothing to
show. `WatchedIsAScan` says that the view's plan asks for changed keys and nothing
else; a predicate would hide entities from the view that are then rightly not shown.

Some definitions changed for these proofs without changing what they model: folds became
named functions (`Written`, `Applying`, `Reserving`, `SparseCleaned`, `RowsCut`), updates
of a set of archetypes, slots or rows became functions over the whole (`MarkedAll`, `Rewritten`,
`DeallocAll`), `Driver` chooses among positions, and `DirectScan` leaves the rows alone when
there is no filter, like `execute_collect` (`exec.rs:255`).

### Only model-checked

* Liveness: `OrphansReclaimed`, `CallsEnd`, `CatchesUp`. The prover has no rules for
  fairness.
* `FlushedWorldRecovers`, `DeadStayDead`: they compare merges of pages from several runs with a
  reference, and have no theorem yet.
* `ReservationCoversApply`, `PlanAnswersScan`: exact equalities between two
  walks, over growth, peaks, joins and row batches; they stay with the instance.

## 5. What is left

Proofs worth having next: `DeadStayDead`, and the half of `PlanAnswersScan` that compares an
index lookup with a scan, which `Mirrors` and `UpToDate` are most of.

### Not modelled

* Byte formats, checksums and codecs: pure conversions, unit-tested and fuzzed.
* The planner's costs and warnings (they choose between plans of one answer),
  spatial indexes (supplied by the user), the streaming, batched and read-only
  executions (the same walks as `execute_collect`, with a callback), and the
  intersections of `scratch.rs`, which no built plan reaches.
* Registration and access analysis of reducers, dynamic reducers: type-level
  bookkeeping in front of the calls that are modelled. Retention: `get_mut` and
  `despawn_batch` in a loop.
* The saved image of an index (observation 5). Exhaustion of the pool inside
  world calls: `try_reserve` is what matters of it, and `SlabPool` has the rest.
* The arena of a changeset, drop functions and the layout of columns: memory
  safety that TLA+ does not see.
* Python bindings, observability, derive macros, benchmarks and examples.

The source files also hold their tests, about half of their lines, and the
modelled functions carry long comments; the mapped lines are the code that
changes state in the components above, not a share of the files.

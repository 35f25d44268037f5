------------------------------ MODULE LsmStore ------------------------------
(***************************************************************************)
(* The LSM baseline under a durable world: the dirty pages a checkpoint    *)
(* flushes into a sorted run (writer.rs), the manifest and its log         *)
(* (manifest.rs, manifest_log.rs, manifest_ops.rs), compaction             *)
(* (compactor.rs, compaction_writer.rs), the checkpoint that drives them   *)
(* (checkpoint.rs) and recovery (recovery.rs, recover.rs).                 *)
(*                                                                         *)
(* A world is rows of entities in archetypes.  A page is PageSize rows of  *)
(* one column; a run stores the pages that were dirty, and no others.      *)
(* Recovery puts pages of different runs together again, which is right    *)
(* only if they still describe the same rows.                              *)
(*                                                                         *)
(* The WAL is what module Wal guarantees of it: every committed operation, *)
(* in order.  Operation number n is applied by the n-th commit.            *)
(***************************************************************************)
EXTENDS Integers, FiniteSets, SequencesExt

CONSTANTS
  Archetypes,   \* sequence of signatures (sets of components), by archetype id
  Overwritten,  \* the archetypes whose components are written in place
  PageSize,     \* rows of a page
  Trigger,      \* COMPACTION_TRIGGER
  Levels,       \* levels of the manifest
  Slots,        \* bound: entity indices
  MaxOps, MaxTags, MaxFaults,  \* bounds
  EntityCol     \* the column of entity handles, ENTITY_SLOT

Arch == DOMAIN Archetypes
ASSUME LsmAssumption ==
  /\ {PageSize, Trigger, Levels} \subseteq Nat \ {0}
  /\ Archetypes \in Seq(Range(Archetypes))
  /\ \A n \in Arch : IsFiniteSet(Archetypes[n]) /\ EntityCol \notin Archetypes[n]
  /\ Overwritten \subseteq Arch
  /\ \A n \in Overwritten : (SUBSET Archetypes[n]) \ {{}} \subseteq Range(Archetypes)

VARIABLES
  world,     \* the live world, see EmptyWorld
  wal,       \* the committed operations
  acked,     \* last_checkpoint_seq
  files,     \* files[name]: the sorted runs on disk, name = [lo, hi, compact]
  temp,      \* a .run.tmp file was left behind
  log,       \* the entries of the manifest log up to write_pos
  ghost,     \* complete entries behind write_pos, of an append that failed
  manifest,  \* manifest[level]: the names of its runs, oldest first
  job,       \* where the checkpoint handler is, see Idle
  image,     \* history: image[hi], the world a run up to hi was flushed from
  displaced, \* history: pages of different runs no longer fit together
  lost,      \* history: a recovery did not place an entity the newest run was flushed with
  faults
vars == <<world, wal, acked, files, temp, log, ghost, manifest, job, image, displaced, lost, faults>>

-----------------------------------------------------------------------------
(* The world.  Entities are [gen, index]: their order is that of to_bits.  *)
EmptyWorld ==
  [rows |-> [n \in Arch |-> << >>],   \* [e, on]: the entity, the components set to 1
   gens |-> << >>, free |-> {},       \* the allocator, by index
   tags |-> {},                       \* entities with the sparse component
   dirty |-> {}]                      \* <<archetype, component, page>>

Page(row) == (row - 1) \div PageSize
Marked(n, row) == {<<n, c, Page(row)>> : c \in Archetypes[n]}

At(w) == {at \in Arch \X (1..Slots) : at[2] \in DOMAIN w.rows[at[1]]}
Placed(w) == {w.rows[at[1]][at[2]].e : at \in At(w)}
Where(w, e) == CHOOSE at \in At(w) : w.rows[at[1]][at[2]].e = e

(* BlobVec::push on every column of an archetype.                          *)
Pushed(w, n, row) ==
  [w EXCEPT !.rows[n] = Append(@, row), !.dirty = @ \cup Marked(n, Len(w.rows[n]) + 1)]

(* swap_remove: the last row moves into the hole; removing the last row    *)
(* marks nothing.                                                          *)
SwapRemoved(w, at) ==
  LET rows == w.rows[at[1]] IN
  IF at[2] = Len(rows) THEN [w EXCEPT !.rows[at[1]] = Front(@)]
  ELSE [w EXCEPT !.rows[at[1]] = ReplaceAt(Front(@), at[2], Last(rows)),
                 !.dirty = @ \cup Marked(at[1], at[2])]

Spawned(w, e, n) ==
  Pushed([w EXCEPT !.gens = IF e.index \in DOMAIN @ THEN @ ELSE Append(@, e.gen),
                   !.free = @ \ {e.index}],
         n, [e |-> e, on |-> {}])

Despawned(w, e) ==
  [SwapRemoved(w, Where(w, e)) EXCEPT
     !.gens[e.index] = @ + 1, !.free = @ \cup {e.index}, !.tags = @ \ {e}]

(* get_mut of one component, with a new value.                             *)
Set(w, e, c) ==
  LET at == Where(w, e)
      row == w.rows[at[1]][at[2]]
      toggled == IF c \in row.on THEN row.on \ {c} ELSE row.on \cup {c}
  IN [w EXCEPT !.rows[at[1]] = ReplaceAt(@, at[2], [row EXCEPT !.on = toggled]),
               !.dirty = @ \cup {<<at[1], c, Page(at[2])>>}]

(* Insertion or removal of a component moves the row.                      *)
Moved(w, e, n) ==
  LET at == Where(w, e)
      row == w.rows[at[1]][at[2]]
  IN SwapRemoved(Pushed(w, n, [row EXCEPT !.on = @ \cap Archetypes[n]]), at)

Tagged(w, e) == [w EXCEPT !.tags = IF e \in @ THEN @ \ {e} ELSE @ \cup {e}]

(* A logged operation and its effect, live or replayed.                    *)
Applied(w, op) ==
  CASE op.kind = "spawn"   -> Spawned(w, op.e, op.arg)
    [] op.kind = "despawn" -> Despawned(w, op.e)
    [] op.kind = "set"     -> Set(w, op.e, op.arg)
    [] op.kind = "move"    -> Moved(w, op.e, op.arg)
    [] op.kind = "tag"     -> Tagged(w, op.e)
Applies(w, op) == op.kind = "spawn" \/ op.e \in Placed(w)

Content(w) ==
  [rows |-> [e \in Placed(w) |-> LET at == Where(w, e) IN <<at[1], w.rows[at[1]][at[2]].on>>],
   gens |-> w.gens, tags |-> w.tags]

-----------------------------------------------------------------------------
(* writer.rs: flush.  The dirty pages that still have rows, a page of      *)
(* entities for each of them, the allocator and the sparse state.          *)
RowsOf(w, n, page) ==
  SubSeq(w.rows[n], page * PageSize + 1, Min({(page + 1) * PageSize, Len(w.rows[n])}))

WrittenPages(w) == {d \in w.dirty : d[3] * PageSize < Len(w.rows[d[1]])}

Flushed(w) ==
  LET written == WrittenPages(w)
      keys == written \cup {<<d[1], EntityCol, d[3]>> : d \in written}
  IN [pages |-> [k \in keys |->
        LET rows == RowsOf(w, k[1], k[3]) IN
        [i \in DOMAIN rows |-> IF k[2] = EntityCol THEN rows[i].e ELSE k[2] \in rows[i].on]],
      gens |-> w.gens, free |-> w.free, tags |-> w.tags]

NothingToFlush(w) == WrittenPages(w) = {} /\ w.tags = {}

(* A run knows the components of an archetype by the columns it stores.    *)
ArchIds(run) == {n \in Arch : \E k \in DOMAIN run.pages : k[1] = n}
Signature(run, n) == {k[2] : k \in {x \in DOMAIN run.pages : x[1] = n}} \ {EntityCol}
Signatures(run) == {Signature(run, n) : n \in ArchIds(run)}

-----------------------------------------------------------------------------
(* The manifest and its log.                                               *)
NoRuns == [l \in 0..(Levels - 1) |-> << >>]
Tracked(mf) == UNION {ToSet(mf[l]) : l \in DOMAIN mf}

(* The members of S among s, in the order of s.                            *)
KeptTo(s, S) ==
  LET kept[n \in 0..Len(s)] ==
        IF n = 0 THEN << >>
        ELSE IF s[n] \in S THEN Append(kept[n - 1], s[n]) ELSE kept[n - 1]
  IN kept
Kept(s, S) == KeptTo(s, S)[Len(s)]
Without(s, S) == Kept(s, ToSet(s) \ S)

(* apply_entry: AddRunAndSequence, and CompactionCommit with its inputs.   *)
AddRun(name) == [output |-> name, level |-> 0, inputs |-> {}]

AppliedEntry(mf, entry) ==
  [l \in DOMAIN mf |->
     (IF l = entry.level - 1 THEN Without(mf[l], entry.inputs) ELSE mf[l])
       \o (IF l = entry.level THEN <<entry.output>> ELSE << >>)]

(* The prefix that replay_frames keeps: up to the first entry that does    *)
(* not apply.                                                              *)
Replays(mf, entry) ==
  entry.level < Levels /\ (entry.inputs # {} => entry.inputs \subseteq ToSet(mf[entry.level - 1]))

ReplayedTo(entries) ==
  LET state[n \in 0..Len(entries)] ==
        IF n = 0 THEN [mf |-> NoRuns, ok |-> TRUE]
        ELSE LET s == state[n - 1] IN
             IF s.ok /\ Replays(s.mf, entries[n])
             THEN [mf |-> AppliedEntry(s.mf, entries[n]), ok |-> TRUE]
             ELSE [mf |-> s.mf, ok |-> FALSE]
  IN state
Replayed(entries) == ReplayedTo(entries)[Len(entries)].mf

-----------------------------------------------------------------------------
(* recovery.rs.  The pages of all tracked runs; store_page keeps for every *)
(* (signature, column, page) the one of the newest run.                    *)
Pages(mf) ==
  UNION {{[sig |-> Signature(files[name], k[1]), col |-> k[2], page |-> k[3],
           hi |-> name.hi, arch |-> k[1], data |-> files[name].pages[k]] :
            k \in DOMAIN files[name].pages} : name \in Tracked(mf)}

SameKey(p, q) == p.sig = q.sig /\ p.col = q.col /\ p.page = q.page
Newer(p, q) == p.hi > q.hi \/ (p.hi = q.hi /\ p.arch > q.arch)
Stored(pages) == {p \in pages : ~\E q \in pages : SameKey(p, q) /\ Newer(q, p)}

(* The order in which entity pages are placed: newest run first.           *)
Before(p, q) == p.hi > q.hi \/ (p.hi = q.hi /\ p.page < q.page)

NewestRun(mf) == CHOOSE name \in Tracked(mf) : \A o \in Tracked(mf) : o.hi <= name.hi
FlushSeq(mf) == IF Tracked(mf) = {} THEN 0 ELSE NewestRun(mf).hi

(* Mutant: the generation is not looked at.                                *)
IsLiveIndex(gens, e) == e.index \in DOMAIN gens

(* The dead-row filter: a row is placed if its entity is alive for the     *)
(* newest allocator and no page before it has placed it.                   *)
IsLive(gens, e) == e.index \in DOMAIN gens /\ gens[e.index] = e.gen

LiveRows(stored, gens, p) ==
  {i \in DOMAIN p.data :
     /\ IsLive(gens, p.data[i])
     /\ ~\E q \in stored : /\ q.col = EntityCol /\ Before(q, p)
                           /\ p.data[i] \in ToSet(q.data)}

Column(stored, p, c) == {q \in stored : q.sig = p.sig /\ q.col = c /\ q.page = p.page}

(* The rows that page p contributes to its archetype.                      *)
ImportedRows(stored, gens, p) ==
  LET live == SetToSortSeq(LiveRows(stored, gens, p), <)
      value(c, i) == (CHOOSE q \in Column(stored, p, c) : TRUE).data[i]
  IN [j \in DOMAIN live |-> [e |-> p.data[live[j]], on |-> {c \in p.sig : value(c, live[j])}]]

(* Every column of a page that has live rows must have as many rows.       *)
Importable(stored, gens, p) ==
  LiveRows(stored, gens, p) = {}
    \/ \A c \in p.sig : \E q \in Column(stored, p, c) : Len(q.data) = Len(p.data)

(* materialize_world and apply_sparse.                                     *)
Recovers(mf) ==
  \/ Tracked(mf) = {}
  \/ /\ Tracked(mf) \subseteq DOMAIN files
     /\ LET stored == Stored(Pages(mf)) IN
        \A p \in stored : p.col = EntityCol => Importable(stored, files[NewestRun(mf)].gens, p)

Recovered(mf) ==
  IF Tracked(mf) = {} THEN EmptyWorld
  ELSE LET run == files[NewestRun(mf)]
           stored == Stored(Pages(mf))
           import(w, p) ==
             LET n == CHOOSE m \in Arch : Archetypes[m] = p.sig IN
             [w EXCEPT !.rows[n] = @ \o ImportedRows(stored, run.gens, p)]
       IN FoldLeft(import,
                   [EmptyWorld EXCEPT !.gens = run.gens, !.free = run.free,
                                      !.tags = {e \in run.tags : IsLive(run.gens, e)}],
                   SetToSortSeq({p \in stored : p.col = EntityCol}, Before))

-----------------------------------------------------------------------------
(* compactor.rs.  find_compaction_candidate: the first level, and there    *)
(* the first signature, that the archetypes of its runs have Trigger       *)
(* times.  It opens every run of the levels it looks at, and a run that is *)
(* gone is an error.                                                       *)
Sharing(mf, l, sig) == Kept(mf[l], {name \in ToSet(mf[l]) : sig \in Signatures(files[name])})

Occurrences(mf, l, sig) ==
  {at \in ToSet(mf[l]) \X Arch :
     at[2] \in ArchIds(files[at[1]]) /\ Signature(files[at[1]], at[2]) = sig}

Candidates(mf) ==
  {c \in (0..(Levels - 2)) \X Range(Archetypes) :
     /\ Len(mf[c[1]]) >= Trigger /\ ToSet(mf[c[1]]) \subseteq DOMAIN files
     /\ Cardinality(Occurrences(mf, c[1], c[2])) >= Trigger}

CannotOpen(mf) ==
  \E l \in 0..(Levels - 2) :
    /\ Len(mf[l]) >= Trigger /\ ~(ToSet(mf[l]) \subseteq DOMAIN files)
    /\ \A c \in Candidates(mf) : l < c[1]

FirstArch(name, sig) == Min({n \in ArchIds(files[name]) : Signature(files[name], n) = sig})

(* Groups come in the order in which their first run and archetype do.     *)
Earlier(mf, c, d) ==
  LET first(x) == Sharing(mf, x[1], x[2])[1]
      pos(x) == CHOOSE i \in DOMAIN mf[x[1]] : mf[x[1]][i] = first(x)
  IN \/ c[1] < d[1]
     \/ c[1] = d[1] /\ pos(c) < pos(d)
     \/ c[1] = d[1] /\ pos(c) = pos(d) /\ FirstArch(first(c), c[2]) <= FirstArch(first(d), d[2])

Candidate(mf) == CHOOSE c \in Candidates(mf) : \A d \in Candidates(mf) : Earlier(mf, c, d)

(* merge_entity_images: of every entity the image in the newest input; in  *)
(* each input one archetype per signature is looked at.                    *)
ImagesIn(name) ==
  LET run == files[name]
      keys == {k \in DOMAIN run.pages : k[2] = EntityCol /\ k[1] = FirstArch(name, Signature(run, k[1]))}
  IN UNION {{[e |-> run.pages[k][i], name |-> name, arch |-> k[1], page |-> k[3], row |-> i,
              sig |-> Signature(run, k[1])] : i \in DOMAIN run.pages[k]} : k \in keys}

(* Mutant: the oldest image wins.                                          *)
MergedImagesOldest(inputs) ==
  LET all == UNION {ImagesIn(name) : name \in inputs} IN
  {m \in all : ~\E o \in all : o.e = m.e /\ o.name.hi < m.name.hi}

MergedImages(inputs) ==
  LET all == UNION {ImagesIn(name) : name \in inputs} IN
  {m \in all : ~\E o \in all : o.e = m.e /\ o.name.hi > m.name.hi}

(* The write loop finds every column of every row, or fails.               *)
Source(m, c) == <<m.arch, c, m.page>>
Mergeable(inputs) ==
  LET ms == MergedImages(inputs) IN
  /\ ms # {}
  /\ \A m \in ms : \A c \in m.sig :
       Source(m, c) \in DOMAIN files[m.name].pages /\ m.row <= Len(files[m.name].pages[Source(m, c)])

EntityOrder(m, o) == m.e.gen < o.e.gen \/ (m.e.gen = o.e.gen /\ m.e.index < o.e.index)

(* The output: rows by entity, cut into pages anew; the allocator and the  *)
(* sparse state of the newest input.                                       *)
NewestOf(inputs) == CHOOSE name \in inputs : \A o \in inputs : o.hi <= name.hi
SpanOf(inputs) == [lo |-> Min({name.lo : name \in inputs}), hi |-> NewestOf(inputs).hi, compact |-> TRUE]

Merged(inputs) ==
  LET images == MergedImages(inputs)
      emit == [n \in Arch |-> SetToSortSeq({m \in images : m.sig = Archetypes[n]}, EntityOrder)]
      keys == {k \in UNION {{n} \X (Archetypes[n] \cup {EntityCol}) \X (0..Page(Len(emit[n]))) : n \in Arch} :
                 emit[k[1]] # << >>}
      rows(k) == SubSeq(emit[k[1]], k[3] * PageSize + 1, Min({(k[3] + 1) * PageSize, Len(emit[k[1]])}))
  IN [pages |-> [k \in keys |-> LET ms == rows(k) IN
        [i \in DOMAIN ms |-> IF k[2] = EntityCol THEN ms[i].e
                             ELSE files[ms[i].name].pages[Source(ms[i], k[2])][ms[i].row]]],
      gens |-> files[NewestOf(inputs)].gens, free |-> files[NewestOf(inputs)].free,
      tags |-> files[NewestOf(inputs)].tags]

-----------------------------------------------------------------------------
Idle(hi) == [at |-> "idle", hi |-> hi, entry |-> AddRun([lo |-> 0, hi |-> 0, compact |-> FALSE]), todo |-> << >>]

Init ==
  /\ world = EmptyWorld /\ wal = << >> /\ acked = 0
  /\ files = << >> /\ temp = FALSE
  /\ log = << >> /\ ghost = << >> /\ manifest = NoRuns
  /\ job = Idle(0) /\ image = [n \in {0} |-> EmptyWorld] /\ displaced = FALSE
  /\ lost = FALSE /\ faults = 0

(* f with y at x.                                                          *)
With(f, x, y) == [z \in DOMAIN f \cup {x} |-> IF z = x THEN y ELSE f[z]]

Fault == faults < MaxFaults /\ faults' = faults + 1
lsmVars == <<files, temp, log, ghost, manifest, image, displaced, lost>>

(* A commit: logged, then applied.  The checkpoint handler holds the world *)
(* exclusively.                                                            *)
Commit(op) ==
  /\ job.at = "idle" /\ Len(wal) < MaxOps
  /\ wal' = Append(wal, op)
  /\ world' = Applied(world, op)
  /\ UNCHANGED <<acked, lsmVars, job, faults>>

Spawn ==
  \E n \in Arch, index \in world.free \cup {Len(world.gens) + 1} :
    /\ index <= Slots
    /\ Commit([kind |-> "spawn", arg |-> n,
               e |-> [gen |-> IF index \in world.free THEN world.gens[index] ELSE 0, index |-> index]])
Despawn == \E e \in Placed(world) : Commit([kind |-> "despawn", e |-> e, arg |-> 0])
Write ==
  \E e \in Placed(world) :
    LET n == Where(world, e)[1] IN
    n \in Overwritten /\ \E c \in Archetypes[n] : Commit([kind |-> "set", e |-> e, arg |-> c])
Migrate ==
  \E e \in Placed(world), n \in Arch :
    LET sig == Archetypes[Where(world, e)[1]] IN
    /\ Cardinality((sig \ Archetypes[n]) \cup (Archetypes[n] \ sig)) = 1
    /\ Commit([kind |-> "move", e |-> e, arg |-> n])
Tag ==
  /\ Len(SelectSeq(wal, LAMBDA op : op.kind = "tag")) < MaxTags
  /\ \E e \in Placed(world) : Commit([kind |-> "tag", e |-> e, arg |-> 0])

-----------------------------------------------------------------------------
(* AutoCheckpoint::on_checkpoint_needed, at most once after a commit.      *)
Checkpoint ==
  /\ job.at = "idle" /\ job.hi < Len(wal)
  /\ LET name == [lo |-> acked, hi |-> Len(wal), compact |-> FALSE] IN
     IF NothingToFlush(world)
     THEN job' = [Idle(Len(wal)) EXCEPT !.at = "recorded"] /\ UNCHANGED temp
     ELSE /\ job' = [Idle(Len(wal)) EXCEPT !.at = "written", !.entry = AddRun(name)]
          /\ temp' = TRUE
  /\ UNCHANGED <<world, wal, acked, files, log, ghost, manifest, image, displaced, lost, faults>>

FlushRename ==
  /\ job.at = "written"
  /\ files' = With(files, job.entry.output, Flushed(world))
  /\ image' = With(image, job.hi, world)
  /\ temp' = FALSE
  /\ job' = [job EXCEPT !.at = "renamed"]
  /\ UNCHANGED <<world, wal, acked, log, ghost, manifest, displaced, lost, faults>>

FlushFails ==
  /\ job.at = "written" /\ Fault
  /\ temp' = FALSE
  /\ job' = Idle(job.hi)
  /\ UNCHANGED <<world, wal, acked, files, log, ghost, manifest, image, displaced, lost>>

(* ManifestLog::append, then the mirror in memory.                         *)
Appended ==
  /\ log' = Append(log, job.entry)
  /\ ghost' = << >>
  /\ manifest' = AppliedEntry(manifest, job.entry)

(* The frame was written in part, or in full and not synchronized; the     *)
(* next append starts at the same position.                                *)
AppendFails ==
  /\ Fault
  /\ ghost' \in {<< >>, <<job.entry>>}
  /\ job' = Idle(job.hi)
  /\ UNCHANGED <<world, wal, acked, files, temp, log, manifest, image, displaced, lost>>

Record ==
  /\ job.at = "renamed"
  /\ Appended
  /\ job' = [job EXCEPT !.at = "recorded"]
  /\ UNCHANGED <<world, wal, acked, files, temp, image, displaced, lost, faults>>

RecordFails == job.at = "renamed" /\ AppendFails

ClearDirty ==
  /\ job.at = "recorded"
  /\ world' = [world EXCEPT !.dirty = {}]
  /\ job' = [job EXCEPT !.at = "compacting"]
  /\ UNCHANGED <<wal, acked, lsmVars, faults>>

-----------------------------------------------------------------------------
Compacts == Len(manifest[0]) >= Trigger /\ (CannotOpen(manifest) \/ Candidates(manifest) # {})
Inputs == LET c == Candidate(manifest) IN ToSet(Sharing(manifest, c[1], c[2]))
CanMerge == ~CannotOpen(manifest) /\ Mergeable(Inputs)

(* History: the merged run is not a page for page image of what the other  *)
(* runs and the world mean by these pages.                                 *)
Displaces(inputs) ==
  \/ inputs # Tracked(manifest)
  \/ \E k \in DOMAIN Merged(inputs).pages : k[3] > 0

(* Mutant: the inputs are deleted before the manifest log says so.         *)
CompactWriteDeletes ==
  /\ job.at = "compacting" /\ Compacts /\ CanMerge
  /\ files' = [n \in (DOMAIN files \ Inputs) \cup {SpanOf(Inputs)} |->
                 IF n = SpanOf(Inputs) THEN Merged(Inputs) ELSE files[n]]
  /\ job' = [job EXCEPT !.at = "merged",
               !.entry = [output |-> SpanOf(Inputs), level |-> Candidate(manifest)[1] + 1, inputs |-> Inputs]]
  /\ displaced' = (displaced \/ Displaces(Inputs))
  /\ UNCHANGED <<world, wal, acked, temp, log, ghost, manifest, image, lost, faults>>

CompactWrite ==
  /\ job.at = "compacting" /\ Compacts /\ CanMerge
  /\ files' = With(files, SpanOf(Inputs), Merged(Inputs))
  /\ job' = [job EXCEPT !.at = "merged",
               !.entry = [output |-> SpanOf(Inputs), level |-> Candidate(manifest)[1] + 1, inputs |-> Inputs]]
  /\ displaced' = (displaced \/ Displaces(Inputs))
  /\ UNCHANGED <<world, wal, acked, temp, log, ghost, manifest, image, lost, faults>>

CompactFails ==
  /\ job.at = "compacting" /\ Compacts
  /\ \/ ~CanMerge /\ UNCHANGED faults
     \/ Fault
  /\ job' = Idle(job.hi)
  /\ UNCHANGED <<world, wal, acked, lsmVars>>

CompactCommit ==
  /\ job.at = "merged"
  /\ Appended
  /\ job' = [job EXCEPT !.at = "deleting",
               !.todo = Kept(manifest[job.entry.level - 1], job.entry.inputs)]
  /\ UNCHANGED <<world, wal, acked, files, temp, image, displaced, lost, faults>>

CompactCommitFails == job.at = "merged" /\ AppendFails

(* Inputs are deleted one by one; an error leaves the file behind.         *)
DeleteInput ==
  /\ job.at = "deleting" /\ job.todo # << >>
  /\ \/ files' = [n \in DOMAIN files \ {Head(job.todo)} |-> files[n]] /\ UNCHANGED faults
     \/ Fault /\ UNCHANGED files
  /\ job' = [job EXCEPT !.todo = Tail(@)]
  /\ UNCHANGED <<world, wal, acked, temp, log, ghost, manifest, image, displaced, lost>>

CompactDone ==
  /\ job.at = "deleting" /\ job.todo = << >>
  /\ job' = [job EXCEPT !.at = "compacting"]
  /\ UNCHANGED <<world, wal, acked, lsmVars, faults>>

(* acknowledge_flush.                                                      *)
Acknowledge ==
  /\ job.at = "compacting" /\ ~Compacts
  /\ \/ acked' = job.hi /\ UNCHANGED faults
     \/ Fault /\ UNCHANGED acked
  /\ job' = Idle(job.hi)
  /\ UNCHANGED <<world, wal, lsmVars>>

-----------------------------------------------------------------------------
(* The process dies; a frame under way may have reached the file.          *)
Crash ==
  /\ job.at # "down" /\ Fault
  /\ ghost' \in {<< >>, ghost} \cup (IF job.at \in {"renamed", "merged"} THEN {<<job.entry>>} ELSE {})
  /\ job' = [Idle(job.hi) EXCEPT !.at = "down"]
  /\ world' = EmptyWorld /\ manifest' = NoRuns
  /\ UNCHANGED <<wal, acked, files, temp, log, image, displaced, lost>>

(* recover_world: the manifest from the log, the orphans deleted, the      *)
(* baseline from the runs, and the WAL from the newest run's seq_hi on.    *)
OnDisk == Replayed(log \o ghost)
Tail_(mf) == SubSeq(wal, FlushSeq(mf) + 1, Len(wal))

ReplayedWal(base, ops) ==
  LET state[n \in 0..Len(ops)] ==
        IF n = 0 THEN base
        ELSE LET w == state[n - 1] IN IF Applies(w, ops[n]) THEN Applied(w, ops[n]) ELSE w
  IN state[Len(ops)]

(* History: recovery put the rows of an archetype on other pages than the  *)
(* runs have them on, and marked none of them dirty.                       *)
Shifted(base, flushed) ==
  \E n \in Arch : base.rows[n] # flushed.rows[n] /\ Len(base.rows[n]) > PageSize

Restart ==
  /\ job.at = "down" /\ Recovers(OnDisk)
  /\ LET base == Recovered(OnDisk) IN
     /\ world' = ReplayedWal(base, Tail_(OnDisk))
     /\ displaced' = (displaced \/ Shifted(base, image[FlushSeq(OnDisk)]))
     /\ lost' = (lost \/ Placed(base) # Placed(image[FlushSeq(OnDisk)]))
  /\ manifest' = OnDisk
  /\ log' = log \o ghost /\ ghost' = << >>
  /\ files' = [n \in DOMAIN files \cap Tracked(OnDisk) |-> files[n]]
  /\ temp' = FALSE
  /\ job' = [job EXCEPT !.at = "idle"]
  /\ UNCHANGED <<wal, acked, image, faults>>

Next ==
  \/ Spawn \/ Despawn \/ Write \/ Migrate \/ Tag
  \/ Checkpoint \/ FlushRename \/ FlushFails \/ Record \/ RecordFails \/ ClearDirty
  \/ CompactWrite \/ CompactFails \/ CompactCommit \/ CompactCommitFails
  \/ DeleteInput \/ CompactDone \/ Acknowledge
  \/ Crash \/ Restart

Spec == Init /\ [][Next]_vars

-----------------------------------------------------------------------------
(* The manifests a restart may find: without the frame of an append that   *)
(* failed, or with it.                                                     *)
Manifests == {Replayed(log), OnDisk}

(* Whatever point a checkpoint or a compaction is stopped at, the tracked  *)
(* runs give back the world that the newest of them was flushed from:      *)
(* rows, component values, allocator and sparse components.  The WAL is    *)
(* replayed from there on, so a difference is lost for good.               *)
RecoversSnapshot ==
  \A mf \in Manifests :
    /\ Recovers(mf)
    /\ Content(Recovered(mf)) = Content(image[FlushSeq(mf)])

(* The same while all runs agree on which rows make up a page: until a     *)
(* compaction leaves a run out or writes a second page of an archetype, or *)
(* recovery puts the rows of an archetype on other pages (materialize_     *)
(* world, newest page first).                                              *)
FlushedWorldRecovers == ~displaced => RecoversSnapshot

(* Recovery never brings back an entity: even when it loses rows, every    *)
(* entity it places was alive, with that generation, in the world that was *)
(* flushed last, although older runs still hold rows of the dead and of    *)
(* slots since recycled (the dead-row filter of materialize_world).  This  *)
(* is for the first recovery that loses a row: the ones after it may place *)
(* the row again, once a compaction has removed the page that hid it.      *)
DeadStayDead ==
  ~lost => \A mf \in Manifests : Recovers(mf) =>
    LET w == Recovered(mf) IN
    /\ w.gens = image[FlushSeq(mf)].gens
    /\ Placed(w) \subseteq Placed(image[FlushSeq(mf)])

(* A compaction whose output has the file name of one of its inputs: the   *)
(* name is made of the span of the inputs, and the newest of them may have *)
(* that span itself (make_output_path).                                    *)
NameReused == \E n \in DOMAIN log : log[n].output \in log[n].inputs

(* The manifest in memory is the one its log replays to, and every run a   *)
(* restart may find tracked is on disk, between any two steps of a flush,  *)
(* a compaction, the deletion of its inputs, a failed append and the       *)
(* removal of orphans; unless a name was reused, for then the output is    *)
(* deleted as an input.                                                    *)
ManifestIsDurable ==
  /\ job.at # "down" => manifest = Replayed(log)
  /\ ~NameReused => \A mf \in Manifests : Tracked(mf) \subseteq DOMAIN files
=============================================================================

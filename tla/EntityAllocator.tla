--------------------------- MODULE EntityAllocator ---------------------------
(***************************************************************************)
(* Entity handles, from the slot they are cut from to their recovery after *)
(* a crash:                                                                *)
(*   - EntityAllocator (entity.rs): generations, free list and the atomic  *)
(*     next_reserved that Spawner and DynamicCtx reserve from through      *)
(*     &World, on several threads;                                         *)
(*   - the handles a transaction allocates, which become placed when it    *)
(*     commits and orphans when it is dropped (Tx in transaction.rs);      *)
(*   - the orphan queue, its flag, and World::drain_orphans, which every   *)
(*     &mut World entry point runs first (world.rs);                       *)
(*   - the allocator state a checkpoint stores, the committed spawns and   *)
(*     despawns logged after it, and their replay into the restored world  *)
(*     (changeset.rs apply_replay, minkowski-lsm recovery.rs).             *)
(*                                                                         *)
(* A handle is <<index, generation>>.  What one &mut World call does is    *)
(* atomic with respect to other users of the world; the drop of a Tx is    *)
(* not, because Tx is Send and holds no borrow of the world.               *)
(***************************************************************************)
EXTENDS FreeList

CONSTANTS
  Txs,      \* transaction handles
  MaxGen,   \* bound: a slot is recycled at most this often
  MaxSaves  \* bound: checkpoints taken

VARIABLES
  al,         \* the allocator: [generations, free, next_reserved]
  placed,     \* indices with a row: entity_locations[i] is Some
  allocated,  \* allocated[t]: the handles Tx t allocated, in order
  loaded,     \* loaded[t]: `current' of t's reserve() between load and CAS, or None
  dropStage,  \* dropStage[t]: steps of Tx::drop already done (0: not dropping)
  orphans,    \* the orphan queue
  has_items,  \* its flag
  stage,      \* where the running &mut World call is: see WorldStages
  issued,     \* history: handles handed out, less those that died with a crash
  committed,  \* history: handles of committed spawns, which outlive a crash
  leaked,     \* live slots of the restored state that no row and no Tx owns
  saved,      \* what the last checkpoint stored, or None
  saves,      \* number of checkpoints taken
  log,        \* committed records since that checkpoint
  replay,     \* records still to replay after a crash, or None while running
  rejected    \* a replayed spawn was refused: recovery ended in an error

worldVars == <<al, placed, issued, leaked, committed>>
txVars == <<allocated, loaded, dropStage>>
queueVars == <<orphans, has_items>>
diskVars == <<saved, saves, log>>
recoveryVars == <<replay, rejected>>
vars == <<worldVars, txVars, queueVars, stage, diskVars, recoveryVars>>

(* check, locked, clear: inside drain_orphans, about to test the flag, to   *)
(* drain the queue, to clear the flag (holding the queue's lock).  op:     *)
(* drained, about to do what the call is for.                              *)
CallStages == {"idle", "check", "locked", "clear", "op"}

(* ended: alloc has handed out the tombstone as an index.  Bound: the model *)
(* follows the program no further than the drops of the transactions that   *)
(* are open and the end of the process.                                     *)
WorldStages == CallStages \cup {"ended"}

(* An index is a u32; the ones that are no tombstone are the index space.   *)
Indices == 0 .. REMOVED - 1
Handles == (0 .. REMOVED) \X (0 .. MaxGen)

(* What a commit logs, and what a checkpoint stores.                       *)
LogRecords == [op : {"spawn", "despawn"}, handles : Seq(Handles)]
SavedStates == [generations : Seq(0 .. MaxGen), free : Seq(0 .. REMOVED),
                placed : SUBSET Indices, unplaced : SUBSET Indices]

ASSUME EntityAllocatorAssumption ==
  /\ MaxGen \in Nat \ {0} /\ MaxSaves \in Nat
  /\ None \notin Seq(LogRecords) /\ None \notin SavedStates

-----------------------------------------------------------------------------
(* The allocator's operations, as functions of its state.                  *)

Slots(a) == Len(a.generations)
GenOf(a, i) == a.generations[i + 1]

Resized(generations, len) ==
  [p \in 1 .. len |-> IF p <= Len(generations) THEN generations[p] ELSE 0]

(* Mutant: materialize_reserved forgets B3.                                *)
MaterializeNoReserve(a) ==
  IF Slots(a) < a.next_reserved
  THEN [a EXCEPT !.generations = Resized(@, a.next_reserved)]
  ELSE a

Materialize(a) ==
  IF Slots(a) < a.next_reserved
  THEN [a EXCEPT !.generations = Resized(@, a.next_reserved),
                 !.free = ReserveTotal(@, a.next_reserved)]
  ELSE a

(* `index + 1' of a u32, as a release build computes it.  (A debug build    *)
(* panics instead, with the slot already pushed: the process ends.)         *)
NextIndex(i) == (i + 1) % (REMOVED + 1)

(* alloc: recycle the top of the free list, or open a slot.  Nothing stops  *)
(* it from opening slot u32::MAX.                                           *)
Alloc(a0) ==
  LET a == Materialize(a0)
      popped == Pop(a.free)
      i == Slots(a)
  IN  IF popped.index # None
      THEN [handle |-> <<popped.index, GenOf(a, popped.index)>>,
            al |-> [a EXCEPT !.free = popped.list]]
      ELSE [handle |-> <<i, 0>>,
            al |-> [generations |-> Append(a.generations, 0),
                    free |-> ReserveTotal(popped.list, i + 1),
                    next_reserved |-> NextIndex(i)]]

IsAlive(a, e) == e[1] < Slots(a) /\ GenOf(a, e[1]) = e[2]

(* Mutant: the slot is freed with its old generation.                      *)
DeallocSameGeneration(a, e) ==
  IF IsAlive(a, e) THEN [a EXCEPT !.free = Push(@, e[1])] ELSE a

Dealloc(a, e) ==
  IF IsAlive(a, e)
  THEN [a EXCEPT !.generations[e[1] + 1] = @ + 1, !.free = Push(@, e[1])]
  ELSE a

(* The allocator after each of the handles in es, in order.                *)
Deallocs(a, es) ==
  LET after[n \in 0 .. Len(es)] == IF n = 0 THEN a ELSE Dealloc(after[n - 1], es[n])
  IN  after

DeallocAll(a, es) == Deallocs(a, es)[Len(es)]

SyncReserved(a) ==
  [a EXCEPT !.next_reserved = IF @ < Slots(a) THEN Slots(a) ELSE @]

(* Mutant: would_adopt ignores the indices materialize_reserved would add. *)
WouldAdoptNoReserved(a, e) ==
  IF e[1] >= Slots(a) THEN e[1] # REMOVED
  ELSE /\ GenOf(a, e[1]) <= e[2]
       /\ ContainsIndex(a.free, e[1]) \/ GenOf(a, e[1]) = e[2]

(* would_adopt: the preflight of try_reserve for a replayed spawn.         *)
WouldAdopt(a, e) ==
  /\ e[1] # REMOVED
  /\ \/ e[1] >= Slots(a) /\ e[1] >= a.next_reserved
     \/ e[1] >= Slots(a) /\ e[1] < a.next_reserved /\ e[2] = 0
     \/ /\ e[1] < Slots(a)
        /\ GenOf(a, e[1]) <= e[2]
        /\ ContainsIndex(a.free, e[1]) \/ GenOf(a, e[1]) = e[2]

(* adopt: claim the slot of a logged spawn, or refuse.                     *)
AdoptExisting(a, e) ==
  LET removed == RemoveIndex(a.free, e[1])
  IN  IF GenOf(a, e[1]) > e[2] THEN [ok |-> FALSE, al |-> a]
      ELSE IF removed.found
      THEN [ok |-> TRUE,
            al |-> [a EXCEPT !.free = removed.list, !.generations[e[1] + 1] = e[2]]]
      ELSE [ok |-> GenOf(a, e[1]) = e[2], al |-> [a EXCEPT !.free = removed.list]]

(* Mutant: the slots skipped by the log are not given to the free list.    *)
AdoptFreshNoHoles(a, e) ==
  [ok |-> TRUE,
   al |-> SyncReserved(
            [a EXCEPT !.generations = Append(Resized(@, e[1]), e[2]),
                      !.free = ReserveTotal(@, e[1] + 1)])]

(* The slots from first on are pushed, in ascending order.                 *)
Pushes(fl, first, count) ==
  LET after[n \in 0 .. count] == IF n = 0 THEN fl ELSE Push(after[n - 1], first + n - 1)
  IN  after

(* The holes below a fresh slot become free.                               *)
AdoptFresh(a, e) ==
  LET holes == e[1] - Slots(a)
  IN  [ok |-> TRUE,
       al |-> SyncReserved(
                [a EXCEPT !.generations = Append(Resized(@, e[1]), e[2]),
                          !.free = Pushes(ReserveTotal(@, e[1] + 1), Slots(a), holes)[holes]])]

Adopt(a0, e) ==
  LET a == Materialize(a0)
  IN  CASE e[1] = REMOVED -> [ok |-> FALSE, al |-> a0]
        [] e[1] < Slots(a) -> AdoptExisting(a, e)
        [] OTHER -> AdoptFresh(a, e)

EmptyAllocator == [generations |-> <<>>, free |-> EmptyFreeList, next_reserved |-> 0]

(* try_restore_allocator_state into a fresh world.                         *)
Restore(s) ==
  SyncReserved(
    [generations |-> s.generations,
     free |-> Assign(ReserveTotal(EmptyFreeList, Len(s.generations)), s.free),
     next_reserved |-> 0])

-----------------------------------------------------------------------------
Running == replay = None

Init ==
  /\ al = EmptyAllocator
  /\ placed = {}
  /\ issued = {}
  /\ committed = {}
  /\ leaked = {}
  /\ allocated = [t \in Txs |-> <<>>]
  /\ loaded = [t \in Txs |-> None]
  /\ dropStage = [t \in Txs |-> 0]
  /\ orphans = <<>>
  /\ has_items = FALSE
  /\ stage = "idle"
  /\ saved = None
  /\ saves = 0
  /\ log = <<>>
  /\ replay = None
  /\ rejected = FALSE

(* A borrow of the world: &World readers and &mut World calls exclude each *)
(* other, and two &mut World calls do too.                                 *)
NoMutBorrow == stage = "idle"
NoSharedBorrow == \A t \in Txs : loaded[t] = None

(* Mutant: the assert on the index space is missing.                       *)
ReserveLoadUnchecked(t) ==
  /\ Running /\ NoMutBorrow
  /\ dropStage[t] = 0 /\ loaded[t] = None
  /\ loaded' = [loaded EXCEPT ![t] = al.next_reserved]
  /\ UNCHANGED <<worldVars, allocated, dropStage, queueVars, stage, diskVars, recoveryVars>>

(* reserve(), first half: load next_reserved.  The guard is the assert on  *)
(* the index space.                                                        *)
ReserveLoad(t) ==
  /\ Running /\ NoMutBorrow
  /\ dropStage[t] = 0 /\ loaded[t] = None
  /\ al.next_reserved < REMOVED
  /\ loaded' = [loaded EXCEPT ![t] = al.next_reserved]
  /\ UNCHANGED <<worldVars, allocated, dropStage, queueVars, stage, diskVars, recoveryVars>>

(* Mutant: a store where the compare-exchange is.                          *)
CasSucceedsAlways(t) == TRUE

CasSucceeds(t) == al.next_reserved = loaded[t]

(* reserve(), second half: the compare-exchange.  On failure the loop      *)
(* retries with the value it saw, unless the assert now fails (a panic).   *)
ReserveCas(t) ==
  /\ loaded[t] # None
  /\ IF CasSucceeds(t)
     THEN /\ al' = [al EXCEPT !.next_reserved = loaded[t] + 1]
          /\ allocated' = [allocated EXCEPT ![t] = Append(@, <<loaded[t], 0>>)]
          /\ issued' = issued \cup {<<loaded[t], 0>>}
          /\ loaded' = [loaded EXCEPT ![t] = None]
     ELSE /\ loaded' = [loaded EXCEPT
               ![t] = IF al.next_reserved < REMOVED THEN al.next_reserved ELSE None]
          /\ UNCHANGED <<al, allocated, issued>>
  /\ UNCHANGED <<placed, leaked, committed, dropStage, queueVars, stage, diskVars, recoveryVars>>

(* A &mut World entry point starts: drain_orphans materializes first.      *)
EnterWorld ==
  /\ Running /\ NoMutBorrow /\ NoSharedBorrow
  /\ al' = Materialize(al)
  /\ stage' = "check"
  /\ UNCHANGED <<placed, issued, leaked, committed, txVars, queueVars, diskVars, recoveryVars>>

CheckFlag ==
  /\ stage = "check"
  /\ stage' = IF has_items THEN "locked" ELSE "op"
  /\ UNCHANGED <<worldVars, txVars, queueVars, diskVars, recoveryVars>>

DrainQueue ==
  /\ stage = "locked"
  /\ al' = DeallocAll(al, orphans)
  /\ orphans' = <<>>
  /\ stage' = "clear"
  /\ UNCHANGED <<placed, issued, leaked, committed, txVars, has_items, diskVars, recoveryVars>>

(* Mutant: drain_orphans unlocks the queue before it clears the flag.      *)
QueueUnlockedEarly == FALSE

(* The queue's mutex is held from the drain to the clearing of the flag.   *)
QueueLocked == stage = "clear"

ClearFlag ==
  /\ stage = "clear"
  /\ has_items' = FALSE
  /\ stage' = "op"
  /\ UNCHANGED <<worldVars, txVars, orphans, diskVars, recoveryVars>>

(* Tx::spawn: alloc_entity, and the handle joins tx.allocated.  MaxGen      *)
(* bounds the recycling; the index is not checked.                          *)
TxSpawn(t) ==
  LET r == Alloc(al)
  IN  /\ stage = "op"
      /\ dropStage[t] = 0
      /\ r.handle[2] < MaxGen
      /\ al' = r.al
      /\ allocated' = [allocated EXCEPT ![t] = Append(@, r.handle)]
      /\ issued' = issued \cup {r.handle}
      /\ stage' = IF r.handle[1] = REMOVED THEN "ended" ELSE "idle"
      /\ UNCHANGED <<placed, leaked, committed, loaded, dropStage, queueVars, diskVars, recoveryVars>>

(* A durable transaction that despawns a placed entity: logged, applied.   *)
Despawn(e) ==
  /\ stage = "op"
  /\ IsAlive(al, e) /\ e[1] \in placed
  /\ al' = Dealloc(al, e)
  /\ placed' = placed \ {e[1]}
  /\ log' = Append(log, [op |-> "despawn", handles |-> <<e>>])
  /\ stage' = "idle"
  /\ UNCHANGED <<issued, leaked, committed, txVars, queueVars, saved, saves, recoveryVars>>

(* Any other &mut World call: a query, insert, get_mut, ...                *)
OtherCall ==
  /\ stage = "op"
  /\ stage' = "idle"
  /\ UNCHANGED <<worldVars, txVars, queueVars, diskVars, recoveryVars>>

IndicesOf(es) == {es[k][1] : k \in DOMAIN es}

(* Mutant: mark_committed does not clear tx.allocated.                     *)
CommitKeepsAllocated(t) ==
  /\ Running /\ NoMutBorrow /\ NoSharedBorrow
  /\ dropStage[t] = 0 /\ allocated[t] # <<>>
  /\ al' = Materialize(al)
  /\ placed' = placed \cup IndicesOf(allocated[t])
  /\ log' = Append(log, [op |-> "spawn", handles |-> allocated[t]])
  /\ committed' = committed \cup Range(allocated[t])
  /\ UNCHANGED <<issued, leaked, txVars, queueVars, stage, saved, saves, recoveryVars>>

(* The transaction commits: WAL append, mark_committed, apply.             *)
Commit(t) ==
  /\ Running /\ NoMutBorrow /\ NoSharedBorrow
  /\ dropStage[t] = 0 /\ allocated[t] # <<>>
  /\ al' = Materialize(al)
  /\ placed' = placed \cup IndicesOf(allocated[t])
  /\ log' = Append(log, [op |-> "spawn", handles |-> allocated[t]])
  /\ committed' = committed \cup Range(allocated[t])
  /\ allocated' = [allocated EXCEPT ![t] = <<>>]
  /\ UNCHANGED <<issued, leaked, loaded, dropStage, queueVars, stage, saved, saves,
                 recoveryVars>>

(* Mutant: the flag is raised before the handles are queued.               *)
DropOrderSwapped == <<"flag", "push">>

(* Tx::drop without commit: queue the handles, then raise the flag.        *)
DropOrder == <<"push", "flag">>

DropStep(t) ==
  /\ loaded[t] = None
  /\ dropStage[t] = 0 => allocated[t] # <<>>
  /\ \/ /\ DropOrder[dropStage[t] + 1] = "push"
        /\ ~QueueLocked
        /\ orphans' = orphans \o allocated[t]
        /\ allocated' = [allocated EXCEPT ![t] = <<>>]
        /\ UNCHANGED has_items
     \/ /\ DropOrder[dropStage[t] + 1] = "flag"
        /\ has_items' = TRUE
        /\ UNCHANGED <<orphans, allocated>>
  /\ dropStage' = [dropStage EXCEPT ![t] = (@ + 1) % Len(DropOrder)]
  /\ UNCHANGED <<worldVars, loaded, stage, diskVars, recoveryVars>>

(* Live slots that hold no row: what a checkpoint stores as occupied       *)
(* although nothing but a Tx or the orphan queue owns it.                  *)
Unplaced(a, rows) ==
  {i \in 0 .. Slots(a) - 1 : i \notin rows /\ i \notin Range(Live(a.free.slots))}

(* A row was spawned since the last checkpoint: some page is dirty.        *)
SomethingDirty ==
  \E k \in DOMAIN log : log[k].op = "spawn" /\ \E e \in Range(log[k].handles) :
                          IsAlive(al, e) /\ e[1] \in placed

(* A checkpoint: flush stores entity_allocator_state() and the rows, and   *)
(* recovery replays the log from here.  The orphan queue is not drained.   *)
Checkpoint ==
  /\ Running /\ NoMutBorrow /\ NoSharedBorrow
  /\ SomethingDirty
  /\ saves < MaxSaves
  /\ saves' = saves + 1
  /\ saved' = [generations |-> al.generations, free |-> AsSlice(al.free),
               placed |-> placed, unplaced |-> Unplaced(al, placed)]
  /\ al' = [al EXCEPT !.free = CacheSlice(@)]
  /\ log' = <<>>
  /\ UNCHANGED <<placed, issued, leaked, committed, txVars, queueVars, stage, recoveryVars>>

(* The process dies and recovery rebuilds the world from the checkpoint.   *)
Crash ==
  /\ Running
  /\ IF saved = None
     THEN /\ al' = EmptyAllocator /\ placed' = {} /\ leaked' = {}
     ELSE /\ al' = Restore(saved)
          /\ placed' = saved.placed
          /\ leaked' = saved.unplaced
  /\ issued' = committed
  /\ allocated' = [t \in Txs |-> <<>>]
  /\ loaded' = [t \in Txs |-> None]
  /\ dropStage' = [t \in Txs |-> 0]
  /\ orphans' = <<>>
  /\ has_items' = FALSE
  /\ stage' = "idle"
  /\ replay' = log
  /\ UNCHANGED <<committed, diskVars, rejected>>

(* One replayed spawn of the record under way: would_adopt has built the   *)
(* lazy index, then the slot must hold no row and adopt must accept.       *)
AdoptOne(w, e) ==
  LET a0 == [w.al EXCEPT !.free = IF e[1] < Slots(w.al) THEN AfterContains(@, e[1]) ELSE @]
      r == Adopt(a0, e)
  IN  IF ~w.ok \/ e[1] \in w.placed THEN [w EXCEPT !.ok = FALSE]
      ELSE [ok |-> r.ok, al |-> r.al,
            placed |-> IF r.ok THEN w.placed \cup {e[1]} ELSE w.placed]

(* The world after each spawn of the record.                               *)
Adopts(w, es) ==
  LET after[n \in 0 .. Len(es)] == IF n = 0 THEN w ELSE AdoptOne(after[n - 1], es[n])
  IN  after

ReplaySpawn ==
  /\ ~Running /\ ~rejected /\ replay # <<>>
  /\ Head(replay).op = "spawn"
  /\ LET es == Head(replay).handles
         start == [ok |-> TRUE, al |-> Materialize(al), placed |-> placed]
         w == Adopts(start, es)[Len(es)]
     IN  /\ al' = w.al
         /\ placed' = w.placed
         /\ leaked' = leaked \ w.placed
         /\ rejected' = ~w.ok
  /\ replay' = Tail(replay)
  /\ UNCHANGED <<issued, committed, txVars, queueVars, stage, diskVars>>

ReplayDespawn ==
  /\ ~Running /\ ~rejected /\ replay # <<>>
  /\ Head(replay).op = "despawn"
  /\ LET e == Head(Head(replay).handles)
     IN  IF IsAlive(al, e) /\ e[1] \in placed
         THEN /\ al' = Dealloc(al, e)
              /\ placed' = placed \ {e[1]}
              /\ UNCHANGED rejected
         ELSE rejected' = TRUE /\ UNCHANGED <<al, placed>>
  /\ replay' = Tail(replay)
  /\ UNCHANGED <<issued, leaked, committed, txVars, queueVars, stage, diskVars>>

(* Recovery returns the world and the program runs on.                     *)
Recovered ==
  /\ replay = <<>> /\ ~rejected
  /\ replay' = None
  /\ UNCHANGED <<worldVars, txVars, queueVars, stage, diskVars, rejected>>

Next ==
  \/ EnterWorld \/ CheckFlag \/ DrainQueue \/ ClearFlag \/ OtherCall
  \/ Checkpoint \/ Crash \/ ReplaySpawn \/ ReplayDespawn \/ Recovered
  \/ \E e \in issued : Despawn(e)
  \/ \E t \in Txs : \/ ReserveLoad(t) \/ ReserveCas(t)
                    \/ TxSpawn(t) \/ Commit(t) \/ DropStep(t)

(* Threads that entered reserve, drop or a world call finish it, and the   *)
(* program keeps calling into the world.                                   *)
Fairness ==
  /\ SF_vars(EnterWorld)
  /\ WF_vars(CheckFlag \/ DrainQueue \/ ClearFlag \/ OtherCall)
  /\ \A t \in Txs : WF_vars(ReserveCas(t)) /\ WF_vars(dropStage[t] # 0 /\ DropStep(t))

Spec == Init /\ [][Next]_vars /\ Fairness

-----------------------------------------------------------------------------
(* The variables hold what their comments say.  Up to the call of alloc     *)
(* that leaves it, every index is one of the index space, the generations   *)
(* are those of the slots below next_reserved, and next_reserved does not   *)
(* wrap; that call itself opens one slot more and no other.                 *)
TypeOK ==
  /\ al.generations \in Seq(0 .. MaxGen)
  /\ Range(al.free.slots) \subseteq Indices \cup {REMOVED}
  /\ al.next_reserved \in 0 .. REMOVED
  /\ IF stage = "ended"
     THEN Slots(al) = REMOVED + 1
     ELSE Slots(al) <= al.next_reserved /\ \A e \in issued : e[1] \in Indices
  /\ placed \subseteq Indices /\ leaked \subseteq Indices
  /\ issued \subseteq Handles
  /\ \A t \in Txs : /\ allocated[t] \in Seq(Handles)
                    /\ loaded[t] \in Indices \cup {None}
                    /\ dropStage[t] \in {0, 1}
  /\ orphans \in Seq(Handles)
  /\ has_items \in BOOLEAN /\ rejected \in BOOLEAN
  /\ stage \in WorldStages
  /\ saves \in 0 .. MaxSaves
  /\ saved \in SavedStates \cup {None}
  /\ log \in Seq(LogRecords) /\ replay \in Seq(LogRecords) \cup {None}

(* The tombstoned free list is sound in every state: pushes, pops, removals *)
(* by replay, compactions and cached slices never disagree (FreeList).      *)
FreeListIsSound == FreeListSound(al.free)

(* Every slot has exactly one owner: the free list, a row, one handle of    *)
(* one Tx, one entry of the orphan queue, or nobody because a checkpoint    *)
(* caught it unplaced.  No slot is lost and none is owned twice, whatever   *)
(* reservations, aborts, drains, crashes and replays come between, as long  *)
(* as the index space lasts.                                                *)
OwnersOf(i) ==
  UNION {
    {<<"free", p>> : p \in {p \in DOMAIN al.free.slots : al.free.slots[p] = i}},
    {<<"row", j>> : j \in placed \cap {i}},
    {<<"leaked", j>> : j \in leaked \cap {i}},
    UNION {{<<t, k>> : k \in {k \in DOMAIN allocated[t] : allocated[t][k][1] = i}} : t \in Txs},
    {<<"orphan", k>> : k \in {k \in DOMAIN orphans : orphans[k][1] = i}} }

EverySlotHasOneOwner ==
  stage # "ended" =>
    /\ \A i \in 0 .. Slots(Materialize(al)) - 1 : Cardinality(OwnersOf(i)) = 1
    /\ \A t \in Txs : \A k \in DOMAIN allocated[t] : IsAlive(Materialize(al), allocated[t][k])
    /\ \A k \in DOMAIN orphans : IsAlive(Materialize(al), orphans[k])

(* The next handle is new: a free slot carries a generation that was never  *)
(* handed out for it, and the slots from next_reserved on were never handed *)
(* out at all.  A stale handle can therefore never become valid again.  The *)
(* end of the index space is excepted: next_reserved has then wrapped to 0. *)
NextHandleIsFresh ==
  Running /\ stage # "ended" =>
    \A e \in issued :
      /\ e[1] \in Range(al.free.slots) => e[2] < GenOf(al, e[1])
      /\ e[1] < al.next_reserved

(* B3: the free list always has room for the slot, so despawn and the drain *)
(* of orphans never ask the pool for memory, tombstones or not.             *)
DeallocNeverGrows ==
  [][(DrainQueue \/ \E e \in issued : Despawn(e)) => al'.free.cap = al.free.cap]_vars

(* A queued orphan is announced, or the Tx that queued it is about to       *)
(* announce it: the flag is not lost to a drain that runs concurrently.     *)
OrphansAnnounced ==
  orphans # <<>> => has_items \/ \E t \in Txs : dropStage[t] # 0

(* Every orphan is reclaimed, unless the index space ends first.            *)
OrphansReclaimed ==
  \A e \in Indices \X (0 .. MaxGen) :
    (e \in Range(orphans)) ~> (e \notin Range(orphans) \/ stage = "ended")

(* would_adopt is the exact mirror of adopt (try_reserve plans with the     *)
(* one, apply decides with the other), reserved slots included.             *)
WouldAdoptMirrorsAdopt ==
  stage # "ended" => \A e \in Handles : WouldAdopt(al, e) = Adopt(al, e).ok

(* Recovery refuses no committed record, if the checkpoint was taken while  *)
(* no Tx held a handle and no orphan was queued.                            *)
QuiescentReplayAccepted ==
  rejected => saved # None /\ saved.unplaced # {}

(* "The allocator never issues u32::MAX (Entity::DANGLING's index)"         *)
(* (entity.rs:21), on which the free list relies for its tombstones.        *)
NeverIssuesRemoved == \A e \in issued : e[1] # REMOVED

(* Recovery refuses no committed record: "every mutation in                 *)
(* [result.flush_seq, end) ... is still replayed on top of the baseline"    *)
(* (recover.rs).                                                            *)
ReplayAccepted == ~rejected
=============================================================================

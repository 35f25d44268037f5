------------------------------ MODULE SlabPool ------------------------------
(***************************************************************************)
(* The memory pool of a world (pool.rs): a lock-free free list per slab    *)
(* class, a cache of free blocks per thread in front of them, the side     *)
(* table that routes a free to its class, and the frontiers both slab      *)
(* chunks and large runs come from.  Threads interleave at every access to *)
(* a list head; what runs under the frontier mutex is one step.            *)
(*                                                                         *)
(* A block is the address of its first slot.  The 64-bit tag of a list     *)
(* head grows with every successful CAS, so a CAS succeeds exactly when no *)
(* other one has since the head was loaded: `fresh' says so, in place of   *)
(* the tag.  Requests of size zero never reach the pool, used_bytes is     *)
(* a statistic, and the bytes inside blocks are left out.                  *)
(***************************************************************************)
EXTENDS Frontier, SequencesExt

CONSTANTS
  Threads,
  SlabSizes,  \* SlabSizes[c]: slots of a block of slab class c
  RunSizes,   \* the lengths of the large runs requested, in units
  TCACHE_CAPACITY, TCACHE_REFILL, TCACHE_SPILL,
  MaxLive,    \* bound: allocations in use
  MaxEpoch,   \* bound: calls of flush_caches
  None

Classes == DOMAIN SlabSizes
LARGE == Len(SlabSizes) + 1
Slots == 0 .. Total - 1

ASSUME SlabPoolAssumption ==
  /\ SlabSizes \in Seq(Nat \ {0})
  /\ \A c \in Classes : ChunkSlots % SlabSizes[c] = 0
  /\ TCACHE_CAPACITY \in Nat /\ TCACHE_SPILL \in 1 .. TCACHE_CAPACITY
  /\ TCACHE_REFILL \in 1 .. TCACHE_CAPACITY
  /\ RunSizes \subseteq Nat /\ IsFiniteSet(Threads) /\ MaxEpoch \in Nat
  /\ None \notin Nat /\ None \notin [bins : [Classes -> Seq(Slots)], epoch : Nat]

VARIABLES
  frontier,  \* see Frontier
  head,      \* head[c]: the first block of the free list of class c, or None
  next,      \* next[b]: the next-pointer in the first bytes of block b
  side,      \* side[b]: the class of the allocated block b, or None
  cache,     \* cache[t]: [bins, epoch], the TCache of thread t, or None
  epoch,     \* the pool's epoch
  live,      \* the allocations in use
  pool,      \* "mapped", or "dropped" when the last owner is gone
  th         \* th[t]: what thread t is doing, see Idle

poolVars == <<frontier, head, next, side>>
vars == <<poolVars, cache, epoch, live, pool, th>>

(* op: the call under way.  class: of the block it asks for or frees.      *)
(* units: of the run a grow asks for.  addr: the block it frees, or grows. *)
(* todo: cached blocks to return.  list: the free list it works on.        *)
(* first, last: the chain being pushed.  loaded, succ, fresh: a push or    *)
(* pop between load and CAS.  got: the block for the caller, extras: how   *)
(* many more were cached.                                                  *)
Idle == [pc |-> "idle", op |-> "none", class |-> None, units |-> 0, addr |-> None,
         todo |-> << >>, list |-> None, first |-> None, last |-> None, loaded |-> None,
         succ |-> None, fresh |-> FALSE, got |-> None, extras |-> 0]

NoBins == [c \in Classes |-> << >>]

Init ==
  /\ frontier = EmptyFrontier
  /\ head = [c \in Classes |-> None]
  /\ next = [b \in Slots |-> None]
  /\ side = [b \in Slots |-> None]
  /\ cache = [t \in Threads |-> None]
  /\ epoch = 0
  /\ live = {}
  /\ pool = "mapped"
  /\ th = [t \in Threads |-> Idle]

-----------------------------------------------------------------------------
(* Calls begin.  An allocation may be freed or grown by any thread.        *)

Step(t, call) == th' = [th EXCEPT ![t] = call]
Begin(t, call) == pool = "mapped" /\ th[t].pc = "idle" /\ Step(t, call)

InUse == Cardinality(live) + Cardinality({t \in Threads : th[t].op = "allocate"})

(* SlabPool::allocate, for a slab class.                                   *)
Allocate(t, c) ==
  /\ InUse < MaxLive
  /\ Begin(t, [Idle EXCEPT !.pc = "check", !.op = "allocate", !.class = c])
  /\ UNCHANGED <<poolVars, cache, epoch, live, pool>>

RunAddr(start) == start * UnitSlots

(* large_allocate: the run and its side table entry, under the lock.       *)
AllocateLarge(t, k) ==
  /\ InUse < MaxLive
  /\ Begin(t, Idle) /\ CanTakeRun(frontier, k)
  /\ LET b == RunAddr(RunStart(frontier, k))
     IN /\ frontier' = TakeRun(frontier, k)
        /\ side' = [side EXCEPT ![b] = LARGE]
        /\ live' = live \cup {b}
  /\ UNCHANGED <<head, next, cache, epoch, pool>>

(* SlabPool::deallocate: a slab block goes to the thread's cache.          *)
Free(t, b) ==
  /\ b \in live /\ side[b] # LARGE
  /\ Begin(t, [Idle EXCEPT !.pc = "check", !.op = "free", !.class = side[b], !.addr = b])
  /\ live' = live \ {b}
  /\ UNCHANGED <<poolVars, cache, epoch, pool>>

(* Mutant: the entry of a freed run stays in the side table.               *)
ClearedKept(b) == side

(* The side table without the entry of b.                                  *)
Cleared(b) == [side EXCEPT ![b] = None]

(* large_deallocate.                                                       *)
FreeLarge(t, b) ==
  /\ b \in live /\ side[b] = LARGE
  /\ Begin(t, Idle)
  /\ side' = Cleared(b)
  /\ frontier' = ReleaseRun(frontier, b \div UnitSlots)
  /\ live' = live \ {b}
  /\ UNCHANGED <<head, next, cache, epoch, pool>>

(* SlabPool::grow of a run, in place or shifted down; its entry moves.     *)
GrowInPlace(t, b, k) ==
  /\ b \in live /\ side[b] = LARGE
  /\ Begin(t, Idle) /\ CanGrowRun(frontier, b \div UnitSlots, k)
  /\ LET start == b \div UnitSlots
         moved == RunAddr(start - Shift(frontier, start, k))
     IN /\ frontier' = GrowRun(frontier, start, k)
        /\ side' = [Cleared(b) EXCEPT ![moved] = LARGE]
        /\ live' = (live \ {b}) \cup {moved}
  /\ UNCHANGED <<head, next, cache, epoch, pool>>

(* SlabPool::grow to a run, where the block cannot be widened: the lock is *)
(* released, a run is allocated, and the old block freed after the copy.   *)
(* If there is none the old block is the caller's as before.               *)
GrowByCopy(t, b, k) ==
  /\ b \in live
  /\ side[b] = LARGE => /\ frontier.units[b \div UnitSlots] < k
                        /\ ~CanGrowRun(frontier, b \div UnitSlots, k)
  /\ Begin(t, [Idle EXCEPT !.pc = "copy", !.op = "grow", !.units = k, !.addr = b])
  /\ live' = live \ {b}
  /\ UNCHANGED <<poolVars, cache, epoch, pool>>

CopyToRun(t) ==
  /\ th[t].pc = "copy" /\ CanTakeRun(frontier, th[t].units)
  /\ LET old == th[t].addr
         new == RunAddr(RunStart(frontier, th[t].units))
     IN /\ frontier' = TakeRun(frontier, th[t].units)
        /\ side' = [side EXCEPT ![new] = LARGE]
        /\ live' = live \cup {new}
        /\ Step(t, [Idle EXCEPT !.pc = IF side[old] = LARGE THEN "release" ELSE "check",
                                  !.op = "free", !.class = side[old], !.addr = old])
  /\ UNCHANGED <<head, next, cache, epoch, pool>>

ReleaseCopied(t) ==
  /\ th[t].pc = "release"
  /\ side' = Cleared(th[t].addr)
  /\ frontier' = ReleaseRun(frontier, th[t].addr \div UnitSlots)
  /\ Step(t, Idle)
  /\ UNCHANGED <<head, next, cache, epoch, live, pool>>

(* SlabPool::grow of a slab block into a larger slab class.                *)
GrowSlab(t, b, c) ==
  /\ b \in live /\ side[b] < c
  /\ Begin(t, [Idle EXCEPT !.pc = "check", !.op = "allocate", !.class = c, !.addr = b])
  /\ live' = live \ {b}
  /\ UNCHANGED <<poolVars, cache, epoch, pool>>

(* flush_caches, and a cache dropped by a thread that ends or turns to     *)
(* another pool.                                                           *)
AllCached(t) == IF cache[t] = None THEN << >> ELSE FlattenSeq(cache[t].bins)

FlushCaches(t) ==
  /\ epoch + Cardinality({u \in Threads : th[u].op = "flush"}) < MaxEpoch
  /\ Begin(t, [Idle EXCEPT !.pc = "return", !.op = "flush", !.todo = AllCached(t)])
  /\ cache' = IF cache[t] = None THEN cache ELSE [cache EXCEPT ![t].bins = NoBins]
  /\ UNCHANGED <<poolVars, epoch, live, pool>>

DropCache(t) ==
  /\ cache[t] # None
  /\ Begin(t, [Idle EXCEPT !.pc = "return", !.op = "drop", !.todo = AllCached(t)])
  /\ cache' = [cache EXCEPT ![t] = None]
  /\ UNCHANGED <<poolVars, epoch, live, pool>>

-----------------------------------------------------------------------------
(* The thread cache.                                                       *)

(* The cache is made if there is none; one that missed a flush is emptied. *)
CheckEpoch(t) ==
  /\ th[t].pc = "check"
  /\ LET stale == cache[t] # None /\ cache[t].epoch # epoch
     IN /\ cache' = IF cache[t] = None \/ stale
                    THEN [cache EXCEPT ![t] = [bins |-> NoBins, epoch |-> epoch]] ELSE cache
        /\ Step(t, [th[t] EXCEPT !.pc = "return",
                                 !.todo = IF stale THEN AllCached(t) ELSE << >>])
  /\ UNCHANGED <<poolVars, epoch, live, pool>>

(* global_deallocate_to_class: the entry is cleared, then the block pushed.*)
ReturnBlock(t) ==
  /\ th[t].pc = "return" /\ th[t].todo # << >>
  /\ LET b == Head(th[t].todo)
     IN /\ side' = Cleared(b)
        /\ Step(t, [th[t] EXCEPT !.pc = "push", !.todo = Tail(@), !.list = side[b],
                                 !.first = b, !.last = b])
  /\ UNCHANGED <<frontier, head, next, cache, epoch, live, pool>>

(* Everything is returned: what the call is for.                           *)
BumpEpoch(t) ==
  /\ th[t].pc = "return" /\ th[t].todo = << >> /\ th[t].op \in {"flush", "drop"}
  /\ epoch' = IF th[t].op = "flush" THEN epoch + 1 ELSE epoch
  /\ Step(t, Idle)
  /\ UNCHANGED <<poolVars, cache, live, pool>>

Bin(t) == cache[t].bins[th[t].class]

(* Mutant: a full bin is pushed to.                                        *)
NeverFull(t) == FALSE

IsFull(t) == Len(Bin(t)) >= TCACHE_CAPACITY

Spill(t) ==
  /\ th[t].pc = "return" /\ th[t].todo = << >> /\ th[t].op = "free" /\ IsFull(t)
  /\ Step(t, [th[t] EXCEPT !.todo = SubSeq(Bin(t), 1, TCACHE_SPILL)])
  /\ cache' = [cache EXCEPT ![t].bins[th[t].class] =
                 SubSeq(@, TCACHE_SPILL + 1, Len(@))]
  /\ UNCHANGED <<poolVars, epoch, live, pool>>

CacheFreed(t) ==
  /\ th[t].pc = "return" /\ th[t].todo = << >> /\ th[t].op = "free" /\ ~IsFull(t)
  /\ cache' = [cache EXCEPT ![t].bins[th[t].class] = Append(@, th[t].addr)]
  /\ Step(t, Idle)
  /\ UNCHANGED <<poolVars, epoch, live, pool>>

(* The caller gets b, and writes over the link in it (as None, which no    *)
(* pop uses); a grow goes on to free the block it copied from.             *)
Served(t, b) ==
  /\ live' = live \cup {b}
  /\ next' = [next EXCEPT ![b] = None]
  /\ Step(t, IF th[t].addr = None THEN Idle
             ELSE [Idle EXCEPT !.pc = "check", !.op = "free",
                               !.class = side[th[t].addr], !.addr = th[t].addr])

CacheHit(t) ==
  /\ th[t].pc = "return" /\ th[t].todo = << >> /\ th[t].op = "allocate"
  /\ Bin(t) # << >>
  /\ Served(t, Last(Bin(t)))
  /\ cache' = [cache EXCEPT ![t].bins[th[t].class] = Front(@)]
  /\ UNCHANGED <<frontier, head, side, epoch, pool>>

CacheMiss(t) ==
  /\ th[t].pc = "return" /\ th[t].todo = << >> /\ th[t].op = "allocate"
  /\ Bin(t) = << >>
  /\ Step(t, [th[t] EXCEPT !.pc = "pop", !.list = th[t].class])
  /\ UNCHANGED <<poolVars, cache, epoch, live, pool>>

-----------------------------------------------------------------------------
(* The lock-free lists.                                                    *)

(* A successful CAS on list c: whoever loaded its head will fail.          *)
Overtaken(c, t, mine) ==
  [u \in Threads |-> IF u = t THEN mine
                     ELSE IF th[u].list = c THEN [th[u] EXCEPT !.fresh = FALSE] ELSE th[u]]

(* Mutant: the head is compared without its tag.                           *)
UntaggedCas(t) == head[th[t].list] = th[t].loaded

CasSucceeds(t) == th[t].fresh

(* Mutant: a failed push tries again with the head it has.                 *)
RetryWithoutReload(t) == [th[t] EXCEPT !.pc = IF @ = "popCas" THEN "pop" ELSE "pushCas"]

(* A failed CAS: the loop starts over with a load of the head.             *)
Retry(t) == [th[t] EXCEPT !.pc = IF @ = "popCas" THEN "pop" ELSE "push",
                          !.loaded = None, !.succ = None]

(* push_chain: the head is loaded and the end of the chain linked to it.   *)
PushLink(t) ==
  /\ th[t].pc = "push"
  /\ next' = [next EXCEPT ![th[t].last] = head[th[t].list]]
  /\ Step(t, [th[t] EXCEPT !.pc = "pushCas", !.loaded = head[th[t].list], !.fresh = TRUE])
  /\ UNCHANGED <<frontier, head, side, cache, epoch, live, pool>>

(* record_allocation, without the statistic.                               *)
Recorded(b, c) == [side EXCEPT ![b] = c]

(* A pushed block was one to return; a pushed chain was what carve left    *)
(* over, and the caller's block is recorded next.                          *)
PushCas(t) ==
  /\ th[t].pc = "pushCas" /\ CasSucceeds(t)
  /\ head' = [head EXCEPT ![th[t].list] = th[t].first]
  /\ LET pushed == [th[t] EXCEPT !.first = None, !.last = None, !.loaded = None, !.fresh = FALSE]
     IN IF th[t].got = None
        THEN /\ th' = Overtaken(th[t].list, t, [pushed EXCEPT !.pc = "return", !.list = None])
             /\ side' = side
        ELSE /\ th' = Overtaken(th[t].list, t, [pushed EXCEPT !.pc = "pop"])
             /\ side' = Recorded(th[t].got, th[t].class)
  /\ UNCHANGED <<frontier, next, cache, epoch, live, pool>>

CasFails(t) ==
  /\ th[t].pc \in {"popCas", "pushCas"} /\ ~CasSucceeds(t)
  /\ Step(t, Retry(t))
  /\ UNCHANGED <<poolVars, cache, epoch, live, pool>>

(* TCache::refill wants one block for the caller and up to REFILL - 1 more.*)
(* The bin is empty when it starts, so it has room for them.               *)
Refilled(t) == th[t].got # None /\ (head[th[t].class] = None \/ th[t].extras = TCACHE_REFILL - 1)

RefillEnds(t) ==
  /\ th[t].pc = "pop" /\ Refilled(t)
  /\ Served(t, th[t].got)
  /\ UNCHANGED <<frontier, head, side, cache, epoch, pool>>

(* pop_free: the head is loaded, and found empty only for the first block. *)
Pop(t) ==
  /\ th[t].pc = "pop" /\ ~Refilled(t)
  /\ Step(t, IF head[th[t].list] = None THEN [th[t] EXCEPT !.pc = "carve"]
             ELSE [th[t] EXCEPT !.pc = "popNext", !.loaded = head[th[t].list], !.fresh = TRUE])
  /\ UNCHANGED <<poolVars, cache, epoch, live, pool>>

(* The link may have been changed by another owner since: then the CAS is  *)
(* to fail.                                                                *)
PopNext(t) ==
  /\ th[t].pc = "popNext"
  /\ Step(t, [th[t] EXCEPT !.pc = "popCas", !.succ = next[th[t].loaded]])
  /\ UNCHANGED <<poolVars, cache, epoch, live, pool>>

PopCas(t) ==
  /\ th[t].pc = "popCas" /\ CasSucceeds(t)
  /\ head' = [head EXCEPT ![th[t].list] = th[t].succ]
  /\ side' = Recorded(th[t].loaded, th[t].class)
  /\ LET popped == [th[t] EXCEPT !.pc = "pop", !.loaded = None, !.succ = None, !.fresh = FALSE]
     IN IF th[t].got = None
        THEN /\ th' = Overtaken(th[t].list, t, [popped EXCEPT !.got = th[t].loaded])
             /\ cache' = cache
        ELSE /\ th' = Overtaken(th[t].list, t, [popped EXCEPT !.extras = @ + 1])
             /\ cache' = [cache EXCEPT ![t].bins[th[t].class] = Append(@, th[t].loaded)]
  /\ UNCHANGED <<frontier, next, epoch, live, pool>>

(* carve: the caller gets the first block of a new chunk; the others are   *)
(* linked, and pushed as a chain.                                          *)
Carve(t) ==
  /\ th[t].pc = "carve" /\ CanCarve(frontier)
  /\ frontier' = CarveChunk(frontier)
  /\ LET size == SlabSizes[th[t].class]
         chunk == frontier.lo
         last == chunk + ChunkSlots - size
         inner == {chunk + i * size : i \in 1 .. ChunkSlots \div size - 2}
     IN /\ next' = [b \in Slots |-> IF b \in inner THEN b + size ELSE next[b]]
        /\ IF last = chunk
           THEN /\ side' = Recorded(chunk, th[t].class)
                /\ Step(t, [th[t] EXCEPT !.pc = "pop", !.got = chunk])
           ELSE /\ side' = side
                /\ Step(t, [th[t] EXCEPT !.pc = "push", !.got = chunk,
                                         !.first = chunk + size, !.last = last])
  /\ UNCHANGED <<head, cache, epoch, live, pool>>

(* PoolExhausted: a block that was to grow is the caller's as before.      *)
Exhausted(t) ==
  /\ \/ th[t].pc = "carve" /\ ~CanCarve(frontier)
     \/ th[t].pc = "copy" /\ ~CanTakeRun(frontier, th[t].units)
  /\ Step(t, Idle)
  /\ live' = live \cup ({th[t].addr} \ {None})
  /\ UNCHANGED <<poolVars, cache, epoch, pool>>

-----------------------------------------------------------------------------
(* The pool is unmapped with its last owner; a thread's cache holds it     *)
(* weakly, and is forgotten without a look at the blocks.                  *)
DropPool ==
  /\ pool = "mapped" /\ live = {} /\ \A t \in Threads : th[t].pc = "idle"
  /\ pool' = "dropped"
  /\ UNCHANGED <<poolVars, cache, epoch, live, th>>

ForgetCache(t) ==
  /\ pool = "dropped" /\ cache[t] # None
  /\ cache' = [cache EXCEPT ![t] = None]
  /\ UNCHANGED <<poolVars, epoch, live, pool, th>>

(* The steps of a call that has begun.                                     *)
Continue(t) ==
  \/ CopyToRun(t) \/ ReleaseCopied(t)
  \/ CheckEpoch(t) \/ ReturnBlock(t) \/ BumpEpoch(t) \/ Spill(t) \/ CacheFreed(t)
  \/ CacheHit(t) \/ CacheMiss(t) \/ RefillEnds(t)
  \/ PushLink(t) \/ PushCas(t) \/ CasFails(t) \/ Pop(t) \/ PopNext(t) \/ PopCas(t)
  \/ Carve(t) \/ Exhausted(t)

Next ==
  \/ \E t \in Threads :
       \/ \E c \in Classes : Allocate(t, c)
       \/ \E k \in RunSizes : AllocateLarge(t, k)
       \/ \E b \in live : \/ Free(t, b) \/ FreeLarge(t, b)
                          \/ \E k \in RunSizes : GrowInPlace(t, b, k) \/ GrowByCopy(t, b, k)
                          \/ \E c \in Classes : GrowSlab(t, b, c)
       \/ FlushCaches(t) \/ DropCache(t) \/ ForgetCache(t)
       \/ Continue(t)
  \/ DropPool

(* A call that has begun is run by its thread to the end.                  *)
Spec == Init /\ [][Next]_vars /\ \A t \in Threads : WF_vars(Continue(t))

-----------------------------------------------------------------------------
(* Properties.                                                             *)

(* The state is well typed; a bin never holds more than its fixed array    *)
(* has room for (TCacheBin::push asserts it: past the end is the count).   *)
TypeOK ==
  /\ head \in [Classes -> Slots \cup {None}]
  /\ next \in [Slots -> Slots \cup {None}]
  /\ side \in [Slots -> Classes \cup {LARGE, None}]
  /\ epoch \in 0 .. MaxEpoch
  /\ live \subseteq Slots
  /\ pool \in {"mapped", "dropped"}
  /\ \A t \in Threads : cache[t] # None =>
       /\ cache[t].epoch \in 0 .. epoch
       /\ \A c \in Classes : Len(cache[t].bins[c]) <= TCACHE_CAPACITY

(* What is written with the struct Frontier about every state in which the *)
(* lock is free: the two frontiers never cross, the top region gives its   *)
(* edge back at once, and the unit entries describe disjoint runs.         *)
FrontiersNeverCross == FrontierWellFormed(frontier)

(* Who holds which block: a claim is a holder, an address and a class.     *)
Claim(by, b, c) == [by |-> by, at |-> b, class |-> c]
Extent(x) ==
  x.at .. x.at - 1 + IF x.class = LARGE THEN frontier.units[x.at \div UnitSlots] * UnitSlots
                     ELSE SlabSizes[x.class]

ListClaims(c) ==
  LET link[n \in 0 .. Total] == IF n = 0 THEN head[c]
                                ELSE IF link[n - 1] = None THEN None ELSE next[link[n - 1]]
  IN {Claim(<<"list", n>>, link[n], c) : n \in {m \in 0 .. Total : link[m] # None}}

ChainClaims(t) ==
  IF th[t].first = None THEN {}
  ELSE {Claim(<<"chain", t>>, b, th[t].list) :
          b \in {b \in th[t].first .. th[t].last : (b - th[t].first) % SlabSizes[th[t].list] = 0}}

CallerClaims(t) ==
  IF th[t].got = None THEN {} ELSE {Claim(<<"got", t>>, th[t].got, th[t].class)}

Held(t) == AllCached(t) \o th[t].todo \o (IF th[t].addr = None THEN << >> ELSE <<th[t].addr>>)
HeldClaims(t) == {Claim(<<"held", t, i>>, Held(t)[i], side[Held(t)[i]]) : i \in DOMAIN Held(t)}

LiveClaims == {Claim(<<"live">>, b, side[b]) : b \in live}

Claims ==
  LiveClaims \cup UNION ({ListClaims(c) : c \in Classes}
                         \cup {ChainClaims(t) \cup CallerClaims(t) \cup HeldClaims(t) : t \in Threads})

(* No slot is ever part of two blocks, and none is lost: a carved slot, or *)
(* one of a run, has one holder (a free list, a bin, a call or a caller),  *)
(* and a slot between the frontiers has none.  The safety comment on       *)
(* SlabPool's impl promises non-overlapping regions.                       *)
EveryBlockHasOneHolder == pool = "mapped" =>
  LET claims == Claims
      taken == {s \in Slots : \/ s < frontier.lo
                              \/ s \div UnitSlots \in Units /\ frontier.units[s \div UnitSlots] # FREE}
  IN \A s \in Slots : Cardinality({x \in claims : s \in Extent(x)}) = IF s \in taken THEN 1 ELSE 0

(* deallocate and flush route by the side table: it has an entry for       *)
(* exactly the blocks out of the lists, the bins hold their own class      *)
(* only, and free slots carry no entry a later owner could be misled by.   *)
SideTableRoutesFrees == pool = "mapped" =>
  /\ {b \in Slots : side[b] # None} =
       live \cup (UNION {ToSet(Held(t)) : t \in Threads})
            \cup {th[t].got : t \in {u \in Threads : th[u].got # None /\ th[u].first = None}}
  /\ \A t \in Threads : cache[t] # None =>
       \A c \in Classes : \A b \in ToSet(cache[t].bins[c]) : side[b] = c

(* The lists are lock-free: unless calls begin for ever, every call ends,  *)
(* however the CAS loops of push_chain and pop_free interleave.  A CAS     *)
(* fails only because that of another call succeeded.                      *)
CallBegins == \E t \in Threads : th[t].pc = "idle" /\ th'[t].pc # "idle"
CallsEnd == []<><<CallBegins>>_vars \/ <>[](\A t \in Threads : th[t].pc = "idle")
=============================================================================

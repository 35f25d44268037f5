------------------------------- MODULE FreeList -------------------------------
(***************************************************************************)
(* The free list of the entity allocator (FreeList in entity.rs): a stack  *)
(* of slot indices that replay may also take from the middle.  A removal   *)
(* from the middle leaves a tombstone; a lazy index maps a slot to its     *)
(* position; as_slice caches a copy without tombstones.                    *)
(*                                                                         *)
(* A free list is a record                                                 *)
(*   slots      sequence of indices and REMOVED                            *)
(*   positions  None, or the index: a function from slots to positions     *)
(*   holes      number of tombstones                                       *)
(*   snapshot   None, or what as_slice cached                              *)
(*   cap        the capacity of the PoolVec under slots                    *)
(* Positions count from 1 here and from 0 in the code.                     *)
(***************************************************************************)
EXTENDS Naturals, FiniteSets, SequencesExt

CONSTANTS
  REMOVED,  \* the tombstone: u32::MAX, which is no index
  None,     \* an absent Option
  MinCap    \* the least capacity a PoolVec grows to (4 in the code)

(* An absent value is none of the present ones.                             *)
ASSUME FreeListAssumption ==
  /\ REMOVED \in Nat /\ MinCap \in Nat \ {0}
  /\ None \notin 0 .. REMOVED
  /\ None \notin Seq(0 .. REMOVED)
  /\ \A S \in SUBSET (0 .. REMOVED - 1) : None \notin [S -> Nat]

EmptyFreeList ==
  [slots |-> <<>>, positions |-> None, holes |-> 0, snapshot |-> None, cap |-> 0]

(* The entries that are not tombstones, of every prefix and of the whole.  *)
LiveIn(slots) ==
  LET live[n \in 0 .. Len(slots)] ==
        IF n = 0 THEN <<>>
        ELSE IF slots[n] = REMOVED THEN live[n - 1] ELSE Append(live[n - 1], slots[n])
  IN  live

Live(slots) == LiveIn(slots)[Len(slots)]

(* PoolVec growth: at least doubling, at least MinCap.                      *)
GrownCap(cap, required) ==
  IF required <= cap THEN cap
  ELSE CHOOSE n \in {required, 2 * cap, MinCap} :
         \A m \in {required, 2 * cap, MinCap} : m <= n

IndexOf(slots) == [i \in Range(slots) |-> CHOOSE p \in DOMAIN slots : slots[p] = i]

Compact(fl) ==
  LET kept == Live(fl.slots)
  IN  [fl EXCEPT !.slots = kept,
                 !.holes = 0,
                 !.positions = IF @ = None THEN None ELSE IndexOf(kept)]

ReserveTotal(fl, total) == [fl EXCEPT !.cap = GrownCap(@, total)]

Assign(fl, indices) ==
  [EmptyFreeList EXCEPT !.slots = indices, !.cap = GrownCap(fl.cap, Len(indices))]

FreeLen(fl) == Len(fl.slots) - fl.holes

AsSlice(fl) ==
  IF fl.holes = 0 THEN fl.slots
  ELSE IF fl.snapshot # None THEN fl.snapshot ELSE Live(fl.slots)

(* as_slice fills the OnceLock when there are tombstones.                   *)
CacheSlice(fl) ==
  IF fl.holes = 0 THEN fl ELSE [fl EXCEPT !.snapshot = AsSlice(fl)]

Append1(fl, i) ==
  [fl EXCEPT !.slots = Append(@, i),
             !.cap = GrownCap(@, Len(fl.slots) + 1),
             !.positions =
               IF @ = None THEN None
               ELSE [j \in DOMAIN @ \cup {i} |->
                       IF j = i THEN Len(fl.slots) + 1 ELSE @[j]]]

(* Mutant: grow instead of reclaiming tombstones.                           *)
PushGrowing(fl, i) == Append1([fl EXCEPT !.snapshot = None], i)

(* Mutant: the cached slice survives the push.                              *)
PushKeepingSnapshot(fl, i) ==
  Append1(IF Len(fl.slots) = fl.cap /\ fl.holes > 0 THEN Compact(fl) ELSE fl, i)

Push(fl, i) ==
  LET fresh == [fl EXCEPT !.snapshot = None]
  IN  Append1(IF Len(fl.slots) = fl.cap /\ fl.holes > 0 THEN Compact(fresh) ELSE fresh, i)

(* pop skips the tombstones at the end; on an empty list it drops the index. *)
Pop(fl) ==
  LET live == {p \in DOMAIN fl.slots : fl.slots[p] # REMOVED}
      fresh == [fl EXCEPT !.snapshot = None]
  IN  IF live = {}
      THEN [index |-> None,
            list |-> [fresh EXCEPT !.slots = <<>>, !.holes = fl.holes - Len(fl.slots),
                                   !.positions = None]]
      ELSE LET top == CHOOSE p \in live : \A q \in live : q <= p
               index == fl.slots[top]
           IN  [index |-> index,
                list |-> [fresh EXCEPT
                            !.slots = SubSeq(@, 1, top - 1),
                            !.holes = @ - (Len(fl.slots) - top),
                            !.positions =
                              IF @ = None THEN None
                              ELSE [j \in DOMAIN @ \ {index} |-> @[j]]]]

IsLast(fl, i) == fl.slots # <<>> /\ Last(fl.slots) = i

WithIndex(fl) ==
  IF fl.positions = None THEN [fl EXCEPT !.positions = IndexOf(fl.slots)] ELSE fl

(* contains, with the index it builds on the way.                          *)
ContainsIndex(fl, i) == IsLast(fl, i) \/ i \in DOMAIN WithIndex(fl).positions
AfterContains(fl, i) == IF IsLast(fl, i) THEN fl ELSE WithIndex(fl)

Tombstone(fl, i) ==
  LET hole == [fl EXCEPT !.slots[fl.positions[i]] = REMOVED,
                         !.positions = [j \in DOMAIN @ \ {i} |-> @[j]],
                         !.holes = @ + 1,
                         !.snapshot = None]
  IN  IF hole.holes > Len(hole.slots) \div 2 THEN Compact(hole) ELSE hole

(* remove: whether i was free, and the list afterwards.                    *)
RemoveIndex(fl, i) ==
  IF IsLast(fl, i) THEN [found |-> TRUE, list |-> Pop(fl).list]
  ELSE LET indexed == WithIndex(fl)
       IN  IF i \in DOMAIN indexed.positions
           THEN [found |-> TRUE, list |-> Tombstone(indexed, i)]
           ELSE [found |-> FALSE, list |-> indexed]

(* The representation is sound: the live entries are distinct, holes counts *)
(* the tombstones, the index (when built) finds every live entry and nothing *)
(* else, there are no tombstones without an index, and the cached slice is  *)
(* the list without its tombstones.                                         *)
FreeListSound(fl) ==
  /\ \A p, q \in DOMAIN fl.slots :
       p # q /\ fl.slots[p] # REMOVED => fl.slots[p] # fl.slots[q]
  /\ fl.holes = Cardinality({p \in DOMAIN fl.slots : fl.slots[p] = REMOVED})
  /\ fl.positions = None => fl.holes = 0
  /\ fl.positions # None =>
       /\ DOMAIN fl.positions = Range(Live(fl.slots))
       /\ \A i \in DOMAIN fl.positions : fl.slots[fl.positions[i]] = i
  /\ AsSlice(fl) = Live(fl.slots)
  /\ Len(fl.slots) <= fl.cap
=============================================================================

-------------------------- MODULE MCEntityAllocator --------------------------
(* Two transactions over two slots and the one alloc opens past the end:    *)
(* with MinCap = 1 they fill the free list's capacity, so tombstones,       *)
(* compaction and growth all happen.                                        *)
EXTENDS EntityAllocator
CONSTANTS t1, t2

MCTxs == {t1, t2}
=============================================================================

------------------------------ MODULE Frontier ------------------------------
(***************************************************************************)
(* The two frontiers of the pool window (Frontier in pool.rs).  Slab       *)
(* chunks are carved upwards from the bottom, large runs of whole units    *)
(* are taken downwards from the top, and neither may reach the other.      *)
(*                                                                         *)
(* Addresses count slots of the smallest block.  A frontier is a record:   *)
(* [0, lo) is carved into chunks, units hi and up form the top region, and *)
(* units[u] is the length of the run that starts at u, FREE, or INTERIOR.  *)
(* An operation returns the frontier after it, where it is possible.       *)
(***************************************************************************)
EXTENDS Naturals, FiniteSetsExt

CONSTANTS
  Total,       \* slots of the window: the budget
  ChunkSlots,  \* CHUNK_SIZE
  UnitSlots    \* LARGE_UNIT, a multiple of it

ASSUME FrontierAssumption ==
  /\ Total \in Nat /\ ChunkSlots \in Nat \ {0} /\ UnitSlots \in Nat \ {0}
  /\ UnitSlots % ChunkSlots = 0

NUnits == Total \div UnitSlots
Units == 0 .. NUnits - 1
FREE == 0
INTERIOR == NUnits + 1

EmptyFrontier == [lo |-> 0, hi |-> NUnits, units |-> [u \in Units |-> FREE]]

BottomLimit(f) ==
  IF f.hi = NUnits THEN Total - (Total % ChunkSlots) ELSE f.hi * UnitSlots

(* Mutant: the bottom frontier may take the first unit of the top region.  *)
CanCarveInto(f) == f.lo < BottomLimit(f) + UnitSlots /\ f.lo < Total

CanCarve(f) == f.lo + ChunkSlots <= BottomLimit(f)
CarveChunk(f) == [f EXCEPT !.lo = @ + ChunkSlots]

(* The entries of a run of k units from start on.                          *)
WithRun(units, start, k) ==
  [u \in Units |-> IF u = start THEN k
                   ELSE IF u \in start + 1 .. start + k - 1 THEN INTERIOR
                   ELSE units[u]]

(* Free stretches of k units inside the top region.                        *)
Gaps(f, k) ==
  {u \in f.hi .. NUnits - k : \A v \in u .. u + k - 1 : f.units[v] = FREE}

(* take_run: the highest gap, or else new units below the top region.      *)
CanTakeRun(f, k) ==
  /\ k \in 1 .. NUnits
  /\ Gaps(f, k) # {} \/ (k <= f.hi /\ f.lo <= (f.hi - k) * UnitSlots)
RunStart(f, k) == IF Gaps(f, k) # {} THEN Max(Gaps(f, k)) ELSE f.hi - k
TakeRun(f, k) ==
  [f EXCEPT !.units = WithRun(@, RunStart(f, k), k), !.hi = Min({@, RunStart(f, k)})]

(* A unit the run above it may claim: free in the top region, or not yet   *)
(* reached by the bottom frontier.                                         *)
Claimable(f, u) == IF u >= f.hi THEN f.units[u] = FREE ELSE f.lo <= u * UnitSlots

(* grow_run: first the free units above the run, then those below it.      *)
Above(f, start, extra) ==
  LET k == f.units[start]
  IN Max({a \in 0 .. extra : /\ start + k + a <= NUnits
                             /\ \A v \in start + k .. start + k + a - 1 : f.units[v] = FREE})
Shift(f, start, kNew) ==
  kNew - f.units[start] - Above(f, start, kNew - f.units[start])
CanGrowRun(f, start, kNew) ==
  /\ f.units[start] < kNew /\ kNew <= NUnits
  /\ Shift(f, start, kNew) <= start
  /\ \A u \in start - Shift(f, start, kNew) .. start - 1 : Claimable(f, u)

(* Mutant: the edge of the top region stays when a run grows below it.     *)
GrowRunKeepsEdge(f, start, kNew) ==
  [f EXCEPT !.units = WithRun(@, start - Shift(f, start, kNew), kNew)]

GrowRun(f, start, kNew) ==
  LET newStart == start - Shift(f, start, kNew)
  IN [f EXCEPT !.units = WithRun(@, newStart, kNew), !.hi = Min({@, newStart})]

(* Mutant: the top region does not give its edge back.                     *)
ReleaseRunKeepsEdge(f, start) ==
  [f EXCEPT !.units = [u \in Units |->
     IF u \in start .. start + f.units[start] - 1 THEN FREE ELSE f.units[u]]]

(* release_run: the edge of the top region retreats to the next run.       *)
ReleaseRun(f, start) ==
  LET units == [u \in Units |->
                  IF u \in start .. start + f.units[start] - 1 THEN FREE ELSE f.units[u]]
  IN [f EXCEPT !.units = units,
               !.hi = Min({NUnits} \cup {u \in f.hi .. NUnits - 1 : units[u] # FREE})]

Runs(f) == {u \in Units : f.units[u] \notin {FREE, INTERIOR}}

(* The invariants stated with the struct: the frontiers do not cross, the  *)
(* lowest unit of the top region is in use, so that freed edges return to  *)
(* the bottom at once, and the entries describe disjoint runs.             *)
FrontierWellFormed(f) ==
  /\ f.lo % ChunkSlots = 0 /\ f.lo <= Total
  /\ f.hi < NUnits => f.lo <= f.hi * UnitSlots /\ f.units[f.hi] # FREE
  /\ \A u \in Units : u < f.hi => f.units[u] = FREE
  /\ \A u \in Runs(f) : /\ u + f.units[u] <= NUnits
                        /\ \A v \in u + 1 .. u + f.units[u] - 1 : f.units[v] = INTERIOR
  /\ \A v \in Units : f.units[v] = INTERIOR =>
       \E u \in Runs(f) : u < v /\ v < u + f.units[u]
=============================================================================

------------------------- MODULE TransactionsProofs -------------------------
(***************************************************************************)
(* What the two strategies promise, for any number of transactions,        *)
(* entities, components and mutations: an Optimistic transaction that      *)
(* validates has read current values, and a Pessimistic one that commits   *)
(* leaves the columns others have locked as they are.                      *)
(*                                                                         *)
(* A changeset is applied mutation by mutation.  What one mutation does to *)
(* a world is Touched; induction over the changeset turns it into what the *)
(* whole changeset does (Reported, Kept).                                  *)
(***************************************************************************)
EXTENDS Transactions, WellFoundedInduction, TLAPS

-----------------------------------------------------------------------------
(* Induction on natural numbers: the set of the numbers that have a        *)
(* property takes the place of the property.                               *)

(* A set of natural numbers that is not empty has a least element.         *)
LEMMA LeastElement ==
  ASSUME NEW T, T \subseteq Nat, T # {}
  PROVE  \E n \in T : \A m \in T : n <= m
<1> DEFINE R == OpToRel(<, Nat)
<1>1. IsWellFoundedOn(R, Nat)
  BY NatLessThanWellFounded
<1>2. \A m, n \in Nat : m < n => <<m, n>> \in R
  BY DEF OpToRel
<1> HIDE DEF R
<1>3. PICK n \in T : \A m \in T : ~(<<m, n>> \in R)
  BY <1>1, WFMin
<1>4. \A m \in T : ~(m < n)
  BY <1>2, <1>3
<1>5. QED
  BY <1>4

(* A set that holds 0 and, up to N, the successor of each number in it,    *)
(* holds 0 .. N.                                                           *)
LEMMA UpTo ==
  ASSUME NEW N \in Nat, NEW S,
         0 \in S,
         \A n \in 1 .. N : n - 1 \in S => n \in S
  PROVE  \A n \in 0 .. N : n \in S
<1> SUFFICES ASSUME NEW k \in 0 .. N, k \notin S
             PROVE  FALSE
  OBVIOUS
<1> DEFINE T == {n \in 0 .. N : n \notin S}
<1>1. PICK n \in T : \A m \in T : n <= m
  <2>1. T \subseteq Nat /\ T # {}
    OBVIOUS
  <2> HIDE DEF T
  <2>2. QED
    BY <2>1, LeastElement
<1>2. n \in 1 .. N
  OBVIOUS
<1>3. n - 1 \in 0 .. N /\ n - 1 \notin T
  BY <1>1, <1>2
<1>4. QED
  BY <1>2, <1>3


-----------------------------------------------------------------------------
(* The inductive invariant.                                                *)

(* A World in the middle of a call: some columns are marked.               *)
WorldsInCall ==
  [life : [Entities -> {"unborn", "reserved", "alive", "dead"}],
   place : [Entities -> Archetypes],
   val : [Entities -> [Components -> Values \cup {NoValue}]],
   archs : SUBSET Archetypes,
   marks : SUBSET Columns]

(* Only living entities are placed, in archetypes that exist, and have     *)
(* values for the components of their archetype.                           *)
Consistent(w) ==
  /\ w \in WorldsInCall
  /\ \A e \in Entities : w.life[e] # "alive" => w.place[e] = {}
  /\ \A e \in Entities : w.life[e] = "alive" => w.place[e] \in w.archs
  /\ \A e \in Entities, c \in Components :
       (w.val[e][c] # NoValue) <=> (c \in w.place[e])

(* What a mutation carries, for a closure that keeps to writes and spawns  *)
(* the entities in born.                                                   *)
WellFormed(m, writes, born) ==
  /\ m \in Mutations
  /\ m.cs \subseteq writes
  /\ m.op = "spawn" => m.e \in born
  /\ m.op \in {"spawn", "insert"} => m.v \in Values
  /\ m.op = "remove" => \E c \in Components : m.cs = {c}

BuffersOK ==
  \A t \in Txs : \A i \in 1 .. Len(buffer[t]) :
    WellFormed(buffer[t][i], access[t].writes, Allocated(t))

(* A Tx that is not active has nothing: no locks, snapshot or buffer.      *)
PhasesOK ==
  \A t \in Txs :
    /\ (strategy[t] # "none") <=> (phase[t] = "active")
    /\ phase[t] # "active" => /\ newer[t] = {} /\ reads[t] = {} /\ unseen[t] = {}
                              /\ buffer[t] = << >> /\ archsAt[t] = {}
                              /\ access[t] = NoAccess

(* The handles a Tx has allocated are its own until it commits or drops.   *)
AllocationsOK ==
  /\ \A t \in Txs : \A e \in Allocated(t) : world.life[e] = "reserved"
  /\ \A t, u \in Txs : t # u => Allocated(t) \cap Allocated(u) = {}

(* What t reads is in its snapshot, unless the entity is unseen.           *)
SnapshotOK(t) == strategy[t] = "optimistic" =>
  /\ \A r \in reads[t] : r[2] \in access[t].reads \cup access[t].writes
  /\ \A e \in Entities :
       e \notin unseen[t] /\ world.place[e] # {} => world.place[e] \in archsAt[t]

ReadsCurrent(t) == strategy[t] = "optimistic" /\ newer[t] = {} =>
  \A r \in reads[t] :
    r[1] \notin unseen[t] /\ r[2] \in world.place[r[1]] => world.val[r[1]][r[2]] = r[3]

(* The lock table: an exclusive lock shuts out every other one.            *)
LocksExclude ==
  \A t, u \in Txs : t # u => HeldExcl(t) \cap Held(u) = {}

IInv ==
  /\ TypeOK /\ Consistent(world)
  /\ BuffersOK /\ PhasesOK /\ AllocationsOK /\ LocksExclude
  /\ \A t \in Txs : SnapshotOK(t) /\ ReadsCurrent(t)

-----------------------------------------------------------------------------
(* One operation on a world.                                               *)

(* r is w after an operation on e that may change the components in cs: a  *)
(* component e has afterwards is marked unless it was left alone in place, *)
(* and what is not in cs stays while e lives.                              *)
Touched(w, r, e, cs) ==
  /\ Consistent(r)
  /\ w.marks \subseteq r.marks
  /\ r.life[e] \in {"alive", "dead"}
  /\ \A f \in Entities : f # e =>
       r.life[f] = w.life[f] /\ r.place[f] = w.place[f] /\ r.val[f] = w.val[f]
  /\ \A c \in r.place[e] :
       \/ <<r.place[e], c>> \in r.marks
       \/ r.place[e] = w.place[e] /\ r.val[e][c] = w.val[e][c]
  /\ r.life[e] = "alive" =>
       \A c \in w.place[e] \ cs : c \in r.place[e] /\ r.val[e][c] = w.val[e][c]

(* The columns of an archetype are those of its components.                *)
LEMMA ColumnsOfArchetype ==
  ASSUME NEW a \in Archetypes
  PROVE  /\ ColumnsOf(a) \subseteq Columns
         /\ \A c \in a : <<a, c>> \in ColumnsOf(a)
         /\ \A c \in a : <<a, c>> \in Columns
BY DEF ColumnsOf, Columns, Archetypes

(* A row moves to archetype a: e is placed there with a value for every    *)
(* component, the old one where it had one.                                *)
LEMMA MoveToEffect ==
  ASSUME NEW w, Consistent(w), NEW e \in Entities, NEW a \in Archetypes, NEW v,
         v \in Values \/ a \subseteq w.place[e]
  PROVE  /\ Consistent(MoveTo(w, e, a, v))
         /\ MoveTo(w, e, a, v).marks = w.marks
         /\ MoveTo(w, e, a, v).life[e] = "alive"
         /\ MoveTo(w, e, a, v).place[e] = a
         /\ \A c \in a \cap w.place[e] : MoveTo(w, e, a, v).val[e][c] = w.val[e][c]
         /\ \A f \in Entities : f # e =>
              /\ MoveTo(w, e, a, v).life[f] = w.life[f]
              /\ MoveTo(w, e, a, v).place[f] = w.place[f]
              /\ MoveTo(w, e, a, v).val[f] = w.val[f]
<1> DEFINE r == MoveTo(w, e, a, v)
           row == [c \in Components |-> IF c \notin a THEN NoValue
                                        ELSE IF w.val[e][c] = NoValue THEN v ELSE w.val[e][c]]
<1>1. w \in WorldsInCall
  BY DEF Consistent
<1>2. r = [life |-> [w.life EXCEPT ![e] = "alive"], place |-> [w.place EXCEPT ![e] = a],
           val |-> [w.val EXCEPT ![e] = row], archs |-> w.archs \cup {a}, marks |-> w.marks]
  BY <1>1 DEF MoveTo, WorldsInCall
<1>3. \A c \in a : w.val[e][c] = NoValue => v \in Values
  BY <1>1 DEF Consistent, Archetypes
<1>4. row \in [Components -> Values \cup {NoValue}]
  BY <1>1, <1>3 DEF WorldsInCall, Archetypes
<1>5. \A c \in Components : row[c] # NoValue <=> c \in a
  BY <1>3, TransactionsAssumption
<1>6. \A c \in a \cap w.place[e] : row[c] = w.val[e][c]
  BY <1>1 DEF Consistent, WorldsInCall, Archetypes
<1> HIDE DEF row
<1>7. r \in WorldsInCall
  BY <1>1, <1>2, <1>4 DEF WorldsInCall
<1>8. /\ r.marks = w.marks /\ r.archs = w.archs \cup {a}
      /\ r.life[e] = "alive" /\ r.place[e] = a /\ r.val[e] = row
      /\ \A f \in Entities : f # e =>
           r.life[f] = w.life[f] /\ r.place[f] = w.place[f] /\ r.val[f] = w.val[f]
  BY <1>1, <1>2 DEF WorldsInCall
<1> HIDE DEF r
<1>9. Consistent(r)
  BY <1>5, <1>7, <1>8 DEF Consistent
<1>10. QED
  BY <1>6, <1>8, <1>9 DEF r

(* Values of e in cs are overwritten with v, where e has all of cs.        *)
LEMMA SetValueEffect ==
  ASSUME NEW w, Consistent(w), NEW e \in Entities,
         NEW cs \in SUBSET Components, cs \subseteq w.place[e], NEW v \in Values
  PROVE  LET r == SetValue(w, e, cs, v)
         IN  /\ Consistent(r)
             /\ r.life = w.life /\ r.place = w.place /\ r.marks = w.marks
             /\ \A c \in w.place[e] \ cs : r.val[e][c] = w.val[e][c]
             /\ \A f \in Entities : f # e => r.val[f] = w.val[f]
<1> DEFINE r == SetValue(w, e, cs, v)
           row == [c \in Components |-> IF c \in cs THEN v ELSE w.val[e][c]]
<1>1. w \in WorldsInCall
  BY DEF Consistent
<1> DEFINE vals == [w.val EXCEPT ![e] = row]
<1>2. r = [w EXCEPT !.val = vals]
  BY <1>1 DEF SetValue, WorldsInCall
<1>3. row \in [Components -> Values \cup {NoValue}]
  BY <1>1 DEF WorldsInCall
<1>4. \A c \in Components : row[c] # NoValue <=> c \in w.place[e]
  BY TransactionsAssumption DEF Consistent
<1>5. \A c \in w.place[e] \ cs : row[c] = w.val[e][c]
  BY <1>1 DEF WorldsInCall, Archetypes
<1> HIDE DEF row
<1>6. /\ vals \in [Entities -> [Components -> Values \cup {NoValue}]]
      /\ vals[e] = row
      /\ \A f \in Entities : f # e => vals[f] = w.val[f]
  BY <1>1, <1>3 DEF WorldsInCall
<1> HIDE DEF vals, r
<1>7. /\ r \in WorldsInCall
      /\ r.life = w.life /\ r.place = w.place /\ r.marks = w.marks /\ r.archs = w.archs
      /\ r.val = vals
  BY <1>1, <1>2, <1>6 DEF WorldsInCall
<1>8. Consistent(r)
  BY <1>4, <1>6, <1>7 DEF Consistent
<1>9. QED
  BY <1>5, <1>6, <1>7, <1>8 DEF r

(* Marking columns changes nothing else.                                   *)
LEMMA MarkEffect ==
  ASSUME NEW w, Consistent(w), NEW cols \in SUBSET Columns
  PROVE  LET r == Mark(w, cols)
         IN  /\ Consistent(r)
             /\ r.life = w.life /\ r.place = w.place /\ r.val = w.val
             /\ r.marks = w.marks \cup cols
BY DEF Mark, Consistent, WorldsInCall

(* Spawning into a.                                                        *)
LEMMA SpawnTouches ==
  ASSUME NEW w, Consistent(w), NEW e \in Entities, NEW a \in Archetypes, NEW v \in Values,
         w.life[e] # "alive"
  PROVE  Touched(w, SpawnAt(w, e, a, v), e, a)
<1> DEFINE m == MoveTo(w, e, a, v)
           r == Mark(m, ColumnsOf(a))
<1>1. /\ Consistent(m) /\ m.marks = w.marks /\ m.life[e] = "alive" /\ m.place[e] = a
      /\ \A f \in Entities : f # e =>
           m.life[f] = w.life[f] /\ m.place[f] = w.place[f] /\ m.val[f] = w.val[f]
  BY MoveToEffect
<1>2. w.place[e] = {}
  BY DEF Consistent
<1> HIDE DEF m
<1>3. /\ Consistent(r) /\ r.life = m.life /\ r.place = m.place /\ r.val = m.val
      /\ r.marks = m.marks \cup ColumnsOf(a)
  BY <1>1, MarkEffect, ColumnsOfArchetype
<1>4. SpawnAt(w, e, a, v) = r
  BY DEF SpawnAt, m
<1> HIDE DEF r
<1>5. QED
  BY <1>1, <1>2, <1>3, <1>4, ColumnsOfArchetype DEF Touched

(* Inserting the components in cs.                                         *)
LEMMA InsertTouches ==
  ASSUME NEW w, Consistent(w), NEW e \in Entities, NEW cs \in SUBSET Components, NEW v \in Values
  PROVE  Touched(w, InsertAt(w, e, cs, v), e, cs)
<1> DEFINE a == w.place[e] \cup cs
           m == MoveTo(w, e, a, v)
           s == SetValue(m, e, cs, v)
           cols == IF cs \subseteq w.place[e] THEN {a} \X cs ELSE ColumnsOf(a)
           r == Mark(s, cols)
<1>1. a \in Archetypes
  BY DEF Consistent, WorldsInCall, Archetypes
<1>2. InsertAt(w, e, cs, v) = r
  BY DEF InsertAt
<1>3. cols \in SUBSET Columns /\ \A c \in cs : <<a, c>> \in cols
  <2>1. CASE cs \subseteq w.place[e]
    <3>1. cols = {a} \X cs
      BY <2>1
    <3>2. \A c \in cs : <<a, c>> \in Columns
      BY <1>1, ColumnsOfArchetype
    <3> HIDE DEF cols, a
    <3>3. QED
      BY <3>1, <3>2
  <2>2. CASE ~(cs \subseteq w.place[e])
    BY <1>1, <2>2, ColumnsOfArchetype
  <2>3. QED
    BY <2>1, <2>2
<1>4. ~(cs \subseteq w.place[e]) => \A c \in a : <<a, c>> \in cols
  BY <1>1, ColumnsOfArchetype
<1>5. cs \subseteq w.place[e] => a = w.place[e]
  OBVIOUS
<1>6. w.place[e] \subseteq a /\ cs \subseteq a
  OBVIOUS
<1> HIDE DEF a, cols
<1>7. /\ Consistent(m) /\ m.marks = w.marks /\ m.life[e] = "alive" /\ m.place[e] = a
      /\ \A c \in a \cap w.place[e] : m.val[e][c] = w.val[e][c]
      /\ \A f \in Entities : f # e =>
           m.life[f] = w.life[f] /\ m.place[f] = w.place[f] /\ m.val[f] = w.val[f]
  BY <1>1, MoveToEffect
<1> HIDE DEF m
<1>8. /\ Consistent(s) /\ s.life = m.life /\ s.place = m.place /\ s.marks = m.marks
      /\ \A c \in a \ cs : s.val[e][c] = m.val[e][c]
      /\ \A f \in Entities : f # e => s.val[f] = m.val[f]
  <2>1. Consistent(m) /\ cs \subseteq m.place[e] /\ m.place[e] = a
    BY <1>6, <1>7
  <2>2. QED
    BY <2>1, SetValueEffect
<1> HIDE DEF s
<1>9. /\ Consistent(r) /\ r.life = s.life /\ r.place = s.place /\ r.val = s.val
      /\ r.marks = s.marks \cup cols
  BY <1>3, <1>8, MarkEffect
<1> HIDE DEF r
<1>10. \A c \in w.place[e] \ cs : c \in r.place[e] /\ r.val[e][c] = w.val[e][c]
  BY <1>6, <1>7, <1>8, <1>9
<1>11. \A c \in r.place[e] : \/ <<r.place[e], c>> \in r.marks
                             \/ r.place[e] = w.place[e] /\ r.val[e][c] = w.val[e][c]
  <2> SUFFICES ASSUME NEW c \in a PROVE \/ <<a, c>> \in cols
                                        \/ a = w.place[e] /\ r.val[e][c] = w.val[e][c]
    BY <1>7, <1>8, <1>9
  <2>1. CASE c \in cs
    BY <1>3, <2>1
  <2>2. CASE ~(cs \subseteq w.place[e])
    BY <1>4, <2>2
  <2>3. CASE c \notin cs /\ cs \subseteq w.place[e]
    BY <1>5, <1>10, <2>3
  <2>4. QED
    BY <2>1, <2>2, <2>3
<1>12. QED
  BY <1>2, <1>7, <1>8, <1>9, <1>10, <1>11 DEF Touched

(* Removing component c.                                                   *)
LEMMA RemoveTouches ==
  ASSUME NEW w, Consistent(w), NEW e \in Entities, NEW c \in Components, w.life[e] = "alive"
  PROVE  Touched(w, RemoveAt(w, e, c), e, {c})
<1> DEFINE a == w.place[e] \ {c}
           m == MoveTo(w, e, a, NoValue)
           r == Mark(m, ColumnsOf(a))
<1>1. CASE c \notin w.place[e]
  BY <1>1 DEF RemoveAt, Touched
<1>2. CASE c \in w.place[e]
  <2>1. a \in Archetypes /\ a \subseteq w.place[e] /\ RemoveAt(w, e, c) = r
    BY <1>2 DEF Consistent, WorldsInCall, Archetypes, RemoveAt
  <2>2. \A d \in w.place[e] \ {c} : d \in a
    OBVIOUS
  <2> HIDE DEF a
  <2>3. /\ Consistent(m) /\ m.marks = w.marks /\ m.life[e] = "alive" /\ m.place[e] = a
        /\ \A d \in a \cap w.place[e] : m.val[e][d] = w.val[e][d]
        /\ \A f \in Entities : f # e =>
             m.life[f] = w.life[f] /\ m.place[f] = w.place[f] /\ m.val[f] = w.val[f]
    BY <2>1, MoveToEffect
  <2> HIDE DEF m
  <2>4. /\ Consistent(r) /\ r.life = m.life /\ r.place = m.place /\ r.val = m.val
        /\ r.marks = m.marks \cup ColumnsOf(a)
    BY <2>1, <2>3, MarkEffect, ColumnsOfArchetype
  <2> HIDE DEF r
  <2>5. QED
    BY <2>1, <2>2, <2>3, <2>4, ColumnsOfArchetype DEF Touched
<1>3. QED
  BY <1>1, <1>2

(* Despawning.                                                             *)
LEMMA DespawnTouches ==
  ASSUME NEW w, Consistent(w), NEW e \in Entities
  PROVE  /\ Touched(w, DespawnAt(w, e), e, {})
         /\ DespawnAt(w, e).marks = w.marks
         /\ DespawnAt(w, e).place[e] = {}
<1> DEFINE m == MoveTo(w, e, {}, NoValue)
           r == DespawnAt(w, e)
<1>1. /\ Consistent(m) /\ m.marks = w.marks /\ m.place[e] = {}
      /\ \A f \in Entities : f # e =>
           m.life[f] = w.life[f] /\ m.place[f] = w.place[f] /\ m.val[f] = w.val[f]
  <2>1. {} \in Archetypes /\ {} \subseteq w.place[e]
    BY DEF Archetypes
  <2>2. QED
    BY <2>1, MoveToEffect
<1>2. r = [m EXCEPT !.life[e] = "dead", !.archs = w.archs]
  BY DEF DespawnAt
<1>3. w \in WorldsInCall /\ m \in WorldsInCall
  BY <1>1 DEF Consistent
<1> HIDE DEF m, r
<1>4. /\ r.marks = m.marks /\ r.place = m.place /\ r.val = m.val /\ r.archs = w.archs
      /\ r.life = [m.life EXCEPT ![e] = "dead"]
      /\ r \in WorldsInCall
  BY <1>2, <1>3 DEF WorldsInCall
<1>5. \A f \in Entities : r.life[f] = IF f = e THEN "dead" ELSE m.life[f]
  BY <1>3, <1>4 DEF WorldsInCall
<1>6. Consistent(r)
  BY <1>1, <1>4, <1>5 DEF Consistent
<1>7. Touched(w, r, e, {})
  BY <1>1, <1>4, <1>5, <1>6 DEF Touched
<1>8. QED
  BY <1>1, <1>4, <1>7 DEF r

-----------------------------------------------------------------------------
(* A changeset.                                                            *)

LEMMA MutationTouches ==
  ASSUME NEW w, Consistent(w), NEW writes, NEW born, NEW m, WellFormed(m, writes, born), Applies(w, m)
  PROVE  Touched(w, ApplyOne(w, m), m.e, m.cs)
<1>1. /\ m.e \in Entities /\ m.cs \in SUBSET Components
      /\ m.op \in {"spawn", "insert", "remove", "despawn"}
  BY DEF WellFormed, Mutations
<1>2. CASE m.op = "spawn"
  <2>1. m.v \in Values /\ w.life[m.e] # "alive" /\ m.cs \in Archetypes
    BY <1>1, <1>2 DEF WellFormed, Applies, Archetypes
  <2>2. ApplyOne(w, m) = SpawnAt(w, m.e, m.cs, m.v)
    BY <1>2 DEF ApplyOne
  <2>3. QED
    BY <1>1, <2>1, <2>2, SpawnTouches
<1>3. CASE m.op = "insert"
  <2>1. m.v \in Values /\ ApplyOne(w, m) = InsertAt(w, m.e, m.cs, m.v)
    BY <1>3 DEF WellFormed, ApplyOne
  <2>2. QED
    BY <1>1, <2>1, InsertTouches
<1>4. CASE m.op = "remove"
  <2>1. PICK c \in Components : m.cs = {c}
    BY <1>4 DEF WellFormed
  <2>2. (CHOOSE d \in m.cs : TRUE) = c
    BY <2>1
  <2>3. w.life[m.e] = "alive" /\ ApplyOne(w, m) = RemoveAt(w, m.e, c)
    BY <1>4, <2>2 DEF Applies, ApplyOne
  <2>4. QED
    BY <1>1, <2>1, <2>3, RemoveTouches
<1>5. CASE m.op = "despawn"
  <2>1. ApplyOne(w, m) = DespawnAt(w, m.e)
    BY <1>5 DEF ApplyOne
  <2>2. Touched(w, ApplyOne(w, m), m.e, {})
    BY <1>1, <2>1, DespawnTouches
  <2>3. QED
    BY <2>2 DEF Touched
<1>6. QED
  BY <1>1, <1>2, <1>3, <1>4, <1>5

(* A component of w is marked, or its entity has not moved since w0 and    *)
(* has the same value.                                                     *)
Reported(w0, w, e) ==
  \A c \in w.place[e] :
    \/ <<w.place[e], c>> \in w.marks
    \/ w.place[e] = w0.place[e] /\ w.val[e][c] = w0.val[e][c]

(* Outside of the components written, a living entity of w0 dies or keeps  *)
(* what it has.                                                            *)
Kept(w0, w, writes) ==
  \A e \in Entities : \A c \in w0.place[e] \ writes :
    \/ w.life[e] = "dead"
    \/ w.life[e] = "alive" /\ c \in w.place[e] /\ w.val[e][c] = w0.val[e][c]

(* A handle that was not born here stays reserved.                         *)
Applied(w0, w, writes, born) ==
  /\ Consistent(w)
  /\ \A e \in Entities : Reported(w0, w, e)
  /\ Kept(w0, w, writes)
  /\ \A e \in Entities \ born : w0.life[e] = "reserved" => w.life[e] = "reserved"

LEMMA TouchedIsReported ==
  ASSUME NEW w0, NEW w, NEW r, NEW x \in Entities, NEW cs,
         \A e \in Entities : Reported(w0, w, e),
         Touched(w, r, x, cs)
  PROVE  \A e \in Entities : Reported(w0, r, e)
<1> SUFFICES ASSUME NEW e \in Entities, NEW c \in r.place[e]
             PROVE  \/ <<r.place[e], c>> \in r.marks
                    \/ r.place[e] = w0.place[e] /\ r.val[e][c] = w0.val[e][c]
  BY DEF Reported
<1>1. \/ r.place[e] = w.place[e] /\ r.val[e][c] = w.val[e][c]
      \/ <<r.place[e], c>> \in r.marks
  BY DEF Touched
<1>2. w.marks \subseteq r.marks
  BY DEF Touched
<1>3. QED
  BY <1>1, <1>2 DEF Reported

LEMMA ApplyOneStep ==
  ASSUME NEW w0, NEW w, NEW writes, NEW born, NEW m,
         Applied(w0, w, writes, born), WellFormed(m, writes, born), Applies(w, m)
  PROVE  Applied(w0, ApplyOne(w, m), writes, born)
<1> DEFINE r == ApplyOne(w, m)
<1>1. m.e \in Entities /\ m.cs \subseteq writes
  BY DEF WellFormed, Mutations
<1>2. Touched(w, r, m.e, m.cs)
  BY MutationTouches DEF Applied
<1>3. w.life[m.e] \in {"reserved", "alive"}
  BY DEF Applies
<1> HIDE DEF r
<1>4. \A e \in Entities : Reported(w0, r, e)
  BY <1>1, <1>2, TouchedIsReported DEF Applied
<1>5. ASSUME NEW e \in Entities, NEW c \in w0.place[e] \ writes
      PROVE  \/ r.life[e] = "dead"
             \/ r.life[e] = "alive" /\ c \in r.place[e] /\ r.val[e][c] = w0.val[e][c]
  <2>1. \/ w.life[e] = "dead"
        \/ w.life[e] = "alive" /\ c \in w.place[e] /\ w.val[e][c] = w0.val[e][c]
    BY DEF Applied, Kept
  <2>2. CASE e # m.e
    BY <2>1, <2>2, <1>2 DEF Touched
  <2>3. CASE e = m.e
    <3>1. c \in w.place[e] \ m.cs /\ w.val[e][c] = w0.val[e][c]
      BY <1>1, <1>3, <2>1, <2>3
    <3>2. r.life[e] \in {"alive", "dead"}
      BY <1>2, <2>3 DEF Touched
    <3>3. r.life[e] = "alive" => c \in r.place[e] /\ r.val[e][c] = w.val[e][c]
      BY <1>2, <2>3, <3>1 DEF Touched
    <3>4. QED
      BY <3>1, <3>2, <3>3
  <2>4. QED
    BY <2>2, <2>3
<1>6. \A e \in Entities \ born : w0.life[e] = "reserved" => r.life[e] = "reserved"
  <2>1. w.life[m.e] = "reserved" => m.e \in born
    BY DEF Applies, WellFormed
  <2>2. QED
    BY <1>2, <2>1 DEF Applied, Touched
<1>7. QED
  BY <1>2, <1>4, <1>5, <1>6 DEF Applied, Kept, Touched, r

(* The recursive definition of ApplyRun has a solution: one for every      *)
(* prefix of the changeset, by induction on its length.                    *)
LEMMA ApplyRunUnfolds ==
  ASSUME NEW w, NEW ms, Len(ms) \in Nat
  PROVE  ApplyRun(w, ms) =
           [n \in 0 .. Len(ms) |-> IF n = 0 THEN [w |-> w, ok |-> TRUE]
                                   ELSE ApplyNext(ApplyRun(w, ms)[n - 1], ms[n])]
<1> DEFINE base == [w |-> w, ok |-> TRUE]
           Solves(f, k) == f = [n \in 0 .. k |-> IF n = 0 THEN base
                                                 ELSE ApplyNext(f[n - 1], ms[n])]
           S == {k \in 0 .. Len(ms) : \E f : Solves(f, k)}
<1> HIDE DEF base
<1>1. 0 \in S
  <2> DEFINE f0 == [n \in 0 .. 0 |-> base]
  <2>1. Solves(f0, 0)
    OBVIOUS
  <2> HIDE DEF f0, Solves
  <2>2. QED
    BY <2>1
<1>2. ASSUME NEW k \in 1 .. Len(ms), k - 1 \in S
      PROVE  k \in S
  <2>1. PICK f : Solves(f, k - 1)
    BY <1>2
  <2> DEFINE g == [n \in 0 .. k |-> IF n = k THEN ApplyNext(f[k - 1], ms[k]) ELSE f[n]]
  <2>2. \A n \in 0 .. k - 1 : g[n] = f[n]
    OBVIOUS
  <2>3. \A n \in 0 .. k - 1 : f[n] = IF n = 0 THEN base ELSE ApplyNext(f[n - 1], ms[n])
    BY <2>1
  <2>4. \A n \in 0 .. k : g[n] = IF n = 0 THEN base ELSE ApplyNext(g[n - 1], ms[n])
    <3> SUFFICES ASSUME NEW n \in 0 .. k
                 PROVE  g[n] = IF n = 0 THEN base ELSE ApplyNext(g[n - 1], ms[n])
      OBVIOUS
    <3>1. CASE n = k
      <4>1. g[n] = ApplyNext(f[n - 1], ms[n]) /\ g[n - 1] = f[n - 1] /\ n # 0
        BY <2>2, <3>1
      <4>2. QED
        BY <4>1
    <3>2. CASE n # k
      <4>1. n \in 0 .. k - 1 /\ (n # 0 => n - 1 \in 0 .. k - 1)
        BY <3>2
      <4>2. QED
        BY <4>1, <2>2, <2>3
    <3>3. QED
      BY <3>1, <3>2
  <2>5. g = [n \in 0 .. k |-> g[n]]
    OBVIOUS
  <2> HIDE DEF g
  <2>6. Solves(g, k)
    BY <2>4, <2>5
  <2>7. QED
    BY <2>6
<1> HIDE DEF S
<1>3. Len(ms) \in S
  <2>1. \A k \in 1 .. Len(ms) : k - 1 \in S => k \in S
    BY <1>2
  <2>2. \A k \in 0 .. Len(ms) : k \in S
    BY <1>1, <2>1, UpTo
  <2>3. QED
    BY <2>2
<1>4. \E f : Solves(f, Len(ms))
  BY <1>3 DEF S
<1>5. QED
  BY <1>4 DEF ApplyRun, base

(* What the application of a changeset leaves of a world.                  *)
LEMMA ApplyAllEffect ==
  ASSUME NEW w, Consistent(w), NEW writes, NEW born, NEW ms, Len(ms) \in Nat,
         \A i \in 1 .. Len(ms) : WellFormed(ms[i], writes, born)
  PROVE  /\ Applied(w, ApplyAll(w, ms).w, writes, born)
         /\ ApplyAll(w, ms).ok \in BOOLEAN
<1> DEFINE run == ApplyRun(w, ms)
           base == [w |-> w, ok |-> TRUE]
           S == {n \in 0 .. Len(ms) :
                   \E x : \E b \in BOOLEAN : run[n] = [w |-> x, ok |-> b] /\ Applied(w, x, writes, born)}
<1>1. /\ run[0] = base
      /\ \A n \in 1 .. Len(ms) : run[n] = ApplyNext(run[n - 1], ms[n])
  <2>1. run = [n \in 0 .. Len(ms) |-> IF n = 0 THEN base ELSE ApplyNext(run[n - 1], ms[n])]
    BY ApplyRunUnfolds
  <2> HIDE DEF run, base
  <2>2. \A n \in 0 .. Len(ms) : run[n] = IF n = 0 THEN base ELSE ApplyNext(run[n - 1], ms[n])
    BY <2>1
  <2>3. QED
    BY <2>2
<1> HIDE DEF run
<1>2. 0 \in S
  <2>1. Applied(w, w, writes, born)
    BY DEF Applied, Reported, Kept, Consistent
  <2>2. PICK b \in BOOLEAN : b = TRUE
    OBVIOUS
  <2>3. run[0] = [w |-> w, ok |-> b]
    BY <1>1, <2>2, Zenon
  <2>4. QED
    BY <2>1, <2>3
<1>3. ASSUME NEW n \in 1 .. Len(ms), n - 1 \in S
      PROVE  n \in S
  <2>1. PICK x : \E b \in BOOLEAN : run[n - 1] = [w |-> x, ok |-> b] /\ Applied(w, x, writes, born)
    BY <1>3
  <2>2. PICK b \in BOOLEAN : run[n - 1] = [w |-> x, ok |-> b]
    BY <2>1
  <2>3. run[n] = ApplyNext([w |-> x, ok |-> b], ms[n])
    BY <1>1, <2>2
  <2>4. CASE b /\ Applies(x, ms[n])
    <3>1. Applied(w, ApplyOne(x, ms[n]), writes, born)
      BY <2>1, <2>4, ApplyOneStep
    <3>2. run[n] = [w |-> ApplyOne(x, ms[n]), ok |-> b]
      BY <2>3, <2>4 DEF ApplyNext
    <3>3. QED
      BY <3>1, <3>2
  <2>5. CASE ~(b /\ Applies(x, ms[n]))
    <3>1. run[n] = [w |-> x, ok |-> FALSE]
      BY <2>3, <2>5 DEF ApplyNext
    <3>2. PICK q \in BOOLEAN : q = FALSE
      OBVIOUS
    <3>3. run[n] = [w |-> x, ok |-> q]
      BY <3>1, <3>2, Zenon
    <3>4. QED
      BY <2>1, <3>3
  <2>6. QED
    BY <2>4, <2>5
<1>4. Len(ms) \in S
  <2> HIDE DEF S
  <2>1. \A n \in 1 .. Len(ms) : n - 1 \in S => n \in S
    BY <1>3
  <2>2. \A n \in 0 .. Len(ms) : n \in S
    BY <1>2, <2>1, UpTo
  <2>3. QED
    BY <2>2
<1>5. PICK x : \E b \in BOOLEAN :
             ApplyAll(w, ms) = [w |-> x, ok |-> b] /\ Applied(w, x, writes, born)
  BY <1>4 DEF ApplyAll, run
<1>6. QED
  BY <1>5

-----------------------------------------------------------------------------
(* Steps.                                                                  *)

(* The world between calls is a world in a call with no marks.             *)
LEMMA Settled ==
  ASSUME NEW w, Consistent(w)
  PROVE  LET r == [w EXCEPT !.marks = {}]
         IN  /\ Consistent(r) /\ r \in Worlds
             /\ r.life = w.life /\ r.place = w.place /\ r.val = w.val
BY DEF Consistent, WorldsInCall, Worlds

(* When the World becomes w, and w reports its changes (but for quiet      *)
(* entities), a transaction that goes on sees them at validation.          *)
LEMMA BecomeKeeps ==
  ASSUME IInv, NEW w, NEW ending \in SUBSET Txs, NEW quiet \in SUBSET Entities,
         Become(w, ending, quiet), Consistent(w),
         \A e \in Entities \ quiet : Reported(world, w, e),
         \A t \in Txs \ ending : /\ strategy'[t] = strategy[t] /\ access'[t] = access[t]
                                 /\ archsAt'[t] = archsAt[t] /\ reads'[t] = reads[t]
  PROVE  /\ Consistent(world') /\ world' \in Worlds
         /\ world'.life = w.life /\ world'.place = w.place /\ world'.val = w.val
         /\ newer' \in [Txs -> SUBSET Columns] /\ unseen' \in [Txs -> SUBSET Entities]
         /\ \A t \in Txs : t \in ending \/ strategy[t] = "none" => newer'[t] = {} /\ unseen'[t] = {}
         /\ \A t \in Txs \ ending : SnapshotOK(t)' /\ ReadsCurrent(t)'
<1>1. /\ Consistent(world') /\ world' \in Worlds
      /\ world'.life = w.life /\ world'.place = w.place /\ world'.val = w.val
  BY Settled DEF Become
<1>2. newer' \in [Txs -> SUBSET Columns]
  BY DEF Become, IInv, TypeOK, Snapshotted
<1>3. unseen' \in [Txs -> SUBSET Entities]
  BY DEF Become, IInv, TypeOK
<1>4. \A t \in Txs : t \in ending \/ strategy[t] = "none" => newer'[t] = {} /\ unseen'[t] = {}
  <2> SUFFICES ASSUME NEW t \in Txs, t \in ending \/ strategy[t] = "none"
               PROVE  newer'[t] = {} /\ unseen'[t] = {}
    OBVIOUS
  <2>1. strategy[t] = "none" => newer[t] = {} /\ Snapshotted(t) = {}
    BY DEF IInv, PhasesOK, Snapshotted
  <2>2. QED
    BY <2>1 DEF Become
<1>5. ASSUME NEW t \in Txs \ ending, strategy[t] = "optimistic"
      PROVE  SnapshotOK(t)' /\ ReadsCurrent(t)'
  <2>1. /\ strategy'[t] = "optimistic" /\ access'[t] = access[t]
        /\ archsAt'[t] = archsAt[t] /\ reads'[t] = reads[t]
    BY <1>5
  <2>2. newer'[t] = newer[t] \cup (w.marks \cap Snapshotted(t))
    BY <1>5 DEF Become
  <2>3. \A e \in Entities : e \notin unseen'[t] =>
          /\ e \notin unseen[t] /\ e \notin quiet
          /\ w.place[e] = world.place[e] \/ w.place[e] \in archsAt[t]
    BY <1>5 DEF Become
  <2>4. SnapshotOK(t) /\ ReadsCurrent(t)
    BY DEF IInv
  <2>5. \A e \in Entities :
          e \notin unseen'[t] /\ w.place[e] # {} => w.place[e] \in archsAt[t]
    BY <1>5, <2>3, <2>4 DEF SnapshotOK
  <2>6. SnapshotOK(t)'
    BY <1>1, <1>5, <2>1, <2>4, <2>5 DEF SnapshotOK
  <2>7. ASSUME newer'[t] = {}, NEW r \in reads[t],
               r[1] \notin unseen'[t], r[2] \in w.place[r[1]]
        PROVE  w.val[r[1]][r[2]] = r[3]
    <3> DEFINE e == r[1]
               c == r[2]
    <3>1. e \in Entities /\ c \in Components
      BY DEF IInv, TypeOK
    <3>2. c \in access[t].reads \cup access[t].writes
      BY <1>5, <2>4 DEF SnapshotOK
    <3>3. w.place[e] \in archsAt[t] /\ w.place[e] \in Archetypes
      BY <2>5, <2>7, <3>1 DEF Consistent, WorldsInCall
    <3>4. <<w.place[e], c>> \in Snapshotted(t)
      BY <1>5, <2>7, <3>1, <3>2, <3>3, ColumnsOfArchetype DEF Snapshotted
    <3>5. <<w.place[e], c>> \notin w.marks
      BY <2>2, <2>7, <3>4
    <3>6. e \notin quiet /\ e \notin unseen[t]
      BY <2>3, <2>7, <3>1
    <3>7. w.place[e] = world.place[e] /\ w.val[e][c] = world.val[e][c]
      BY <2>7, <3>1, <3>5, <3>6 DEF Reported
    <3>8. newer[t] = {}
      BY <2>2, <2>7
    <3>9. QED
      BY <1>5, <2>4, <2>7, <3>6, <3>7, <3>8 DEF ReadsCurrent
  <2>8. ReadsCurrent(t)'
    BY <1>1, <2>1, <2>7 DEF ReadsCurrent
  <2>9. QED
    BY <2>6, <2>8
<1>6. ASSUME NEW t \in Txs \ ending, strategy[t] # "optimistic"
      PROVE  SnapshotOK(t)' /\ ReadsCurrent(t)'
  BY <1>6 DEF SnapshotOK, ReadsCurrent
<1>7. QED
  BY <1>1, <1>2, <1>3, <1>4, <1>5, <1>6

LEMMA AllocatedAreEntities ==
  ASSUME TypeOK, NEW t \in Txs
  PROVE  Allocated(t) \subseteq Entities
<1>1. buffer[t] \in Seq(Mutations)
  BY DEF TypeOK
<1> DEFINE b == buffer[t]
<1>2. \A m \in Mutations : m.e \in Entities
  BY DEF Mutations
<1>3. \A j \in DOMAIN b : b[j].e \in Entities
  <2> HIDE DEF Mutations, b
  <2>1. b \in Seq(Mutations)
    BY <1>1 DEF b
  <2>2. \A j \in DOMAIN b : b[j] \in Mutations
    BY <2>1
  <2>3. QED
    BY <1>2, <2>2
<1>4. QED
  BY <1>3 DEF Allocated, Buffered

(* A call on the World keeps the invariant, if the entities that were not  *)
(* unborn or alive stay as they are.                                       *)
LEMMA WorldStepKeeps ==
  ASSUME IInv, NEW w, NEW quiet \in SUBSET Entities, WorldStep(w, quiet), Consistent(w),
         \A e \in Entities \ quiet : Reported(world, w, e),
         \A e \in Entities : world.life[e] = "reserved" => w.life[e] = "reserved"
  PROVE  IInv'
<1>1. /\ Become(w, {}, quiet)
      /\ UNCHANGED <<phase, strategy, access, archsAt, buffer, panicked, reads>>
  BY DEF WorldStep
<1>2. /\ Consistent(world') /\ world' \in Worlds
      /\ world'.life = w.life /\ world'.place = w.place /\ world'.val = w.val
      /\ newer' \in [Txs -> SUBSET Columns] /\ unseen' \in [Txs -> SUBSET Entities]
      /\ \A t \in Txs : strategy[t] = "none" => newer'[t] = {} /\ unseen'[t] = {}
      /\ \A t \in Txs : SnapshotOK(t)' /\ ReadsCurrent(t)'
  <2>1. \A t \in Txs \ {} : /\ strategy'[t] = strategy[t] /\ access'[t] = access[t]
                            /\ archsAt'[t] = archsAt[t] /\ reads'[t] = reads[t]
    BY <1>1
  <2>2. QED
    BY <1>1, <2>1, BecomeKeeps
<1>3. TypeOK'
  BY <1>1, <1>2 DEF IInv, TypeOK, Consistent
<1>4. \A t \in Txs : Allocated(t)' = Allocated(t)
  BY <1>1 DEF Allocated, Buffered
<1>5. BuffersOK'
  BY <1>1, <1>4 DEF IInv, BuffersOK
<1>6. PhasesOK'
  BY <1>1, <1>2 DEF IInv, PhasesOK
<1>7. AllocationsOK'
  <2>1. \A t \in Txs : Allocated(t) \subseteq Entities
    BY AllocatedAreEntities DEF IInv
  <2>2. QED
    BY <1>2, <1>4, <2>1 DEF IInv, AllocationsOK
<1>8. LocksExclude'
  BY <1>1 DEF IInv, LocksExclude, HeldExcl, Held, HeldShared
<1>9. QED
  BY <1>2, <1>3, <1>5, <1>6, <1>7, <1>8 DEF IInv

LEMMA WorldCallsKeep ==
  ASSUME IInv, WorldNext
  PROVE  IInv'
<1>0. Consistent(world)
  BY DEF IInv
<1>1. ASSUME NEW e \in Entities, NEW a \in Bundles, NEW v \in Values, WorldSpawn(e, a, v)
      PROVE  IInv'
  <2> DEFINE w == SpawnAt(world, e, a, v)
  <2>1. world.life[e] = "unborn" /\ WorldStep(w, {}) /\ a \in Archetypes
    BY <1>1, TransactionsAssumption DEF WorldSpawn
  <2>2. Touched(world, w, e, a)
    BY <1>0, <2>1, SpawnTouches
  <2> HIDE DEF w
  <2>3. Consistent(w) /\ \A f \in Entities \ {} : Reported(world, w, f)
    BY <2>2 DEF Touched, Reported
  <2>4. \A f \in Entities : world.life[f] = "reserved" => w.life[f] = "reserved"
    BY <2>1, <2>2 DEF Touched
  <2>5. QED
    BY <2>1, <2>3, <2>4, WorldStepKeeps
<1>2. ASSUME NEW e \in Entities, NEW c \in Components, NEW v \in Values, WorldGetMut(e, c, v)
      PROVE  IInv'
  <2> DEFINE m == SetValue(world, e, {c}, v)
             w == Mark(m, {<<world.place[e], c>>})
  <2>1. c \in world.place[e] /\ WorldStep(w, {}) /\ world.place[e] \in Archetypes
    BY <1>0, <1>2 DEF WorldGetMut, Consistent, WorldsInCall
  <2>2. <<world.place[e], c>> \in Columns
    BY <2>1, ColumnsOfArchetype
  <2>3. {c} \in SUBSET Components /\ {c} \subseteq world.place[e]
    BY <2>1
  <2>4. /\ Consistent(m) /\ m.life = world.life /\ m.place = world.place
        /\ m.marks = world.marks
        /\ \A d \in world.place[e] \ {c} : m.val[e][d] = world.val[e][d]
        /\ \A f \in Entities : f # e => m.val[f] = world.val[f]
    BY <1>0, <2>3, SetValueEffect
  <2> HIDE DEF m
  <2>5. /\ Consistent(w) /\ w.life = m.life /\ w.place = m.place /\ w.val = m.val
        /\ w.marks = m.marks \cup {<<world.place[e], c>>}
    BY <2>2, <2>4, MarkEffect
  <2> HIDE DEF w
  <2>6. \A f \in Entities \ {} : Reported(world, w, f)
    BY <2>4, <2>5 DEF Reported
  <2>7. QED
    BY <2>1, <2>4, <2>5, <2>6, WorldStepKeeps
<1>3. ASSUME NEW e \in Entities, NEW cs \in Bundles, NEW v \in Values, WorldInsert(e, cs, v)
      PROVE  IInv'
  <2> DEFINE w == InsertAt(world, e, cs, v)
  <2>1. world.life[e] = "alive" /\ WorldStep(w, {}) /\ cs \in SUBSET Components
    BY <1>3, TransactionsAssumption DEF WorldInsert, Alive, Archetypes
  <2>2. Touched(world, w, e, cs)
    BY <1>0, <2>1, InsertTouches
  <2> HIDE DEF w
  <2>3. Consistent(w) /\ \A f \in Entities \ {} : Reported(world, w, f)
    BY <2>2 DEF Touched, Reported
  <2>4. \A f \in Entities : world.life[f] = "reserved" => w.life[f] = "reserved"
    BY <2>1, <2>2 DEF Touched
  <2>5. QED
    BY <2>1, <2>3, <2>4, WorldStepKeeps
<1>4. ASSUME NEW e \in Entities, NEW c \in Removable, WorldRemove(e, c)
      PROVE  IInv'
  <2> DEFINE a == world.place[e] \ {c}
             w == MoveTo(world, e, a, NoValue)
  <2>1. world.life[e] = "alive" /\ WorldStep(w, {e})
    BY <1>4 DEF WorldRemove, Alive
  <2>2. a \in Archetypes /\ a \subseteq world.place[e]
    BY <1>0 DEF Consistent, WorldsInCall, Archetypes
  <2> HIDE DEF a
  <2>3. /\ Consistent(w)
        /\ \A f \in Entities : f # e =>
             w.life[f] = world.life[f] /\ w.place[f] = world.place[f] /\ w.val[f] = world.val[f]
    BY <1>0, <2>2, MoveToEffect
  <2> HIDE DEF w
  <2>4. \A f \in Entities \ {e} : Reported(world, w, f)
    BY <2>3 DEF Reported
  <2>5. \A f \in Entities : world.life[f] = "reserved" => w.life[f] = "reserved"
    BY <2>1, <2>3
  <2>6. QED
    BY <2>1, <2>3, <2>4, <2>5, WorldStepKeeps
<1>5. ASSUME NEW e \in Entities, WorldDespawn(e)
      PROVE  IInv'
  <2> DEFINE w == DespawnAt(world, e)
  <2>1. world.life[e] = "alive" /\ WorldStep(w, {})
    BY <1>5 DEF WorldDespawn, Alive
  <2>2. Touched(world, w, e, {})
    BY <1>0, DespawnTouches
  <2> HIDE DEF w
  <2>3. Consistent(w) /\ \A f \in Entities \ {} : Reported(world, w, f)
    BY <2>2 DEF Touched, Reported
  <2>4. \A f \in Entities : world.life[f] = "reserved" => w.life[f] = "reserved"
    BY <2>1, <2>2 DEF Touched
  <2>5. QED
    BY <2>1, <2>3, <2>4, WorldStepKeeps
<1>6. QED
  BY <1>1, <1>2, <1>3, <1>4, <1>5 DEF WorldNext

(* begin.                                                                  *)
LEMMA BeginKeeps ==
  ASSUME IInv, NEW t \in Txs, NEW s \in {"optimistic", "pessimistic"}, NEW acc \in AccessSets,
         Begin(t, s, acc)
  PROVE  IInv'
<1>1. /\ phase[t] = "idle" /\ strategy[t] = "none" /\ newer[t] = {} /\ reads[t] = {}
      /\ unseen[t] = {} /\ buffer[t] = << >>
  BY DEF Begin, IInv, PhasesOK
<1>2. UNCHANGED <<world, newer, buffer, panicked, reads, unseen>>
  BY DEF Begin
<1>3. /\ phase'[t] = "active" /\ strategy'[t] = s /\ access'[t] = acc
      /\ archsAt'[t] = world.archs
      /\ \A u \in Txs : u # t => /\ phase'[u] = phase[u] /\ strategy'[u] = strategy[u]
                                 /\ access'[u] = access[u] /\ archsAt'[u] = archsAt[u]
  BY DEF Begin, IInv, TypeOK
<1>4. TypeOK'
  <2>1. world.archs \in SUBSET Archetypes
    BY DEF IInv, TypeOK, Worlds
  <2>2. QED
    BY <1>2, <2>1 DEF Begin, IInv, TypeOK
<1>5. Consistent(world')
  BY <1>2 DEF IInv
<1>6. \A u \in Txs : Allocated(u)' = Allocated(u)
  BY <1>2 DEF Allocated, Buffered
<1>7. BuffersOK'
  BY <1>1, <1>2, <1>3, <1>6 DEF IInv, BuffersOK
<1>8. PhasesOK'
  BY <1>1, <1>2, <1>3 DEF IInv, PhasesOK
<1>9. AllocationsOK'
  BY <1>2, <1>6 DEF IInv, AllocationsOK
<1>10. LocksExclude'
  <2>1. \A u \in Txs : u # t => HeldExcl(u)' = HeldExcl(u) /\ Held(u)' = Held(u)
    BY <1>3 DEF HeldExcl, HeldShared, Held
  <2>2. ASSUME NEW u \in Txs, u # t
        PROVE  HeldExcl(t)' \cap Held(u) = {} /\ HeldExcl(u) \cap Held(t)' = {}
    <3>1. CASE s = "optimistic"
      BY <1>3, <3>1 DEF HeldExcl, HeldShared, Held
    <3>2. CASE s = "pessimistic"
      <4>1. ~Contended(acc)
        BY <3>2 DEF Begin
      <4>2. \A col \in HeldExcl(u) : col[2] \notin acc.reads \cup acc.writes
        BY <4>1 DEF Contended
      <4>3. \A col \in HeldShared(u) : col[2] \notin acc.writes
        BY <4>1 DEF Contended
      <4>4. \A col \in HeldExcl(t)' : col[2] \in acc.writes
        BY <1>3 DEF HeldExcl
      <4>5. \A col \in Held(t)' : col[2] \in acc.reads \cup acc.writes
        BY <1>3 DEF HeldExcl, HeldShared, Held
      <4>6. QED
        BY <4>2, <4>3, <4>4, <4>5 DEF Held
    <3>3. QED
      BY <3>1, <3>2
  <2>3. QED
    BY <2>1, <2>2 DEF IInv, LocksExclude
<1>11. ASSUME NEW u \in Txs
       PROVE  SnapshotOK(u)' /\ ReadsCurrent(u)'
  <2>1. CASE u = t
    <3>1. \A e \in Entities : world.place[e] # {} => world.place[e] \in world.archs
      BY DEF IInv, Consistent
    <3>2. QED
      BY <1>1, <1>2, <1>3, <2>1, <3>1 DEF SnapshotOK, ReadsCurrent
  <2>2. CASE u # t
    BY <1>2, <1>3, <2>2 DEF IInv, SnapshotOK, ReadsCurrent
  <2>3. QED
    BY <2>1, <2>2
<1>12. QED
  BY <1>4, <1>5, <1>7, <1>8, <1>9, <1>10, <1>11 DEF IInv

(* A begin without locks.                                                  *)
LEMMA BeginUnreadyKeeps ==
  ASSUME IInv, NEW t \in Txs, NEW acc \in AccessSets, BeginUnready(t, acc)
  PROVE  IInv'
<1>1. UNCHANGED <<world, strategy, access, archsAt, newer, buffer, panicked, reads, unseen>>
  BY DEF BeginUnready
<1>2. TypeOK' /\ Consistent(world')
  BY <1>1 DEF BeginUnready, IInv, TypeOK
<1>3. \A u \in Txs : Allocated(u)' = Allocated(u)
  BY <1>1 DEF Allocated, Buffered
<1>4. PhasesOK'
  BY <1>1 DEF BeginUnready, IInv, PhasesOK, TypeOK
<1>5. BuffersOK' /\ AllocationsOK'
  BY <1>1, <1>3 DEF IInv, BuffersOK, AllocationsOK
<1>6. LocksExclude'
  BY <1>1 DEF IInv, LocksExclude, HeldExcl, Held, HeldShared
<1>7. \A u \in Txs : SnapshotOK(u)' /\ ReadsCurrent(u)'
  BY <1>1 DEF IInv, SnapshotOK, ReadsCurrent
<1>8. QED
  BY <1>2, <1>4, <1>5, <1>6, <1>7 DEF IInv

(* A read.                                                                 *)
LEMMA ReadKeeps ==
  ASSUME IInv, NEW t \in Txs, NEW e \in Entities, NEW c \in Components, Read(t, e, c)
  PROVE  IInv'
<1> DEFINE r == <<e, c, world.val[e][c]>>
<1>1. UNCHANGED <<world, phase, strategy, access, archsAt, newer, buffer, panicked, unseen>>
  BY DEF Read
<1>2. /\ reads'[t] = reads[t] \cup {r}
      /\ \A u \in Txs : u # t => reads'[u] = reads[u]
  BY DEF Read, IInv, TypeOK
<1>3. r \in Entities \X Components \X Values
  <2>1. c \in world.place[e] /\ world \in WorldsInCall
    BY DEF Read, IInv, Consistent
  <2>2. world.val[e][c] # NoValue /\ world.val[e][c] \in Values \cup {NoValue}
    BY <2>1 DEF IInv, Consistent, WorldsInCall
  <2>3. QED
    BY <2>2
<1>4. TypeOK' /\ Consistent(world')
  <2>1. reads' \in [Txs -> SUBSET (Entities \X Components \X Values)]
    BY <1>3 DEF Read, IInv, TypeOK
  <2>2. QED
    BY <1>1, <2>1 DEF IInv, TypeOK
<1>5. \A u \in Txs : Allocated(u)' = Allocated(u)
  BY <1>1 DEF Allocated, Buffered
<1>6. PhasesOK'
  BY <1>1, <1>2 DEF Read, IInv, PhasesOK
<1>7. BuffersOK' /\ AllocationsOK'
  BY <1>1, <1>5 DEF IInv, BuffersOK, AllocationsOK
<1>8. LocksExclude'
  BY <1>1 DEF IInv, LocksExclude, HeldExcl, Held, HeldShared
<1>9. c \in access[t].reads \cup access[t].writes
  BY DEF Read
<1>10. ASSUME NEW u \in Txs
       PROVE  SnapshotOK(u)' /\ ReadsCurrent(u)'
  <2>1. SnapshotOK(u) /\ ReadsCurrent(u)
    BY DEF IInv
  <2>2. CASE u # t
    BY <1>1, <1>2, <2>1, <2>2 DEF SnapshotOK, ReadsCurrent
  <2>3. CASE u = t
    <3>1. r[1] = e /\ r[2] = c /\ r[3] = world.val[r[1]][r[2]]
      OBVIOUS
    <3> HIDE DEF r
    <3>2. SnapshotOK(t)'
      BY <1>1, <1>2, <1>9, <2>1, <2>3, <3>1 DEF SnapshotOK
    <3>3. ReadsCurrent(t)'
      BY <1>1, <1>2, <2>1, <2>3, <3>1 DEF ReadsCurrent
    <3>4. QED
      BY <2>3, <3>2, <3>3
  <2>4. QED
    BY <2>2, <2>3
<1>11. QED
  BY <1>4, <1>6, <1>7, <1>8, <1>10 DEF IInv

(* What a recorded mutation adds to a buffer.                              *)
LEMMA RecordEffect ==
  ASSUME IInv, NEW t \in Txs, NEW m, Record(t, m), m \in Mutations
  PROVE  /\ buffer' \in [Txs -> Seq(Mutations)]
         /\ \A u \in Txs : u # t => buffer'[u] = buffer[u] /\ Allocated(u)' = Allocated(u)
         /\ Len(buffer'[t]) = Len(buffer[t]) + 1 /\ Len(buffer[t]) \in Nat
         /\ \A i \in 1 .. Len(buffer[t]) : buffer'[t][i] = buffer[t][i]
         /\ buffer'[t][Len(buffer[t]) + 1] = m
         /\ Allocated(t)' = Allocated(t) \cup (IF m.op = "spawn" THEN {m.e} ELSE {})
<1> DEFINE b == buffer[t]
           d == Append(b, m)
<1>1. b \in Seq(Mutations) /\ buffer' = [buffer EXCEPT ![t] = d]
  BY DEF Record, IInv, TypeOK
<1>2. buffer'[t] = d /\ \A u \in Txs : u # t => buffer'[u] = buffer[u]
  BY <1>1 DEF IInv, TypeOK
<1> HIDE DEF b
<1> HIDE DEF Mutations
<1>3. /\ d \in Seq(Mutations) /\ Len(d) = Len(b) + 1 /\ Len(b) \in Nat
      /\ DOMAIN b = 1 .. Len(b) /\ DOMAIN d = 1 .. Len(b) + 1
      /\ \A i \in 1 .. Len(b) : d[i] = b[i]
      /\ d[Len(b) + 1] = m
  BY <1>1
<1> HIDE DEF d
<1>4. buffer' \in [Txs -> Seq(Mutations)]
  BY <1>1, <1>3 DEF IInv, TypeOK
<1>5. \A u \in Txs : u # t => Allocated(u)' = Allocated(u)
  BY <1>2 DEF Allocated, Buffered
<1>6. Allocated(t) = {b[i].e : i \in {j \in 1 .. Len(b) : b[j].op = "spawn"}}
  BY <1>3 DEF Allocated, Buffered, b
<1>7. Allocated(t)' = {d[i].e : i \in {j \in 1 .. Len(b) + 1 : d[j].op = "spawn"}}
  BY <1>2, <1>3 DEF Allocated, Buffered
<1>8. ASSUME NEW e
      PROVE  e \in Allocated(t)' <=> e \in Allocated(t) \/ (m.op = "spawn" /\ e = m.e)
  <2>1. e \in Allocated(t) <=> \E i \in 1 .. Len(b) : b[i].op = "spawn" /\ b[i].e = e
    BY <1>6
  <2>2. e \in Allocated(t)' <=> \E i \in 1 .. Len(b) + 1 : d[i].op = "spawn" /\ d[i].e = e
    BY <1>7
  <2>3. \A i \in 1 .. Len(b) + 1 : i \in 1 .. Len(b) \/ i = Len(b) + 1
    BY <1>3
  <2>4. 1 .. Len(b) \subseteq 1 .. Len(b) + 1 /\ Len(b) + 1 \in 1 .. Len(b) + 1
    BY <1>3
  <2>5. QED
    BY <1>3, <2>1, <2>2, <2>3, <2>4
<1>9. Allocated(t)' = Allocated(t) \cup (IF m.op = "spawn" THEN {m.e} ELSE {})
  BY <1>8
<1>10. QED
  BY <1>2, <1>3, <1>4, <1>5, <1>9 DEF b

(* A recorded mutation that keeps to the access of t keeps the invariant,  *)
(* where the World reserves the handle of a spawn and is otherwise left    *)
(* alone.                                                                  *)
LEMMA RecordKeeps ==
  ASSUME IInv, NEW t \in Txs, NEW m, Record(t, m),
         \A born : (m.op = "spawn" => m.e \in born) => WellFormed(m, access[t].writes, born),
         Consistent(world'), world' \in Worlds,
         world'.place = world.place, world'.val = world.val,
         \A e \in Entities : world.life[e] = "reserved" => world'.life[e] = "reserved",
         m.op = "spawn" => world.life[m.e] = "unborn" /\ world'.life[m.e] = "reserved"
  PROVE  IInv'
<1>1. UNCHANGED <<phase, strategy, access, archsAt, newer, panicked, reads, unseen>>
  BY DEF Record
<1>2. m \in Mutations
  <2>1. WellFormed(m, access[t].writes, {m.e})
    OBVIOUS
  <2>2. QED
    BY <2>1 DEF WellFormed
<1>3. /\ buffer' \in [Txs -> Seq(Mutations)]
      /\ \A u \in Txs : u # t => buffer'[u] = buffer[u] /\ Allocated(u)' = Allocated(u)
      /\ Len(buffer'[t]) = Len(buffer[t]) + 1 /\ Len(buffer[t]) \in Nat
      /\ \A i \in 1 .. Len(buffer[t]) : buffer'[t][i] = buffer[t][i]
      /\ buffer'[t][Len(buffer[t]) + 1] = m
      /\ Allocated(t)' = Allocated(t) \cup (IF m.op = "spawn" THEN {m.e} ELSE {})
  BY <1>2, RecordEffect
<1>4. TypeOK'
  BY <1>1, <1>3 DEF IInv, TypeOK, Consistent
<1>5. PhasesOK'
  BY <1>1, <1>3 DEF Record, IInv, PhasesOK
<1>6. BuffersOK'
  <2>1. ASSUME NEW u \in Txs, NEW i \in 1 .. Len(buffer'[u])
        PROVE  WellFormed(buffer'[u][i], access'[u].writes, Allocated(u)')
    <3>1. CASE u # t
      BY <1>1, <1>3, <3>1 DEF IInv, BuffersOK
    <3>2. CASE u = t /\ i \in 1 .. Len(buffer[t])
      <4>1. WellFormed(buffer[t][i], access[t].writes, Allocated(t))
        BY <3>2 DEF IInv, BuffersOK
      <4>2. Allocated(t) \subseteq Allocated(t)'
        BY <1>3
      <4>3. WellFormed(buffer[t][i], access[t].writes, Allocated(t)')
        BY <4>1, <4>2 DEF WellFormed
      <4>4. QED
        BY <1>1, <1>3, <3>2, <4>3
    <3>3. CASE u = t /\ i = Len(buffer[t]) + 1
      <4>1. m.op = "spawn" => m.e \in Allocated(t)'
        BY <1>3
      <4>2. QED
        BY <1>1, <1>3, <3>3, <4>1
    <3>4. QED
      BY <1>3, <3>1, <3>2, <3>3
  <2>2. QED
    BY <2>1 DEF BuffersOK
<1>7. AllocationsOK'
  <2>1. \A u \in Txs : Allocated(u) \subseteq Entities
    BY AllocatedAreEntities DEF IInv
  <2>2. \A u \in Txs : \A e \in Allocated(u) : world.life[e] = "reserved"
    BY DEF IInv, AllocationsOK
  <2>3. \A u \in Txs : \A e \in Allocated(u)' : world'.life[e] = "reserved"
    BY <1>3, <2>1, <2>2
  <2>4. \A u \in Txs : m.op = "spawn" => m.e \notin Allocated(u)
    BY <2>2
  <2>5. \A u, x \in Txs : u # x => Allocated(u) \cap Allocated(x) = {}
    BY DEF IInv, AllocationsOK
  <2>6. \A u, x \in Txs : u # x => Allocated(u)' \cap Allocated(x)' = {}
    BY <1>3, <2>4, <2>5
  <2>7. QED
    BY <2>3, <2>6 DEF AllocationsOK
<1>8. LocksExclude'
  BY <1>1 DEF IInv, LocksExclude, HeldExcl, Held, HeldShared
<1>9. \A u \in Txs : SnapshotOK(u)' /\ ReadsCurrent(u)'
  BY <1>1 DEF IInv, SnapshotOK, ReadsCurrent
<1>10. QED
  BY <1>4, <1>5, <1>6, <1>7, <1>8, <1>9 DEF IInv

(* The four calls that record a mutation.                                  *)
LEMMA RecordedCallsKeep ==
  ASSUME IInv, NEW t \in Txs, NEW e \in Entities
  PROVE  /\ \A c \in Components, v \in Values : Write(t, e, c, v) => IInv'
         /\ \A c \in Removable : Remove(t, e, c) => IInv'
         /\ Despawn(t, e) => IInv'
         /\ \A a \in Bundles, v \in Values : Spawn(t, e, a, v) => IInv'
<1>1. Consistent(world) /\ world \in Worlds
  BY DEF IInv, TypeOK
<1>2. ASSUME NEW c \in Components, NEW v \in Values, Write(t, e, c, v)
      PROVE  IInv'
  <2> DEFINE m == [op |-> "insert", e |-> e, cs |-> {c}, v |-> v]
  <2>1. Record(t, m) /\ world' = world
    BY <1>2 DEF Write
  <2>2. m \in Mutations
    BY DEF Mutations
  <2>3. m.op = "insert" /\ m.cs \subseteq access[t].writes /\ m.v \in Values
    BY <1>2 DEF Write
  <2> HIDE DEF m
  <2>4. \A born : WellFormed(m, access[t].writes, born)
    BY <2>2, <2>3 DEF WellFormed
  <2>5. QED
    BY <1>1, <2>1, <2>3, <2>4, RecordKeeps
<1>3. ASSUME NEW c \in Removable, Remove(t, e, c)
      PROVE  IInv'
  <2> DEFINE m == [op |-> "remove", e |-> e, cs |-> {c}, v |-> NoValue]
  <2>1. Record(t, m) /\ world' = world /\ c \in Components
    BY <1>3, TransactionsAssumption DEF Remove
  <2>2. m \in Mutations
    BY <2>1 DEF Mutations
  <2>3. m.op = "remove" /\ m.cs \subseteq access[t].writes /\ m.cs = {c}
    BY <1>3 DEF Remove
  <2> HIDE DEF m
  <2>4. \A born : WellFormed(m, access[t].writes, born)
    BY <2>1, <2>2, <2>3 DEF WellFormed
  <2>5. QED
    BY <1>1, <2>1, <2>3, <2>4, RecordKeeps
<1>4. ASSUME Despawn(t, e)
      PROVE  IInv'
  <2> DEFINE m == [op |-> "despawn", e |-> e, cs |-> {}, v |-> NoValue]
  <2>1. Record(t, m) /\ world' = world
    BY <1>4 DEF Despawn
  <2>2. m \in Mutations
    BY DEF Mutations
  <2>3. m.op = "despawn" /\ m.cs = {}
    OBVIOUS
  <2> HIDE DEF m
  <2>4. \A born : WellFormed(m, access[t].writes, born)
    BY <2>2, <2>3 DEF WellFormed
  <2>5. QED
    BY <1>1, <2>1, <2>3, <2>4, RecordKeeps
<1>5. ASSUME NEW a \in Bundles, NEW v \in Values, Spawn(t, e, a, v)
      PROVE  IInv'
  <2> DEFINE m == [op |-> "spawn", e |-> e, cs |-> a, v |-> v]
  <2>1. /\ Record(t, m) /\ world' = [world EXCEPT !.life[e] = "reserved"]
        /\ world.life[e] = "unborn"
    BY <1>5 DEF Spawn
  <2>2. m \in Mutations
    BY TransactionsAssumption DEF Mutations, Archetypes
  <2>3. m.op = "spawn" /\ m.cs \subseteq access[t].writes /\ m.v \in Values /\ m.e = e
    BY <1>5 DEF Spawn
  <2> HIDE DEF m
  <2>4. \A born : (m.op = "spawn" => m.e \in born) => WellFormed(m, access[t].writes, born)
    BY <2>2, <2>3 DEF WellFormed
  <2>5. /\ world' \in Worlds /\ world'.place = world.place /\ world'.val = world.val
        /\ world'.archs = world.archs /\ world'.marks = world.marks
        /\ world'.life = [world.life EXCEPT ![e] = "reserved"]
    BY <1>1, <2>1 DEF Worlds
  <2>6. \A f \in Entities : world'.life[f] = IF f = e THEN "reserved" ELSE world.life[f]
    BY <1>1, <2>5 DEF Worlds
  <2>7. world' \in WorldsInCall
    BY <2>5 DEF Worlds, WorldsInCall
  <2>8. Consistent(world')
    BY <1>1, <2>1, <2>5, <2>6, <2>7 DEF Consistent
  <2>9. QED
    BY <2>1, <2>3, <2>4, <2>5, <2>6, <2>8, RecordKeeps
<1>6. QED
  BY <1>2, <1>3, <1>4, <1>5

(* A transaction that ends with the World becoming w: its handles are      *)
(* settled, and the handles of the others are still theirs.                *)
LEMMA EndKeeps ==
  ASSUME IInv, NEW t \in Txs, NEW w, Become(w, {t}, {}), End(t), Consistent(w),
         panicked' \in BOOLEAN,
         \A e \in Entities : Reported(world, w, e),
         \A e \in Entities \ Allocated(t) : world.life[e] = "reserved" => w.life[e] = "reserved"
  PROVE  IInv'
<1>1. /\ phase'[t] = "idle" /\ strategy'[t] = "none" /\ access'[t] = NoAccess
      /\ archsAt'[t] = {} /\ buffer'[t] = << >> /\ reads'[t] = {}
      /\ \A u \in Txs : u # t =>
           /\ phase'[u] = phase[u] /\ strategy'[u] = strategy[u] /\ access'[u] = access[u]
           /\ archsAt'[u] = archsAt[u] /\ buffer'[u] = buffer[u] /\ reads'[u] = reads[u]
  BY DEF End, IInv, TypeOK
<1>2. /\ phase' \in [Txs -> {"idle", "active", "unready"}]
      /\ strategy' \in [Txs -> {"none", "optimistic", "pessimistic"}]
      /\ access' \in [Txs -> AccessSets \cup {NoAccess}]
      /\ archsAt' \in [Txs -> SUBSET Archetypes]
      /\ reads' \in [Txs -> SUBSET (Entities \X Components \X Values)]
  BY DEF End, IInv, TypeOK
<1>3. buffer' \in [Txs -> Seq(Mutations)]
  <2>1. << >> \in Seq(Mutations)
    OBVIOUS
  <2>2. QED
    BY <2>1 DEF End, IInv, TypeOK
<1>4. /\ Consistent(world') /\ world' \in Worlds
      /\ world'.life = w.life /\ world'.place = w.place /\ world'.val = w.val
      /\ newer' \in [Txs -> SUBSET Columns] /\ unseen' \in [Txs -> SUBSET Entities]
      /\ \A u \in Txs : u \in {t} \/ strategy[u] = "none" => newer'[u] = {} /\ unseen'[u] = {}
      /\ \A u \in Txs \ {t} : SnapshotOK(u)' /\ ReadsCurrent(u)'
  <2>1. \A u \in Txs \ {t} : /\ strategy'[u] = strategy[u] /\ access'[u] = access[u]
                             /\ archsAt'[u] = archsAt[u] /\ reads'[u] = reads[u]
    BY <1>1
  <2>2. {t} \in SUBSET Txs /\ {} \in SUBSET Entities
    OBVIOUS
  <2>3. \A e \in Entities \ {} : Reported(world, w, e)
    OBVIOUS
  <2>4. QED
    BY <2>1, <2>2, <2>3, BecomeKeeps
<1>5. TypeOK'
  BY <1>2, <1>3, <1>4 DEF TypeOK, Consistent
<1>6. Allocated(t)' = {} /\ \A u \in Txs : u # t => Allocated(u)' = Allocated(u)
  BY <1>1 DEF Allocated, Buffered
<1>7. BuffersOK'
  BY <1>1, <1>6 DEF IInv, BuffersOK
<1>8. PhasesOK'
  BY <1>1, <1>4 DEF IInv, PhasesOK
<1>9. AllocationsOK'
  <2>1. \A u \in Txs : Allocated(u) \subseteq Entities
    BY AllocatedAreEntities DEF IInv
  <2>2. \A u \in Txs : u # t => Allocated(u) \cap Allocated(t) = {}
    BY DEF IInv, AllocationsOK
  <2>3. QED
    BY <1>4, <1>6, <2>1, <2>2 DEF IInv, AllocationsOK
<1>10. LocksExclude'
  <2>1. Held(t)' = {} /\ HeldExcl(t)' = {}
    BY <1>1 DEF Held, HeldExcl, HeldShared
  <2>2. \A u \in Txs : u # t => Held(u)' = Held(u) /\ HeldExcl(u)' = HeldExcl(u)
    BY <1>1 DEF Held, HeldExcl, HeldShared
  <2>3. QED
    BY <2>1, <2>2 DEF IInv, LocksExclude
<1>11. SnapshotOK(t)' /\ ReadsCurrent(t)'
  BY <1>1 DEF SnapshotOK, ReadsCurrent
<1>12. QED
  BY <1>4, <1>5, <1>7, <1>8, <1>9, <1>10, <1>11 DEF IInv

(* What a commit leaves of the World.                                      *)
LEMMA CommitApplies ==
  ASSUME IInv, NEW t \in Txs
  PROVE  /\ Applied(world, ApplyAll(world, buffer[t]).w, access[t].writes, Allocated(t))
         /\ ApplyAll(world, buffer[t]).ok \in BOOLEAN
<1>1. Consistent(world) /\ Len(buffer[t]) \in Nat
  BY DEF IInv, TypeOK
<1>2. \A i \in 1 .. Len(buffer[t]) : WellFormed(buffer[t][i], access[t].writes, Allocated(t))
  BY DEF IInv, BuffersOK
<1>3. QED
  BY <1>1, <1>2, ApplyAllEffect

LEMMA CommitKeeps ==
  ASSUME IInv, NEW t \in Txs, Commit(t)
  PROVE  IInv'
<1> DEFINE r == ApplyAll(world, buffer[t])
<1>1. Become(r.w, {t}, {}) /\ panicked' = ~r.ok /\ End(t)
  BY DEF Commit
<1>2. Applied(world, r.w, access[t].writes, Allocated(t)) /\ r.ok \in BOOLEAN
  BY CommitApplies
<1> HIDE DEF r
<1>3. panicked' \in BOOLEAN
  BY <1>1, <1>2
<1>4. QED
  BY <1>1, <1>2, <1>3, EndKeeps DEF Applied

LEMMA AbortKeeps ==
  ASSUME IInv, NEW t \in Txs, Abort(t)
  PROVE  IInv'
<1> DEFINE w == Orphan(world, Allocated(t))
           life == [e \in Entities |-> IF e \in Allocated(t) THEN "dead" ELSE world.life[e]]
<1>1. Become(w, {t}, {}) /\ End(t) /\ panicked' = panicked
  BY DEF Abort
<1>2. world \in WorldsInCall /\ w = [world EXCEPT !.life = life]
  BY DEF IInv, Consistent, Orphan
<1>3. life \in [Entities -> {"unborn", "reserved", "alive", "dead"}]
  BY <1>2 DEF WorldsInCall
<1>4. \A e \in Entities : life[e] = IF e \in Allocated(t) THEN "dead" ELSE world.life[e]
  OBVIOUS
<1>5. \A e \in Allocated(t) : world.life[e] # "alive"
  BY DEF IInv, AllocationsOK
<1> HIDE DEF life, w
<1>6. /\ w \in WorldsInCall /\ w.life = life /\ w.place = world.place /\ w.val = world.val
      /\ w.archs = world.archs
  BY <1>2, <1>3 DEF WorldsInCall
<1>7. Consistent(w)
  BY <1>4, <1>5, <1>6 DEF IInv, Consistent
<1>8. \A e \in Entities : Reported(world, w, e)
  BY <1>6 DEF Reported
<1>9. \A e \in Entities \ Allocated(t) : world.life[e] = "reserved" => w.life[e] = "reserved"
  BY <1>4, <1>6
<1>10. panicked' \in BOOLEAN
  BY <1>1 DEF IInv, TypeOK
<1>11. QED
  BY <1>1, <1>7, <1>8, <1>9, <1>10, EndKeeps

-----------------------------------------------------------------------------
(* The invariant, and what it gives.                                       *)

LEMMA InitIInv == Init => IInv
<1> SUFFICES ASSUME Init PROVE IInv
  OBVIOUS
<1>1. world \in Worlds /\ Consistent(world)
  <2>1. {} \in Archetypes /\ {First} \in SUBSET Archetypes
    BY TransactionsAssumption DEF Archetypes
  <2>2. world \in Worlds /\ world \in WorldsInCall
    BY <2>1 DEF Init, Worlds, WorldsInCall
  <2>3. QED
    BY <2>2 DEF Init, Consistent
<1>2. TypeOK
  <2>1. << >> \in Seq(Mutations)
    OBVIOUS
  <2>2. QED
    BY <1>1, <2>1 DEF Init, TypeOK, Consistent
<1>3. \A t \in Txs : Allocated(t) = {}
  BY DEF Init, Allocated, Buffered
<1>4. BuffersOK /\ PhasesOK /\ AllocationsOK
  BY <1>3 DEF Init, BuffersOK, PhasesOK, AllocationsOK
<1>5. LocksExclude
  BY DEF Init, LocksExclude, HeldExcl
<1>6. \A t \in Txs : SnapshotOK(t) /\ ReadsCurrent(t)
  BY DEF Init, SnapshotOK, ReadsCurrent
<1>7. QED
  BY <1>1, <1>2, <1>4, <1>5, <1>6 DEF IInv

LEMMA StepIInv == IInv /\ [Next]_vars => IInv'
<1> SUFFICES ASSUME IInv, [Next]_vars PROVE IInv'
  OBVIOUS
<1>1. CASE WorldNext
  BY <1>1, WorldCallsKeep
<1>2. ASSUME NEW t \in Txs, TxNext(t)
      PROVE  IInv'
  BY <1>2, BeginKeeps, BeginUnreadyKeeps, ReadKeeps, RecordedCallsKeep, CommitKeeps, AbortKeeps
     DEF TxNext
<1>3. CASE UNCHANGED vars
  <2>1. \A t \in Txs : Allocated(t)' = Allocated(t)
    BY <1>3 DEF vars, Allocated, Buffered
  <2>2. TypeOK' /\ Consistent(world') /\ PhasesOK'
    BY <1>3 DEF vars, IInv, TypeOK, PhasesOK
  <2>3. BuffersOK' /\ AllocationsOK'
    BY <1>3, <2>1 DEF vars, IInv, BuffersOK, AllocationsOK
  <2>4. LocksExclude'
    BY <1>3 DEF vars, IInv, LocksExclude, HeldExcl, Held, HeldShared
  <2>5. \A t \in Txs : SnapshotOK(t)' /\ ReadsCurrent(t)'
    BY <1>3 DEF vars, IInv, SnapshotOK, ReadsCurrent
  <2>6. QED
    BY <2>2, <2>3, <2>4, <2>5 DEF IInv
<1>4. QED
  BY <1>1, <1>2, <1>3 DEF Next

(* The invariant holds in every state the World and its transactions reach.*)
THEOREM Invariance == Spec => []IInv
<1>1. QED
  BY InitIInv, StepIInv, PTL DEF Spec

(* Type correctness, with the row consistency of the World.                *)
THEOREM TypeCorrectness == Spec => []TypeOK
<1>1. IInv => TypeOK
  BY DEF IInv
<1>2. QED
  BY <1>1, Invariance, PTL

(* Optimistic::try_commit lets no transaction through that has read a      *)
(* value the World no longer holds, other than behind its snapshot.        *)
THEOREM OptimisticReadsAreCurrent == Spec => []ValidatedReadsAreCurrent
<1>1. IInv => ValidatedReadsAreCurrent
  BY DEF IInv, ReadsCurrent, ValidatedReadsAreCurrent, Validates
<1>2. QED
  BY <1>1, Invariance, PTL

(* The columns a Pessimistic transaction has locked keep their values when *)
(* another one commits or drops.                                           *)
THEOREM PessimisticLocksHold == Spec => LockedColumnsAreStable
<1> DEFINE Stable == \A t, u \in Txs :
       t # u /\ strategy[t] = "pessimistic" /\ phase'[t] = "idle" =>
         \A e \in Entities, c \in Components :
           /\ <<world.place[e], c>> \in Held(u)
           /\ world.place[e] \in archsAt[t]
           /\ world'.life[e] = "alive"
           => c \in world'.place[e] /\ world'.val[e][c] = world.val[e][c]
<1>1. IInv /\ [Next]_vars => [Stable]_vars
  <2> SUFFICES ASSUME IInv, Next,
                      NEW t \in Txs, NEW u \in Txs, t # u,
                      strategy[t] = "pessimistic", phase'[t] = "idle",
                      NEW e \in Entities, NEW c \in Components,
                      <<world.place[e], c>> \in Held(u), world.place[e] \in archsAt[t],
                      world'.life[e] = "alive"
               PROVE  c \in world'.place[e] /\ world'.val[e][c] = world.val[e][c]
    OBVIOUS
  <2>1. phase[t] = "active"
    BY DEF IInv, PhasesOK
  <2>2. Commit(t) \/ Abort(t)
    <3>1. CASE WorldNext
      BY <2>1, <3>1 DEF WorldNext, WorldSpawn, WorldGetMut, WorldInsert, WorldRemove,
                        WorldDespawn, WorldStep
    <3>2. ASSUME NEW x \in Txs, TxNext(x), ~Commit(x), ~Abort(x)
          PROVE  FALSE
      BY <2>1, <3>2 DEF TxNext, Begin, BeginUnready, Read, Write, Remove, Despawn, Spawn, Record,
                        IInv, TypeOK
    <3>3. \A x \in Txs : Commit(x) \/ Abort(x) => x = t
      BY <2>1 DEF Commit, Abort, End, IInv, TypeOK
    <3>4. QED
      BY <3>1, <3>2, <3>3 DEF Next
  <2>3. CASE Abort(t)
    <3>1. world'.place = world.place /\ world'.val = world.val
      BY <2>3 DEF Abort, Become, Orphan, IInv, TypeOK, Worlds
    <3>2. c \in world.place[e]
      BY DEF Held, HeldExcl, HeldShared, Columns
    <3>3. QED
      BY <3>1, <3>2
  <2>4. CASE Commit(t)
    <3> DEFINE w == ApplyAll(world, buffer[t]).w
    <3>1. Become(w, {t}, {})
      BY <2>4 DEF Commit
    <3>2. Applied(world, w, access[t].writes, Allocated(t))
      BY CommitApplies
    <3> HIDE DEF w
    <3>3. world'.life = w.life /\ world'.place = w.place /\ world'.val = w.val
      BY <3>1, <3>2, Settled DEF Applied, Become
    <3>4. c \in world.place[e] /\ <<world.place[e], c>> \in Columns
      BY DEF Held, HeldExcl, HeldShared, Columns
    <3>5. c \notin access[t].writes
      <4>1. HeldExcl(t) \cap Held(u) = {}
        BY DEF IInv, LocksExclude
      <4>2. c \in access[t].writes => <<world.place[e], c>> \in HeldExcl(t)
        BY <3>4 DEF HeldExcl
      <4>3. QED
        BY <4>1, <4>2
    <3>6. QED
      BY <3>2, <3>3, <3>4, <3>5 DEF Applied, Kept
  <2>5. QED
    BY <2>2, <2>3, <2>4
<1>2. QED
  BY <1>1, Invariance, PTL DEF Spec, LockedColumnsAreStable
=============================================================================

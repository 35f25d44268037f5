------------------------ MODULE EntityAllocatorProofs ------------------------
(***************************************************************************)
(* Handles of entities, for any number of slots, transactions, generations *)
(* and checkpoints: every slot has one owner, no handle is issued twice,   *)
(* the free list is sound and never grows on a free.                       *)
(*                                                                         *)
(* The first part is about the free list, of any length: each operation    *)
(* keeps the representation sound and changes the set of free slots as its *)
(* name says, and the capacity grows only where a push finds the list full *)
(* of live entries.  The second says what each operation of the allocator  *)
(* does to the free slots and to the generations; the third carries the    *)
(* ownership of slots through the steps of transactions, crashes and       *)
(* replays.                                                                *)
(***************************************************************************)
EXTENDS EntityAllocator, FiniteSetTheorems, FiniteSetsExt, WellFoundedInduction, TLAPS

-----------------------------------------------------------------------------
(* Induction on natural numbers: the set of the numbers that have a        *)
(* property takes the place of the property.                               *)

(* A set of natural numbers that is not empty has a least element.         *)
LEMMA LeastElement ==
  ASSUME NEW T, T \subseteq Nat, T # {}
  PROVE  \E n \in T : \A m \in T : n <= m
<1> DEFINE R == OpToRel(<, Nat)
<1>1. IsWellFoundedOn(R, Nat)
  BY NatLessThanWellFounded
<1>2. \A m, n \in Nat : m < n => <<m, n>> \in R
  BY DEF OpToRel
<1> HIDE DEF R
<1>3. PICK n \in T : \A m \in T : ~(<<m, n>> \in R)
  BY <1>1, WFMin
<1>4. \A m \in T : ~(m < n)
  BY <1>2, <1>3
<1>5. QED
  BY <1>4

(* A set that holds 0 and, up to N, the successor of each number in it,    *)
(* holds 0 .. N.                                                           *)
LEMMA UpTo ==
  ASSUME NEW N \in Nat, NEW S,
         0 \in S,
         \A n \in 1 .. N : n - 1 \in S => n \in S
  PROVE  \A n \in 0 .. N : n \in S
<1> SUFFICES ASSUME NEW k \in 0 .. N, k \notin S
             PROVE  FALSE
  OBVIOUS
<1> DEFINE T == {n \in 0 .. N : n \notin S}
<1>1. PICK n \in T : \A m \in T : n <= m
  <2>1. T \subseteq Nat /\ T # {}
    OBVIOUS
  <2> HIDE DEF T
  <2>2. QED
    BY <2>1, LeastElement
<1>2. n \in 1 .. N
  OBVIOUS
<1>3. n - 1 \in 0 .. N /\ n - 1 \notin T
  BY <1>1, <1>2
<1>4. QED
  BY <1>2, <1>3

(* A set of natural numbers that is not empty and is bounded has a         *)
(* greatest element.                                                       *)
LEMMA GreatestElement ==
  ASSUME NEW T, T \subseteq Nat, T # {}, NEW N \in Nat, \A m \in T : m <= N
  PROVE  \E n \in T : \A m \in T : m <= n
<1> DEFINE D == {N - m : m \in T}
<1>1. \A m \in T : m \in Nat /\ N - m \in Nat
  OBVIOUS
<1>2. D \subseteq Nat /\ D # {}
  BY <1>1
<1>3. PICK d \in D : \A e \in D : d <= e
  <2> HIDE DEF D
  <2>1. QED
    BY <1>2, LeastElement
<1>4. PICK n \in T : d = N - n
  OBVIOUS
<1>5. \A m \in T : N - n <= N - m
  BY <1>3, <1>4
<1>6. QED
  BY <1>1, <1>4, <1>5

(* What Max of the library chooses.                                       *)
LEMMA MaxIs ==
  ASSUME NEW S, S \subseteq Nat, S # {}, NEW N \in Nat, \A m \in S : m <= N
  PROVE  Max(S) \in S /\ \A m \in S : m <= Max(S)
<1>1. PICK n \in S : \A m \in S : m <= n
  BY GreatestElement
<1>2. \E x \in S : \A y \in S : x >= y
  BY <1>1
<1>3. Max(S) \in S /\ \A y \in S : Max(S) >= y
  BY <1>2 DEF Max
<1>4. QED
  BY <1>3

-----------------------------------------------------------------------------


Entries == 0 .. REMOVED
Fields == {"slots", "positions", "holes", "snapshot", "cap"}

(* The slots that are free, and the positions of the tombstones.           *)
Free(fl) == Range(fl.slots) \ {REMOVED}
HolesUpTo(slots, n) == {p \in 1 .. n : slots[p] = REMOVED}
HolesIn(slots) == HolesUpTo(slots, Len(slots))

Distinct(slots) ==
  \A p, q \in 1 .. Len(slots) : p # q /\ slots[p] # REMOVED => slots[p] # slots[q]

(* A free list in good order: FreeListSound, with types and with what the  *)
(* cached slice is when there is one.                                      *)
Sound(fl) ==
  /\ DOMAIN fl = Fields
  /\ fl.slots \in Seq(Entries) /\ fl.cap \in Nat /\ Len(fl.slots) <= fl.cap
  /\ Distinct(fl.slots)
  /\ fl.holes = Cardinality(HolesIn(fl.slots))
  /\ fl.positions = None => fl.holes = 0
  /\ fl.positions # None =>
       /\ fl.positions \in [Free(fl) -> 1 .. Len(fl.slots)]
       /\ \A i \in Free(fl) : fl.slots[fl.positions[i]] = i
  /\ fl.snapshot # None => fl.snapshot = Live(fl.slots)

-----------------------------------------------------------------------------
(* Sequences of entries.                                                   *)

LEMMA RangeIs ==
  ASSUME NEW s, Len(s) \in Nat, DOMAIN s = 1 .. Len(s)
  PROVE  Range(s) = {s[p] : p \in 1 .. Len(s)}
  BY DEF Range

LEMMA IntervalSize ==
  ASSUME NEW n \in Nat
  PROVE  IsFiniteSet(1 .. n) /\ Cardinality(1 .. n) = n
  BY FS_Interval

LEMMA HolesFinite ==
  ASSUME NEW s, Len(s) \in Nat
  PROVE  /\ IsFiniteSet(HolesIn(s)) /\ Cardinality(HolesIn(s)) \in 0 .. Len(s)
         /\ Cardinality(HolesIn(s)) = 0 <=> HolesIn(s) = {}
<1>1. IsFiniteSet(1 .. Len(s)) /\ Cardinality(1 .. Len(s)) = Len(s)
  BY IntervalSize
<1>2. HolesIn(s) \in SUBSET (1 .. Len(s))
  BY DEF HolesIn, HolesUpTo
<1>3. IsFiniteSet(HolesIn(s)) /\ Cardinality(HolesIn(s)) <= Len(s)
  BY <1>1, <1>2, FS_Subset
<1>4. Cardinality(HolesIn(s)) \in Nat
  BY <1>3, FS_CardinalityType
<1>5. Cardinality(HolesIn(s)) = 0 <=> HolesIn(s) = {}
  BY <1>3, FS_EmptySet
<1>6. QED
  BY <1>3, <1>4, <1>5

LEMMA AppendIs ==
  ASSUME NEW X, NEW s \in Seq(X), NEW x \in X
  PROVE  /\ Append(s, x) \in Seq(X) /\ Len(s) \in Nat /\ Len(Append(s, x)) = Len(s) + 1
         /\ \A i \in 1 .. Len(s) : Append(s, x)[i] = s[i]
         /\ Append(s, x)[Len(s) + 1] = x
  OBVIOUS

LEMMA SameSequence ==
  ASSUME NEW X, NEW s \in Seq(X), NEW t \in Seq(X), Len(s) = Len(t),
         \A i \in 1 .. Len(s) : s[i] = t[i]
  PROVE  s = t
  OBVIOUS

LEMMA OneMore ==
  ASSUME NEW H, NEW x, IsFiniteSet(H), x \notin H
  PROVE  IsFiniteSet(H \cup {x}) /\ Cardinality(H \cup {x}) = Cardinality(H) + 1
         /\ Cardinality(H) \in Nat
  BY FS_AddElement, FS_CardinalityType

(* A recursive function over the prefixes of a list.                       *)
LEMMA LiveUnfolds ==
  ASSUME NEW s, Len(s) \in Nat
  PROVE  /\ LiveIn(s)[0] = << >>
         /\ \A n \in 1 .. Len(s) :
              LiveIn(s)[n] = IF s[n] = REMOVED THEN LiveIn(s)[n - 1]
                             ELSE Append(LiveIn(s)[n - 1], s[n])
<1> DEFINE StepOf(v, n) == IF s[n] = REMOVED THEN v ELSE Append(v, s[n])
           base == << >>
           Solves(f, k) == f = [n \in 0 .. k |-> IF n = 0 THEN base ELSE StepOf(f[n - 1], n)]
           S == {k \in 0 .. Len(s) : \E f : Solves(f, k)}
<1>0. LiveIn(s) = CHOOSE f : f = [n \in 0 .. Len(s) |->
             IF n = 0 THEN << >>
             ELSE IF s[n] = REMOVED THEN f[n - 1] ELSE Append(f[n - 1], s[n])]
  BY DEF LiveIn
<1>a. LiveIn(s) = CHOOSE f : Solves(f, Len(s))
  BY <1>0
<1> HIDE DEF base, StepOf
<1>1. 0 \in S
  <2> DEFINE f0 == [n \in 0 .. 0 |-> base]
  <2>1. Solves(f0, 0)
    OBVIOUS
  <2> HIDE DEF f0, Solves
  <2>2. QED
    BY <2>1
<1>2. ASSUME NEW k \in 1 .. Len(s), k - 1 \in S
      PROVE  k \in S
  <2>1. PICK f : Solves(f, k - 1)
    BY <1>2
  <2> DEFINE g == [n \in 0 .. k |-> IF n = k THEN StepOf(f[k - 1], k) ELSE f[n]]
  <2>2. \A n \in 0 .. k - 1 : g[n] = f[n]
    OBVIOUS
  <2>3. \A n \in 0 .. k - 1 : f[n] = IF n = 0 THEN base ELSE StepOf(f[n - 1], n)
    BY <2>1
  <2>4. \A n \in 0 .. k : g[n] = IF n = 0 THEN base ELSE StepOf(g[n - 1], n)
    <3> SUFFICES ASSUME NEW n \in 0 .. k
                 PROVE  g[n] = IF n = 0 THEN base ELSE StepOf(g[n - 1], n)
      OBVIOUS
    <3>1. CASE n = k
      <4>1. g[n] = StepOf(f[n - 1], n) /\ g[n - 1] = f[n - 1] /\ n # 0
        BY <2>2, <3>1
      <4>2. QED
        BY <4>1
    <3>2. CASE n # k
      <4>1. n \in 0 .. k - 1 /\ (n # 0 => n - 1 \in 0 .. k - 1)
        BY <3>2
      <4>2. QED
        BY <4>1, <2>2, <2>3
    <3>3. QED
      BY <3>1, <3>2
  <2>5. g = [n \in 0 .. k |-> g[n]]
    OBVIOUS
  <2> HIDE DEF g
  <2>6. Solves(g, k)
    BY <2>4, <2>5
  <2>7. QED
    BY <2>6
<1> HIDE DEF S
<1>3. Len(s) \in S
  <2>1. \A k \in 1 .. Len(s) : k - 1 \in S => k \in S
    BY <1>2
  <2>2. \A k \in 0 .. Len(s) : k \in S
    BY <1>1, <2>1, UpTo
  <2>3. QED
    BY <2>2
<1>4. \E f : Solves(f, Len(s))
  BY <1>3 DEF S
<1> DEFINE g == LiveIn(s)
<1>5. Solves(g, Len(s))
  BY <1>a, <1>4
<1> HIDE DEF g
<1>6. g[0] = base /\ \A n \in 1 .. Len(s) : g[n] = StepOf(g[n - 1], n)
  BY <1>5
<1>7. QED
  BY <1>6 DEF g, base, StepOf

(* Live leaves the tombstones out and nothing else.                        *)
LEMMA LiveIs ==
  ASSUME NEW s \in Seq(Entries)
  PROVE  /\ Live(s) \in Seq(Entries) /\ Len(Live(s)) = Len(s) - Cardinality(HolesIn(s))
         /\ Range(Live(s)) = Range(s) \ {REMOVED}
         /\ \A i \in 1 .. Len(Live(s)) : Live(s)[i] # REMOVED
         /\ Distinct(s) => Distinct(Live(s))
         /\ HolesIn(s) = {} => Live(s) = s
<1> DEFINE K == LiveIn(s)
           Good(n) == /\ K[n] \in Seq(Entries)
                      /\ IsFiniteSet(HolesUpTo(s, n)) /\ Len(K[n]) = n - Cardinality(HolesUpTo(s, n))
                      /\ Cardinality(HolesUpTo(s, n)) \in Nat
                      /\ \A i \in 1 .. Len(K[n]) : \E k \in 1 .. n : s[k] # REMOVED /\ K[n][i] = s[k]
                      /\ \A k \in 1 .. n : s[k] # REMOVED => \E i \in 1 .. Len(K[n]) : K[n][i] = s[k]
                      /\ Distinct(s) => \A i, j \in 1 .. Len(K[n]) : i # j => K[n][i] # K[n][j]
                      /\ HolesUpTo(s, n) = {} => \A i \in 1 .. n : K[n][i] = s[i]
           S == {n \in 0 .. Len(s) : Good(n)}
<1>1. Len(s) \in Nat /\ \A k \in 1 .. Len(s) : s[k] \in Entries
  OBVIOUS
<1>2. /\ K[0] = << >>
      /\ \A n \in 1 .. Len(s) : K[n] = IF s[n] = REMOVED THEN K[n - 1] ELSE Append(K[n - 1], s[n])
  BY <1>1, LiveUnfolds
<1> HIDE DEF K
<1>3. 0 \in S
  <2>1. K[0] \in Seq(Entries) /\ Len(K[0]) = 0
    BY <1>2
  <2>2. HolesUpTo(s, 0) = {} /\ IsFiniteSet(HolesUpTo(s, 0)) /\ Cardinality(HolesUpTo(s, 0)) = 0
    <3>1. HolesUpTo(s, 0) = {}
      BY DEF HolesUpTo
    <3>2. QED
      BY <3>1, FS_EmptySet
  <2>3. QED
    BY <2>1, <2>2
<1>4. ASSUME NEW n \in 1 .. Len(s), n - 1 \in S
      PROVE  n \in S
  <2>1. Good(n - 1)
    BY <1>4
  <2>2. PICK m \in Nat : m = Len(K[n - 1])
    BY <2>1
  <2>3. CASE s[n] = REMOVED
    <3>1. K[n] = K[n - 1]
      BY <1>2, <2>3
    <3>2. HolesUpTo(s, n) = HolesUpTo(s, n - 1) \cup {n} /\ n \notin HolesUpTo(s, n - 1)
      BY <2>3 DEF HolesUpTo
    <3>3. IsFiniteSet(HolesUpTo(s, n)) /\ Cardinality(HolesUpTo(s, n)) = Cardinality(HolesUpTo(s, n - 1)) + 1
      <4>1. IsFiniteSet(HolesUpTo(s, n - 1))
        BY <2>1, Zenon
      <4>2. QED
        BY <3>2, <4>1, OneMore
    <3>4. \A k \in 1 .. n : s[k] # REMOVED => k \in 1 .. n - 1
      BY <2>3
    <3>5. HolesUpTo(s, n) # {}
      BY <3>2
    <3>6. Good(n)
      <4>1. \A k \in 1 .. n - 1 : k \in 1 .. n
        OBVIOUS
      <4>2. QED
        BY <2>1, <3>1, <3>3, <3>4, <3>5, <4>1
    <3>7. QED
      BY <3>6
  <2>4. CASE s[n] # REMOVED
    <3>1. K[n] = Append(K[n - 1], s[n]) /\ s[n] \in Entries
      BY <1>1, <1>2, <2>4
    <3>2. /\ K[n] \in Seq(Entries) /\ Len(K[n]) = m + 1
          /\ \A i \in 1 .. m : K[n][i] = K[n - 1][i]
          /\ K[n][m + 1] = s[n]
      BY <2>1, <2>2, <3>1, AppendIs
    <3>3. HolesUpTo(s, n) = HolesUpTo(s, n - 1)
      BY <2>4 DEF HolesUpTo
    <3>4. Len(K[n]) = n - Cardinality(HolesUpTo(s, n))
      BY <2>1, <2>2, <3>2, <3>3
    <3>5. ASSUME NEW i \in 1 .. Len(K[n])
          PROVE  \E k \in 1 .. n : s[k] # REMOVED /\ K[n][i] = s[k]
      <4>1. CASE i = m + 1
        BY <2>4, <3>2, <4>1
      <4>2. CASE i \in 1 .. m
        <5>1. PICK k \in 1 .. n - 1 : s[k] # REMOVED /\ K[n - 1][i] = s[k]
          BY <2>1, <2>2, <4>2
        <5>2. k \in 1 .. n
          OBVIOUS
        <5>3. QED
          BY <3>2, <4>2, <5>1, <5>2
      <4>3. QED
        BY <3>2, <4>1, <4>2
    <3>6. ASSUME NEW k \in 1 .. n, s[k] # REMOVED
          PROVE  \E i \in 1 .. Len(K[n]) : K[n][i] = s[k]
      <4>1. CASE k = n
        <5>1. m + 1 \in 1 .. Len(K[n])
          BY <3>2
        <5>2. QED
          BY <3>2, <4>1, <5>1
      <4>2. CASE k # n
        <5>1. k \in 1 .. n - 1
          BY <4>2
        <5>2. PICK i \in 1 .. m : K[n - 1][i] = s[k]
          BY <2>1, <2>2, <3>6, <5>1
        <5>3. i \in 1 .. Len(K[n])
          BY <3>2
        <5>4. QED
          BY <3>2, <5>2, <5>3
      <4>3. QED
        BY <4>1, <4>2
    <3>7. ASSUME Distinct(s), NEW i \in 1 .. Len(K[n]), NEW j \in 1 .. Len(K[n]), i < j
          PROVE  K[n][i] # K[n][j]
      <4>1. i \in 1 .. m /\ K[n][i] = K[n - 1][i]
        BY <3>2, <3>7
      <4>2. CASE j = m + 1
        <5>1. PICK k \in 1 .. n - 1 : s[k] # REMOVED /\ K[n - 1][i] = s[k]
          BY <2>1, <2>2, <4>1
        <5>2. k \in 1 .. Len(s) /\ k # n
          OBVIOUS
        <5>3. s[k] # s[n]
          BY <3>7, <5>1, <5>2 DEF Distinct
        <5>4. QED
          BY <3>2, <4>1, <4>2, <5>1, <5>3
      <4>3. CASE j \in 1 .. m
        <5>0. \A p, q \in 1 .. Len(K[n - 1]) : p # q => K[n - 1][p] # K[n - 1][q]
          BY <2>1, <3>7, Zenon
        <5>1. K[n - 1][i] # K[n - 1][j]
          BY <2>2, <3>7, <4>1, <4>3, <5>0
        <5>2. QED
          BY <3>2, <4>1, <4>3, <5>1
      <4>4. QED
        BY <3>2, <4>2, <4>3
    <3>8. ASSUME HolesUpTo(s, n) = {}, NEW i \in 1 .. n
          PROVE  K[n][i] = s[i]
      <4>1. m = n - 1
        <5>1. Cardinality(HolesUpTo(s, n - 1)) = 0
          BY <3>3, <3>8, FS_EmptySet
        <5>2. Len(K[n - 1]) = (n - 1) - Cardinality(HolesUpTo(s, n - 1))
          BY <2>1
        <5>3. QED
          BY <2>2, <5>1, <5>2
      <4>2. CASE i = n
        BY <3>2, <4>1, <4>2
      <4>3. CASE i # n
        <5>1. i \in 1 .. n - 1
          BY <4>3
        <5>2. QED
          BY <2>1, <3>2, <3>3, <3>8, <4>1, <5>1
      <4>4. QED
        BY <4>2, <4>3
    <3>9. Distinct(s) => \A i, j \in 1 .. Len(K[n]) : i # j => K[n][i] # K[n][j]
      <4> SUFFICES ASSUME Distinct(s), NEW i \in 1 .. Len(K[n]), NEW j \in 1 .. Len(K[n]), i # j
                   PROVE  K[n][i] # K[n][j]
        OBVIOUS
      <4>1. i < j \/ j < i
        BY <3>2
      <4>2. QED
        BY <3>7, <4>1
    <3>10. Good(n)
      BY <2>1, <3>2, <3>3, <3>4, <3>5, <3>6, <3>8, <3>9
    <3>11. QED
      BY <3>10
  <2>5. QED
    BY <2>3, <2>4
<1> HIDE DEF S
<1>5. \A n \in 1 .. Len(s) : n - 1 \in S => n \in S
  BY <1>4
<1>6. \A n \in 0 .. Len(s) : n \in S
  BY <1>1, <1>3, <1>5, UpTo
<1>7. Good(Len(s))
  <2> HIDE DEF Good
  <2>1. Len(s) \in S
    BY <1>1, <1>6
  <2>2. QED
    BY <2>1 DEF S
<1>8. HolesUpTo(s, Len(s)) = HolesIn(s)
  BY DEF HolesIn
<1> DEFINE l == K[Len(s)]
<1>9. /\ l \in Seq(Entries) /\ Len(l) = Len(s) - Cardinality(HolesIn(s)) /\ Len(l) \in Nat
      /\ \A i \in 1 .. Len(l) : \E k \in 1 .. Len(s) : s[k] # REMOVED /\ l[i] = s[k]
      /\ \A k \in 1 .. Len(s) : s[k] # REMOVED => \E i \in 1 .. Len(l) : l[i] = s[k]
      /\ Distinct(s) => \A i, j \in 1 .. Len(l) : i # j => l[i] # l[j]
      /\ HolesIn(s) = {} => \A i \in 1 .. Len(s) : l[i] = s[i]
  <2>1. QED
    BY <1>7, <1>8
<1> HIDE DEF l
<1>10. Range(l) = Range(s) \ {REMOVED}
  <2>1. Range(l) = {l[i] : i \in 1 .. Len(l)} /\ Range(s) = {s[i] : i \in 1 .. Len(s)}
    BY <1>1, <1>9, RangeIs
  <2>2. ASSUME NEW x \in Range(l) PROVE x \in Range(s) /\ x # REMOVED
    <3>1. PICK i \in 1 .. Len(l) : x = l[i]
      BY <2>1, <2>2
    <3>2. PICK k \in 1 .. Len(s) : s[k] # REMOVED /\ l[i] = s[k]
      BY <1>9
    <3>3. QED
      BY <2>1, <3>1, <3>2
  <2>3. ASSUME NEW x \in Range(s), x # REMOVED PROVE x \in Range(l)
    <3>1. PICK k \in 1 .. Len(s) : x = s[k]
      BY <2>1, <2>3
    <3>2. PICK i \in 1 .. Len(l) : l[i] = s[k]
      BY <1>9, <2>3, <3>1
    <3>3. QED
      BY <2>1, <3>1, <3>2
  <2>4. QED
    BY <2>2, <2>3
<1>11. Distinct(s) => Distinct(l)
  BY <1>9 DEF Distinct
<1>12. HolesIn(s) = {} => l = s
  <2>1. HolesIn(s) = {} => Len(l) = Len(s)
    BY <1>1, <1>9, FS_EmptySet
  <2>2. QED
    BY <1>9, <2>1, SameSequence
<1>13. l = Live(s)
  BY DEF l, Live, K
<1>14. \A i \in 1 .. Len(l) : l[i] # REMOVED
  BY <1>9
<1>15. QED
  BY <1>9, <1>10, <1>11, <1>12, <1>13, <1>14

-----------------------------------------------------------------------------
(* Sound lists.                                                            *)

LEMMA Positions ==
  ASSUME NEW s \in Seq(Entries)
  PROVE  /\ Len(s) \in Nat /\ DOMAIN s = 1 .. Len(s)
         /\ Range(s) = {s[p] : p \in 1 .. Len(s)} /\ Range(s) \subseteq Entries
         /\ \A p \in 1 .. Len(s) : s[p] \in Range(s)
<1>1. Len(s) \in Nat /\ DOMAIN s = 1 .. Len(s) /\ \A p \in 1 .. Len(s) : s[p] \in Entries
  OBVIOUS
<1>2. Range(s) = {s[p] : p \in 1 .. Len(s)}
  BY <1>1, RangeIs
<1>3. QED
  BY <1>1, <1>2

(* What Sound says is what the representation needs (FreeListSound).       *)
LEMMA SoundSuffices ==
  ASSUME NEW fl, Sound(fl)
  PROVE  FreeListSound(fl) /\ fl.holes \in 0 .. Len(fl.slots) /\ Live(fl.slots) \in Seq(Entries)
         /\ AsSlice(fl) = Live(fl.slots) /\ Range(Live(fl.slots)) = Free(fl)
<1> DEFINE s == fl.slots
<1>1. s \in Seq(Entries) /\ Len(s) \in Nat /\ DOMAIN s = 1 .. Len(s)
  BY Positions DEF Sound
<1>2. \A p, q \in DOMAIN s : p # q /\ s[p] # REMOVED => s[p] # s[q]
  BY <1>1 DEF Sound, Distinct
<1>3. {p \in DOMAIN s : s[p] = REMOVED} = HolesIn(s)
  BY <1>1 DEF HolesIn, HolesUpTo
<1>4. fl.holes = Cardinality(HolesIn(s)) /\ fl.holes \in 0 .. Len(s) /\ (fl.holes = 0 => HolesIn(s) = {})
  BY <1>1, HolesFinite DEF Sound
<1>5. Range(Live(s)) = Free(fl) /\ Live(s) \in Seq(Entries)
  BY <1>1, LiveIs DEF Free
<1>6. fl.positions # None => /\ DOMAIN fl.positions = Range(Live(s))
                             /\ \A i \in DOMAIN fl.positions : s[fl.positions[i]] = i
  BY <1>5 DEF Sound
<1>7. AsSlice(fl) = Live(s)
  BY <1>1, <1>4, LiveIs DEF AsSlice, Sound
<1>8. QED
  BY <1>2, <1>3, <1>4, <1>5, <1>6, <1>7 DEF FreeListSound, Sound

LEMMA GrownCapIs ==
  ASSUME NEW cap \in Nat, NEW required \in Nat
  PROVE  /\ GrownCap(cap, required) \in Nat
         /\ cap <= GrownCap(cap, required) /\ required <= GrownCap(cap, required)
         /\ required <= cap => GrownCap(cap, required) = cap
<1> DEFINE Caps == {required, 2 * cap, MinCap}
<1>1. MinCap \in Nat /\ 2 * cap \in Nat /\ cap <= 2 * cap
  BY FreeListAssumption
<1>2. \E n \in Caps : \A m \in Caps : m <= n
  <2>1. CASE required <= 2 * cap /\ MinCap <= 2 * cap
    BY <1>1, <2>1
  <2>2. CASE 2 * cap <= required /\ MinCap <= required
    BY <1>1, <2>2
  <2>3. CASE required <= MinCap /\ 2 * cap <= MinCap
    BY <1>1, <2>3
  <2>4. QED
    BY <1>1, <2>1, <2>2, <2>3
<1> DEFINE n == CHOOSE n \in Caps : \A m \in Caps : m <= n
<1>3. n \in Caps /\ \A m \in Caps : m <= n
  BY <1>2
<1>4. n \in Nat /\ 2 * cap <= n /\ required <= n
  BY <1>1, <1>3
<1>5. GrownCap(cap, required) = IF required <= cap THEN cap ELSE n
  BY DEF GrownCap
<1> HIDE DEF n
<1>6. QED
  BY <1>1, <1>4, <1>5

LEMMA EmptyIs ==
  Sound(EmptyFreeList) /\ Free(EmptyFreeList) = {} /\ EmptyFreeList.cap = 0
<1> DEFINE fl == EmptyFreeList
<1>1. /\ fl.slots = << >> /\ fl.positions = None /\ fl.holes = 0 /\ fl.snapshot = None /\ fl.cap = 0
      /\ DOMAIN fl = Fields
  BY DEF EmptyFreeList, Fields
<1>2. fl.slots \in Seq(Entries) /\ Len(fl.slots) = 0
  BY <1>1
<1>3. Range(fl.slots) = {} /\ HolesIn(fl.slots) = {}
  BY <1>2, Positions DEF HolesIn, HolesUpTo
<1>4. Cardinality(HolesIn(fl.slots)) = 0
  BY <1>3, FS_EmptySet
<1>5. QED
  BY <1>1, <1>2, <1>3, <1>4 DEF Sound, Distinct, Free

LEMMA ReserveIs ==
  ASSUME NEW fl, Sound(fl), NEW total \in Nat
  PROVE  /\ Sound(ReserveTotal(fl, total)) /\ Free(ReserveTotal(fl, total)) = Free(fl)
         /\ fl.cap <= ReserveTotal(fl, total).cap /\ total <= ReserveTotal(fl, total).cap
<1> DEFINE r == ReserveTotal(fl, total)
<1>1. DOMAIN fl = Fields
  BY DEF Sound
<1>2. /\ DOMAIN r = Fields /\ r.slots = fl.slots /\ r.positions = fl.positions /\ r.holes = fl.holes
      /\ r.snapshot = fl.snapshot /\ r.cap = GrownCap(fl.cap, total)
  BY <1>1 DEF ReserveTotal, Fields
<1>a. fl.cap \in Nat
  BY DEF Sound
<1> HIDE DEF r
<1>3. r.cap \in Nat /\ fl.cap <= r.cap /\ total <= r.cap
  BY <1>2, <1>a, GrownCapIs
<1>4. Free(r) = Free(fl)
  BY <1>2 DEF Free
<1>5. Len(fl.slots) \in Nat /\ Len(fl.slots) <= fl.cap /\ fl.cap \in Nat
  BY DEF Sound
<1>6. Len(r.slots) <= r.cap
  BY <1>2, <1>3, <1>5
<1>7. Sound(r)
  BY <1>1, <1>2, <1>3, <1>4, <1>6 DEF Sound
<1>8. QED
  BY <1>3, <1>4, <1>7 DEF r

(* A list without tombstones, index and cached slice.                      *)
LEMMA PlainIsSound ==
  ASSUME NEW s \in Seq(Entries), HolesIn(s) = {}, Distinct(s), NEW c \in Nat, Len(s) <= c,
         NEW fl, DOMAIN fl = Fields, fl.slots = s, fl.positions = None, fl.holes = 0,
         fl.snapshot = None, fl.cap = c
  PROVE  Sound(fl) /\ Free(fl) = Range(s)
<1>1. Cardinality(HolesIn(s)) = 0
  BY FS_EmptySet
<1>2. REMOVED \notin Range(s)
  BY Positions DEF HolesIn, HolesUpTo
<1>3. QED
  BY <1>1, <1>2 DEF Sound, Free

LEMMA AssignIs ==
  ASSUME NEW fl, Sound(fl), NEW s \in Seq(Entries), HolesIn(s) = {}, Distinct(s)
  PROVE  /\ Sound(Assign(fl, s)) /\ Free(Assign(fl, s)) = Range(s)
         /\ fl.cap <= Assign(fl, s).cap
<1>1. fl.cap \in Nat /\ Len(s) \in Nat
  BY DEF Sound
<1> DEFINE c == GrownCap(fl.cap, Len(s))
<1>2. c \in Nat /\ fl.cap <= c /\ Len(s) <= c
  BY <1>1, GrownCapIs
<1> HIDE DEF c
<1>3. /\ DOMAIN Assign(fl, s) = Fields /\ Assign(fl, s).slots = s
      /\ Assign(fl, s).positions = None /\ Assign(fl, s).holes = 0
      /\ Assign(fl, s).snapshot = None /\ Assign(fl, s).cap = c
  BY DEF Assign, EmptyFreeList, Fields, c
<1>4. QED
  BY <1>2, <1>3, PlainIsSound

LEMMA CacheIs ==
  ASSUME NEW fl, Sound(fl)
  PROVE  Sound(CacheSlice(fl)) /\ CacheSlice(fl).slots = fl.slots /\ CacheSlice(fl).cap = fl.cap
<1>1. CASE fl.holes = 0
  BY <1>1 DEF CacheSlice
<1>2. CASE fl.holes # 0
  <2> DEFINE r == CacheSlice(fl)
  <2>1. DOMAIN fl = Fields /\ AsSlice(fl) = Live(fl.slots)
    BY SoundSuffices DEF Sound
  <2>2. r = [fl EXCEPT !.snapshot = Live(fl.slots)]
    BY <1>2, <2>1 DEF CacheSlice
  <2>3. /\ DOMAIN r = Fields /\ r.slots = fl.slots /\ r.positions = fl.positions
        /\ r.holes = fl.holes /\ r.snapshot = Live(fl.slots) /\ r.cap = fl.cap
    BY <2>1, <2>2 DEF Fields
  <2>4. Free(r) = Free(fl)
    BY <2>3 DEF Free
  <2> HIDE DEF r
  <2>5. Sound(r)
    BY <2>3, <2>4 DEF Sound
  <2>6. QED
    BY <2>3, <2>5 DEF r
<1>3. QED
  BY <1>1, <1>2

-----------------------------------------------------------------------------
(* compact, push and pop.                                                  *)

LEMMA IndexOfIs ==
  ASSUME NEW s \in Seq(Entries)
  PROVE  /\ IndexOf(s) \in [Range(s) -> 1 .. Len(s)]
         /\ \A i \in Range(s) : s[IndexOf(s)[i]] = i
<1>1. DOMAIN s = 1 .. Len(s) /\ Range(s) = {s[p] : p \in 1 .. Len(s)}
  BY Positions
<1>2. \A i \in Range(s) : /\ (CHOOSE p \in 1 .. Len(s) : s[p] = i) \in 1 .. Len(s)
                          /\ s[CHOOSE p \in 1 .. Len(s) : s[p] = i] = i
  BY <1>1
<1>3. IndexOf(s) = [i \in Range(s) |-> CHOOSE p \in 1 .. Len(s) : s[p] = i]
  BY <1>1 DEF IndexOf
<1>4. QED
  BY <1>2, <1>3

LEMMA CompactIs ==
  ASSUME NEW fl, Sound(fl)
  PROVE  /\ Sound(Compact(fl)) /\ Free(Compact(fl)) = Free(fl)
         /\ Compact(fl).cap = fl.cap /\ Compact(fl).snapshot = fl.snapshot
         /\ Len(Compact(fl).slots) = Len(fl.slots) - fl.holes
<1> DEFINE r == Compact(fl)
           kept == Live(fl.slots)
<1>1. fl.slots \in Seq(Entries) /\ fl.holes = Cardinality(HolesIn(fl.slots))
      /\ fl.holes \in 0 .. Len(fl.slots) /\ Len(fl.slots) \in Nat
      /\ fl.cap \in Nat /\ Len(fl.slots) <= fl.cap
  BY SoundSuffices, Positions DEF Sound
<1>2. /\ kept \in Seq(Entries) /\ Len(kept) = Len(fl.slots) - fl.holes
      /\ Range(kept) = Free(fl) /\ Distinct(kept)
      /\ \A i \in 1 .. Len(kept) : kept[i] # REMOVED
  BY <1>1, LiveIs DEF Free, Sound
<1> HIDE DEF kept
<1>3. HolesIn(kept) = {} /\ Cardinality(HolesIn(kept)) = 0
  <2>1. HolesIn(kept) = {}
    BY <1>2 DEF HolesIn, HolesUpTo
  <2>2. QED
    BY <2>1, FS_EmptySet
<1>4. Live(kept) = kept
  BY <1>2, <1>3, LiveIs
<1>5. DOMAIN fl = Fields
  BY DEF Sound
<1>6. /\ DOMAIN r = Fields /\ r.slots = kept
      /\ r.positions = (IF fl.positions = None THEN None ELSE IndexOf(kept))
      /\ r.holes = 0 /\ r.snapshot = fl.snapshot /\ r.cap = fl.cap
  BY <1>5 DEF Compact, Fields, kept
<1> HIDE DEF r
<1>7. Free(r) = Free(fl) /\ Free(r) = Range(kept)
  <2>1. REMOVED \notin Range(kept)
    BY <1>2 DEF Free
  <2>2. QED
    BY <1>2, <1>6, <2>1 DEF Free
<1>8. r.snapshot # None => r.snapshot = Live(r.slots)
  BY <1>4, <1>6 DEF Sound, kept
<1>9. r.positions # None =>
        r.positions \in [Free(r) -> 1 .. Len(kept)] /\ \A i \in Free(r) : kept[r.positions[i]] = i
  BY <1>2, <1>6, <1>7, IndexOfIs
<1>10. Len(kept) <= fl.cap
  BY <1>1, <1>2
<1>11. Sound(r)
  BY <1>1, <1>2, <1>3, <1>6, <1>8, <1>9, <1>10 DEF Sound
<1>12. QED
  BY <1>2, <1>6, <1>7, <1>11 DEF r

(* A sound list without its cached slice.                                  *)
LEMMA UncachedIs ==
  ASSUME NEW fl, Sound(fl)
  PROVE  LET r == [fl EXCEPT !.snapshot = None]
         IN  /\ Sound(r) /\ r.slots = fl.slots /\ r.positions = fl.positions
             /\ r.holes = fl.holes /\ r.snapshot = None /\ r.cap = fl.cap /\ Free(r) = Free(fl)
<1> DEFINE r == [fl EXCEPT !.snapshot = None]
<1>1. DOMAIN fl = Fields
  BY DEF Sound
<1>2. /\ DOMAIN r = Fields /\ r.slots = fl.slots /\ r.positions = fl.positions /\ r.holes = fl.holes
      /\ r.snapshot = None /\ r.cap = fl.cap
  BY <1>1 DEF Fields
<1> HIDE DEF r
<1>3. Free(r) = Free(fl)
  BY <1>2 DEF Free
<1>4. Sound(r)
  BY <1>1, <1>2, <1>3 DEF Sound
<1>5. QED
  BY <1>2, <1>3, <1>4 DEF r

LEMMA Append1Is ==
  ASSUME NEW fl, Sound(fl), fl.snapshot = None, NEW i \in 0 .. REMOVED - 1, i \notin Free(fl)
  PROVE  /\ Sound(Append1(fl, i)) /\ Free(Append1(fl, i)) = Free(fl) \cup {i}
         /\ fl.cap <= Append1(fl, i).cap
         /\ Len(fl.slots) < fl.cap => Append1(fl, i).cap = fl.cap
<1> DEFINE r == Append1(fl, i)
           s == fl.slots
           t == Append(s, i)
           n == Len(s)
           at == IF fl.positions = None THEN None
                 ELSE [j \in DOMAIN fl.positions \cup {i} |->
                         IF j = i THEN n + 1 ELSE fl.positions[j]]
<1>1. s \in Seq(Entries) /\ n \in Nat /\ i \in Entries /\ i # REMOVED /\ REMOVED \in Nat
  BY FreeListAssumption, Positions DEF Sound, Entries
<1>2. DOMAIN fl = Fields
  BY DEF Sound
<1>3. /\ DOMAIN r = Fields /\ r.slots = t /\ r.positions = at /\ r.holes = fl.holes /\ r.snapshot = None
      /\ r.cap = GrownCap(fl.cap, n + 1)
  BY <1>2 DEF Append1, Fields
<1> HIDE DEF at, t, r
<1>4. /\ t \in Seq(Entries) /\ Len(t) = n + 1 /\ t[n + 1] = i /\ \A p \in 1 .. n : t[p] = s[p]
  BY <1>1, AppendIs DEF t
<1>5. r.cap \in Nat /\ n + 1 <= r.cap /\ fl.cap <= r.cap /\ (n < fl.cap => r.cap = fl.cap)
  <2>1. fl.cap \in Nat
    BY DEF Sound
  <2> HIDE DEF n
  <2>2. n + 1 \in Nat /\ (n < fl.cap => n + 1 <= fl.cap)
    BY <1>1, <2>1
  <2>3. PICK required \in Nat : required = n + 1
    BY <2>2
  <2>4. /\ GrownCap(fl.cap, required) \in Nat
        /\ fl.cap <= GrownCap(fl.cap, required) /\ required <= GrownCap(fl.cap, required)
        /\ required <= fl.cap => GrownCap(fl.cap, required) = fl.cap
    BY <2>1, GrownCapIs
  <2>5. r.cap = GrownCap(fl.cap, required)
    BY <1>3, <2>3
  <2>6. QED
    BY <2>2, <2>3, <2>4, <2>5
<1>6. Range(t) = Range(s) \cup {i}
  <2>1. Range(t) = {t[p] : p \in 1 .. n + 1} /\ Range(s) = {s[p] : p \in 1 .. n}
    BY <1>1, <1>4, Positions
  <2>2. \A p \in 1 .. n + 1 : p \in 1 .. n \/ p = n + 1
    BY <1>1
  <2>3. \A p \in 1 .. n : p \in 1 .. n + 1
    BY <1>1
  <2>4. n + 1 \in 1 .. n + 1
    BY <1>1
  <2> HIDE DEF n, s
  <2>5. Range(t) \subseteq Range(s) \cup {i}
    BY <1>4, <2>1, <2>2
  <2>6. Range(s) \cup {i} \subseteq Range(t)
    BY <1>4, <2>1, <2>3, <2>4
  <2>7. QED
    BY <2>5, <2>6
<1>7. Free(r) = Free(fl) \cup {i}
  BY <1>1, <1>3, <1>6 DEF Free
<1>8. HolesIn(t) = HolesIn(s)
  <2> HIDE DEF s
  <2>1. QED
    BY <1>1, <1>4 DEF HolesIn, HolesUpTo
<1>9. Distinct(t)
  <2> SUFFICES ASSUME NEW p \in 1 .. n + 1, NEW q \in 1 .. n + 1, p < q
               PROVE  (t[p] # REMOVED \/ t[q] # REMOVED) => t[p] # t[q]
    BY <1>1, <1>4 DEF Distinct
  <2>1. p \in 1 .. n /\ t[p] = s[p]
    BY <1>1, <1>4
  <2>2. CASE q = n + 1
    <3>1. s[p] \in Range(s)
      BY <1>1, <2>1, Positions
    <3>2. s[p] # i
      BY <1>1, <3>1 DEF Free
    <3>3. QED
      BY <1>4, <2>1, <2>2, <3>2
  <2>3. CASE q \in 1 .. n
    <3>1. t[q] = s[q] /\ p # q
      BY <1>1, <1>4, <2>3
    <3>2. QED
      BY <2>1, <2>3, <3>1 DEF Sound, Distinct
  <2>4. QED
    BY <1>1, <2>2, <2>3
<1>10. at # None => at \in [Free(r) -> 1 .. n + 1] /\ \A j \in Free(r) : t[at[j]] = j
  <2> SUFFICES ASSUME at # None
               PROVE  at \in [Free(r) -> 1 .. n + 1] /\ \A j \in Free(r) : t[at[j]] = j
    OBVIOUS
  <2>1. fl.positions # None /\ at = [j \in DOMAIN fl.positions \cup {i} |->
                                       IF j = i THEN n + 1 ELSE fl.positions[j]]
    BY DEF at
  <2>2. /\ DOMAIN fl.positions = Free(fl)
        /\ \A j \in Free(fl) : fl.positions[j] \in 1 .. n /\ s[fl.positions[j]] = j
    BY <2>1 DEF Sound
  <2> HIDE DEF n, s
  <2>3. at = [j \in Free(r) |-> IF j = i THEN n + 1 ELSE fl.positions[j]]
    BY <1>7, <2>1, <2>2
  <2>a. i \in Free(r) /\ \A j \in Free(fl) : j \in Free(r) /\ j # i
    BY <1>7
  <2>b. at[i] = n + 1 /\ \A j \in Free(fl) : at[j] = fl.positions[j]
    BY <2>3, <2>a
  <2>4. \A j \in Free(fl) : at[j] \in 1 .. n + 1 /\ t[at[j]] = j
    BY <1>1, <1>4, <2>2, <2>b
  <2>5. at[i] \in 1 .. n + 1 /\ t[at[i]] = i
    BY <1>1, <1>4, <2>b
  <2>6. \A j \in Free(r) : at[j] \in 1 .. n + 1 /\ t[at[j]] = j
    BY <1>7, <2>4, <2>5
  <2>7. QED
    BY <2>3, <2>6
<1>11. at = None => fl.holes = 0
  <2> SUFFICES ASSUME at = None, fl.positions # None PROVE FALSE
    BY DEF Sound
  <2>1. at = [j \in DOMAIN fl.positions \cup {i} |-> IF j = i THEN n + 1 ELSE fl.positions[j]]
    BY DEF at
  <2>2. DOMAIN fl.positions = Free(fl) /\ \A j \in Free(fl) : fl.positions[j] \in 1 .. n
    BY DEF Sound
  <2> HIDE DEF n
  <2>3. at \in [Free(fl) \cup {i} -> Nat]
    BY <1>1, <2>1, <2>2
  <2>4. Free(fl) \cup {i} \in SUBSET (0 .. REMOVED - 1)
    <3>1. Free(fl) \subseteq Entries \ {REMOVED}
      BY <1>1, Positions DEF Free
    <3>2. QED
      BY <1>1, <3>1 DEF Entries
  <2>5. QED
    BY <2>3, <2>4, FreeListAssumption
<1>12. Sound(r)
  <2>1. fl.holes = Cardinality(HolesIn(t))
    BY <1>8 DEF Sound
  <2>2. Len(r.slots) <= r.cap
    BY <1>3, <1>4, <1>5
  <2> HIDE DEF n, s
  <2>3. QED
    BY <1>2, <1>3, <1>4, <1>5, <1>9, <1>10, <1>11, <2>1, <2>2 DEF Sound
<1>13. QED
  BY <1>5, <1>7, <1>12 DEF r

LEMMA PushIs ==
  ASSUME NEW fl, Sound(fl), NEW i \in 0 .. REMOVED - 1, i \notin Free(fl)
  PROVE  /\ Sound(Push(fl, i)) /\ Free(Push(fl, i)) = Free(fl) \cup {i}
         /\ fl.cap <= Push(fl, i).cap
         /\ Len(fl.slots) < fl.cap \/ fl.holes > 0 => Push(fl, i).cap = fl.cap
<1> DEFINE fresh == [fl EXCEPT !.snapshot = None]
           full == Len(fl.slots) = fl.cap /\ fl.holes > 0
           base == IF full THEN Compact(fresh) ELSE fresh
<1>1. Push(fl, i) = Append1(base, i)
  BY DEF Push
<1>2. /\ Sound(fresh) /\ fresh.slots = fl.slots /\ fresh.holes = fl.holes /\ fresh.snapshot = None
      /\ fresh.cap = fl.cap /\ Free(fresh) = Free(fl)
  BY UncachedIs
<1>3. /\ Len(fl.slots) \in Nat /\ fl.cap \in Nat /\ Len(fl.slots) <= fl.cap
      /\ fl.holes \in 0 .. Len(fl.slots)
  BY SoundSuffices DEF Sound
<1> HIDE DEF fresh
<1>4. /\ Sound(Compact(fresh)) /\ Free(Compact(fresh)) = Free(fl) /\ Compact(fresh).cap = fl.cap
      /\ Compact(fresh).snapshot = None /\ Len(Compact(fresh).slots) = Len(fl.slots) - fl.holes
  BY <1>2, CompactIs
<1>5. /\ Sound(base) /\ base.snapshot = None /\ Free(base) = Free(fl) /\ base.cap = fl.cap
      /\ Len(fl.slots) < fl.cap \/ fl.holes > 0 => Len(base.slots) < base.cap
  BY <1>2, <1>3, <1>4
<1> HIDE DEF base
<1>6. QED
  BY <1>1, <1>5, Append1Is

(* The last live entry of a list that has one.                             *)
LEMMA TopIs ==
  ASSUME NEW s \in Seq(Entries),
         {p \in DOMAIN s : s[p] # REMOVED} # {}
  PROVE  LET live == {p \in DOMAIN s : s[p] # REMOVED}
             top == CHOOSE p \in live : \A q \in live : q <= p
         IN  /\ top \in 1 .. Len(s) /\ s[top] # REMOVED
             /\ \A p \in top + 1 .. Len(s) : s[p] = REMOVED
<1> DEFINE live == {p \in DOMAIN s : s[p] # REMOVED}
           top == CHOOSE p \in live : \A q \in live : q <= p
<1>1. Len(s) \in Nat /\ live \subseteq 1 .. Len(s) /\ live = {p \in 1 .. Len(s) : s[p] # REMOVED}
  BY Positions
<1>2. live \subseteq Nat /\ \A p \in live : p <= Len(s)
  BY <1>1
<1> HIDE DEF live
<1>3. live # {}
  BY DEF live
<1>4. \E p \in live : \A q \in live : q <= p
  BY <1>1, <1>2, <1>3, GreatestElement
<1>5. top \in live /\ \A q \in live : q <= top
  BY <1>4
<1> HIDE DEF top
<1>6. top \in 1 .. Len(s) /\ s[top] # REMOVED
  BY <1>1, <1>5
<1>7. ASSUME NEW p \in top + 1 .. Len(s) PROVE s[p] = REMOVED
  <2>1. p \in 1 .. Len(s) /\ ~(p <= top)
    BY <1>1, <1>6
  <2>2. p \notin live
    BY <1>5, <2>1
  <2>3. QED
    BY <1>1, <2>1, <2>2
<1>8. QED
  BY <1>6, <1>7 DEF top, live

(* Cutting off a live entry and the tombstones behind it.                  *)
LEMMA CutIs ==
  ASSUME NEW s \in Seq(Entries), Distinct(s),
         NEW top \in 1 .. Len(s), s[top] # REMOVED, \A p \in top + 1 .. Len(s) : s[p] = REMOVED
  PROVE  LET t == SubSeq(s, 1, top - 1)
         IN  /\ t \in Seq(Entries) /\ Len(t) = top - 1 /\ \A p \in 1 .. top - 1 : t[p] = s[p]
             /\ Distinct(t)
             /\ Cardinality(HolesIn(t)) = Cardinality(HolesIn(s)) - (Len(s) - top)
             /\ Range(t) \ {REMOVED} = (Range(s) \ {REMOVED}) \ {s[top]}
<1> DEFINE t == SubSeq(s, 1, top - 1)
<1>1. Len(s) \in Nat /\ top \in Nat /\ top - 1 \in Nat
  OBVIOUS
<1>2. t \in Seq(Entries) /\ Len(t) = top - 1 /\ \A p \in 1 .. top - 1 : t[p] = s[p]
  BY <1>1
<1> HIDE DEF t
<1>3. Distinct(t)
  BY <1>1, <1>2 DEF Distinct
<1>4. HolesIn(s) = HolesIn(t) \cup (top + 1 .. Len(s)) /\ HolesIn(t) \cap (top + 1 .. Len(s)) = {}
  <2>1. \A p \in 1 .. Len(s) : p \in 1 .. top - 1 \/ p = top \/ p \in top + 1 .. Len(s)
    BY <1>1
  <2>2. \A p \in 1 .. top - 1 : p \in 1 .. Len(s) /\ p \notin top + 1 .. Len(s)
    BY <1>1
  <2>3. \A p \in top + 1 .. Len(s) : p \in 1 .. Len(s)
    BY <1>1
  <2>4. QED
    BY <1>2, <2>1, <2>2, <2>3 DEF HolesIn, HolesUpTo
<1>5. Cardinality(HolesIn(t)) = Cardinality(HolesIn(s)) - (Len(s) - top)
  <2>1. IsFiniteSet(top + 1 .. Len(s)) /\ Cardinality(top + 1 .. Len(s)) = Len(s) - top
    BY <1>1, FS_Interval
  <2>2. IsFiniteSet(HolesIn(t)) /\ Cardinality(HolesIn(t)) \in Nat
    BY <1>1, <1>2, HolesFinite
  <2>3. Cardinality(HolesIn(s)) = Cardinality(HolesIn(t)) + Cardinality(top + 1 .. Len(s)) - Cardinality({})
    BY <1>4, <2>1, <2>2, FS_Union
  <2>4. QED
    BY <1>1, <2>1, <2>2, <2>3, FS_EmptySet
<1>6. Range(t) \ {REMOVED} = (Range(s) \ {REMOVED}) \ {s[top]}
  <2>1. Range(t) = {t[p] : p \in 1 .. top - 1} /\ Range(s) = {s[p] : p \in 1 .. Len(s)}
    BY <1>2, Positions
  <2>2. ASSUME NEW x \in Range(t), x # REMOVED PROVE x \in Range(s) /\ x # s[top]
    <3>1. PICK p \in 1 .. top - 1 : x = s[p]
      BY <1>2, <2>1, <2>2
    <3>2. p \in 1 .. Len(s) /\ p # top
      BY <1>1
    <3>3. QED
      BY <2>1, <2>2, <3>1, <3>2 DEF Distinct
  <2>3. ASSUME NEW x \in Range(s), x # REMOVED, x # s[top] PROVE x \in Range(t)
    <3>1. PICK p \in 1 .. Len(s) : x = s[p]
      BY <2>1, <2>3
    <3>2. p \in 1 .. top - 1
      BY <1>1, <2>3, <3>1
    <3>3. QED
      BY <1>2, <2>1, <3>1, <3>2
  <2>4. QED
    BY <2>2, <2>3
<1>7. QED
  BY <1>2, <1>3, <1>5, <1>6 DEF t

LEMMA PopIs ==
  ASSUME NEW fl, Sound(fl)
  PROVE  /\ Sound(Pop(fl).list) /\ Pop(fl).list.cap = fl.cap
         /\ Pop(fl).index = None => Free(fl) = {} /\ Free(Pop(fl).list) = {}
         /\ Pop(fl).index # None => /\ Pop(fl).index \in Free(fl)
                                    /\ Free(Pop(fl).list) = Free(fl) \ {Pop(fl).index}
         /\ \A i \in Entries : IsLast(fl, i) /\ i # REMOVED => Pop(fl).index = i
<1> DEFINE s == fl.slots
           live == {p \in DOMAIN s : s[p] # REMOVED}
           top == CHOOSE p \in live : \A q \in live : q <= p
           r == Pop(fl).list
<1>1. /\ s \in Seq(Entries) /\ Len(s) \in Nat /\ DOMAIN s = 1 .. Len(s) /\ DOMAIN fl = Fields
      /\ Distinct(s) /\ fl.cap \in Nat /\ Len(s) <= fl.cap
      /\ Range(s) = {s[p] : p \in 1 .. Len(s)} /\ fl.holes = Cardinality(HolesIn(s))
      /\ fl.holes \in 0 .. Len(s)
  BY Positions, SoundSuffices DEF Sound
<1>2. CASE live = {}
  <2>1. /\ DOMAIN r = Fields /\ r.slots = << >> /\ r.holes = fl.holes - Len(s) /\ r.positions = None
        /\ r.snapshot = None /\ r.cap = fl.cap
    BY <1>1, <1>2 DEF Pop, Fields
  <2>2. Pop(fl).index = None
    BY <1>2 DEF Pop
  <2> HIDE DEF r
  <2>3. HolesIn(s) = 1 .. Len(s)
    BY <1>1, <1>2 DEF HolesIn, HolesUpTo
  <2>4. r.holes = 0
    <3>1. Cardinality(1 .. Len(s)) = Len(s)
      BY <1>1, IntervalSize
    <3>2. QED
      BY <1>1, <2>1, <2>3, <3>1
  <2>5. Free(fl) = {}
    BY <1>1, <1>2 DEF Free
  <2>6. r.slots \in Seq(Entries) /\ Len(r.slots) = 0
    BY <2>1
  <2>7. HolesIn(r.slots) = {} /\ Distinct(r.slots) /\ Range(r.slots) = {}
    BY <2>6, Positions DEF HolesIn, HolesUpTo, Distinct
  <2>8. Sound(r) /\ Free(r) = {}
    <3>1. Len(r.slots) <= fl.cap
      BY <1>1, <2>6
    <3>2. QED
      BY <1>1, <2>1, <2>4, <2>6, <2>7, <3>1, PlainIsSound
  <2>9. ASSUME NEW i \in Entries, IsLast(fl, i), i # REMOVED PROVE FALSE
    <3>1. Len(s) \in 1 .. Len(s) /\ s[Len(s)] = i
      BY <1>1, <2>9 DEF IsLast, Last
    <3>2. QED
      BY <1>1, <1>2, <2>9, <3>1
  <2>10. QED
    BY <2>1, <2>2, <2>5, <2>8, <2>9 DEF r
<1>3. CASE live # {}
  <2>1. top \in 1 .. Len(s) /\ s[top] # REMOVED /\ \A p \in top + 1 .. Len(s) : s[p] = REMOVED
    BY <1>1, <1>3, TopIs
  <2>2. Pop(fl).index = s[top]
    BY <1>3 DEF Pop
  <2> DEFINE at == IF fl.positions = None THEN None
                   ELSE [j \in DOMAIN fl.positions \ {s[top]} |-> fl.positions[j]]
             t == SubSeq(s, 1, top - 1)
  <2>3. /\ DOMAIN r = Fields /\ r.slots = t /\ r.holes = fl.holes - (Len(s) - top)
        /\ r.positions = at /\ r.snapshot = None /\ r.cap = fl.cap
    BY <1>1, <1>3 DEF Pop, Fields
  <2> HIDE DEF r, live, top
  <2>4. /\ t \in Seq(Entries) /\ Len(t) = top - 1 /\ \A p \in 1 .. top - 1 : t[p] = s[p]
        /\ Distinct(t)
        /\ Cardinality(HolesIn(t)) = Cardinality(HolesIn(s)) - (Len(s) - top)
        /\ Range(t) \ {REMOVED} = (Range(s) \ {REMOVED}) \ {s[top]}
    BY <1>1, <2>1, CutIs
  <2> HIDE DEF t
  <2>5. Free(r) = Free(fl) \ {s[top]} /\ s[top] \in Free(fl) /\ s[top] # None
    <3>1. s[top] \in Range(s) /\ s[top] \in 0 .. REMOVED
      <4>1. s[top] \in Range(s) /\ s[top] \in Entries
        BY <1>1, <2>1, Positions
      <4>2. QED
        BY <4>1 DEF Entries
    <3>2. QED
      BY <2>1, <2>3, <2>4, <3>1, FreeListAssumption DEF Free
  <2>6. r.holes = Cardinality(HolesIn(t)) /\ Len(t) <= fl.cap
    BY <1>1, <2>1, <2>3, <2>4
  <2>7. at # None => at \in [Free(r) -> 1 .. Len(t)] /\ \A j \in Free(r) : t[at[j]] = j
    <3> SUFFICES ASSUME fl.positions # None, at # None
                 PROVE  at \in [Free(r) -> 1 .. Len(t)] /\ \A j \in Free(r) : t[at[j]] = j
      OBVIOUS
    <3>1. /\ DOMAIN fl.positions = Free(fl)
          /\ \A j \in Free(fl) : fl.positions[j] \in 1 .. Len(s) /\ s[fl.positions[j]] = j
      BY DEF Sound
    <3>2. at = [j \in Free(r) |-> fl.positions[j]]
      BY <2>5, <3>1
    <3>3. ASSUME NEW j \in Free(r)
          PROVE  fl.positions[j] \in 1 .. Len(t) /\ t[fl.positions[j]] = j
      <4>1. j \in Free(fl) /\ j # s[top] /\ j # REMOVED
        BY <2>5 DEF Free
      <4>2. fl.positions[j] \in 1 .. Len(s) /\ s[fl.positions[j]] = j
        BY <3>1, <4>1
      <4>3. fl.positions[j] \notin top + 1 .. Len(s) /\ fl.positions[j] # top
        BY <2>1, <4>1, <4>2
      <4>4. fl.positions[j] \in 1 .. top - 1
        BY <1>1, <2>1, <4>2, <4>3
      <4>5. QED
        BY <2>4, <4>2, <4>4
    <3> HIDE DEF at
    <3>4. \A j \in Free(r) : at[j] = fl.positions[j]
      BY <3>2
    <3>5. QED
      BY <3>2, <3>3, <3>4
  <2>8. at = None => r.holes = 0
    <3>1. CASE fl.positions = None
      <4>1. fl.holes = 0 /\ Cardinality(HolesIn(s)) = 0
        BY <1>1, <3>1 DEF Sound
      <4>2. Len(t) \in Nat
        BY <2>4
      <4>3. Cardinality(HolesIn(t)) \in Nat
        BY <4>2, HolesFinite
      <4>4. QED
        BY <1>1, <2>1, <2>3, <2>4, <4>1, <4>3
    <3>2. CASE fl.positions # None
      <4>1. at = [j \in DOMAIN fl.positions \ {s[top]} |-> fl.positions[j]]
        BY <3>2
      <4>2. DOMAIN fl.positions = Free(fl) /\ \A j \in Free(fl) : fl.positions[j] \in 1 .. Len(s)
        BY <3>2 DEF Sound
      <4> HIDE DEF at
      <4>3. at \in [Free(fl) \ {s[top]} -> Nat]
        BY <1>1, <4>1, <4>2
      <4>4. Free(fl) \ {s[top]} \in SUBSET (0 .. REMOVED - 1)
        <5>1. Free(fl) \subseteq Entries \ {REMOVED}
          BY <1>1, Positions DEF Free
        <5>2. QED
          BY <5>1, FreeListAssumption DEF Entries
      <4>5. QED
        BY <4>3, <4>4, FreeListAssumption
    <3>3. QED
      BY <3>1, <3>2
  <2> HIDE DEF at
  <2>9. Sound(r)
    BY <1>1, <2>3, <2>4, <2>6, <2>7, <2>8 DEF Sound
  <2>10. ASSUME NEW i \in Entries, IsLast(fl, i), i # REMOVED PROVE i = s[top]
    <3>1. Len(s) \in 1 .. Len(s) /\ s[Len(s)] = i
      BY <1>1, <2>10 DEF IsLast, Last
    <3>2. Len(s) \notin top + 1 .. Len(s)
      BY <2>1, <2>10, <3>1
    <3>3. QED
      BY <1>1, <2>1, <3>1, <3>2
  <2>11. QED
    BY <2>2, <2>3, <2>5, <2>9, <2>10 DEF r
<1>4. QED
  BY <1>2, <1>3

-----------------------------------------------------------------------------
(* contains and remove.                                                    *)

LEMMA WithIndexIs ==
  ASSUME NEW fl, Sound(fl)
  PROVE  /\ Sound(WithIndex(fl)) /\ Free(WithIndex(fl)) = Free(fl)
         /\ WithIndex(fl).slots = fl.slots /\ WithIndex(fl).cap = fl.cap
         /\ WithIndex(fl).positions \in [Free(fl) -> 1 .. Len(fl.slots)]
         /\ \A i \in Free(fl) : fl.slots[WithIndex(fl).positions[i]] = i
<1>1. CASE fl.positions # None
  BY <1>1 DEF WithIndex, Sound
<1>2. CASE fl.positions = None
  <2> DEFINE r == WithIndex(fl)
  <2>1. DOMAIN fl = Fields /\ fl.slots \in Seq(Entries) /\ fl.holes = 0 /\ Len(fl.slots) \in Nat
    BY <1>2 DEF Sound
  <2>2. /\ DOMAIN r = Fields /\ r.slots = fl.slots /\ r.positions = IndexOf(fl.slots)
        /\ r.holes = fl.holes /\ r.snapshot = fl.snapshot /\ r.cap = fl.cap
    BY <1>2, <2>1 DEF WithIndex, Fields
  <2> HIDE DEF r
  <2>3. HolesIn(fl.slots) = {}
    BY <2>1, HolesFinite DEF Sound
  <2>4. Free(fl) = Range(fl.slots) /\ Free(r) = Free(fl)
    <3>1. REMOVED \notin Range(fl.slots)
      BY <2>1, <2>3, Positions DEF HolesIn, HolesUpTo
    <3>2. QED
      BY <2>2, <3>1 DEF Free
  <2>5. /\ r.positions \in [Free(fl) -> 1 .. Len(fl.slots)]
        /\ \A i \in Free(fl) : fl.slots[r.positions[i]] = i
    BY <2>1, <2>2, <2>4, IndexOfIs
  <2>6. Sound(r)
    BY <2>1, <2>2, <2>4, <2>5 DEF Sound
  <2>7. QED
    BY <2>2, <2>4, <2>5, <2>6 DEF r
<1>3. QED
  BY <1>1, <1>2

LEMMA LastIsFree ==
  ASSUME NEW fl, Sound(fl), NEW i \in 0 .. REMOVED - 1, IsLast(fl, i)
  PROVE  i \in Free(fl)
<1>1. fl.slots \in Seq(Entries) /\ fl.slots # << >> /\ fl.slots[Len(fl.slots)] = i
  BY DEF Sound, IsLast, Last
<1>2. Len(fl.slots) \in 1 .. Len(fl.slots)
  BY <1>1
<1>3. i \in Range(fl.slots)
  BY <1>1, <1>2, Positions
<1>4. QED
  BY <1>3, FreeListAssumption DEF Free

LEMMA ContainsIs ==
  ASSUME NEW fl, Sound(fl), NEW i \in 0 .. REMOVED - 1
  PROVE  /\ ContainsIndex(fl, i) <=> i \in Free(fl)
         /\ Sound(AfterContains(fl, i)) /\ Free(AfterContains(fl, i)) = Free(fl)
         /\ AfterContains(fl, i).cap = fl.cap
<1>1. DOMAIN WithIndex(fl).positions = Free(fl)
  BY WithIndexIs
<1>2. ContainsIndex(fl, i) <=> i \in Free(fl)
  BY <1>1, LastIsFree DEF ContainsIndex
<1>3. QED
  BY <1>2, WithIndexIs DEF AfterContains

LEMMA TombstoneIs ==
  ASSUME NEW fl, Sound(fl), fl.positions \in [Free(fl) -> 1 .. Len(fl.slots)],
         \A j \in Free(fl) : fl.slots[fl.positions[j]] = j,
         NEW i \in Free(fl)
  PROVE  /\ Sound(Tombstone(fl, i)) /\ Free(Tombstone(fl, i)) = Free(fl) \ {i}
         /\ Tombstone(fl, i).cap = fl.cap
<1> DEFINE s == fl.slots
           hole == [fl EXCEPT !.slots[fl.positions[i]] = REMOVED,
                              !.positions = [j \in DOMAIN @ \ {i} |-> @[j]],
                              !.holes = @ + 1,
                              !.snapshot = None]
           t == [s EXCEPT ![fl.positions[i]] = REMOVED]
           at == [j \in DOMAIN fl.positions \ {i} |-> fl.positions[j]]
<1>1. PICK p \in 1 .. Len(s) : p = fl.positions[i] /\ s[p] = i
  OBVIOUS
<1>2. /\ s \in Seq(Entries) /\ Len(s) \in Nat /\ DOMAIN s = 1 .. Len(s) /\ DOMAIN fl = Fields
      /\ Distinct(s) /\ fl.cap \in Nat /\ Len(s) <= fl.cap
      /\ Range(s) = {s[q] : q \in 1 .. Len(s)} /\ fl.holes = Cardinality(HolesIn(s))
      /\ i # REMOVED /\ REMOVED \in Entries
  <2>1. REMOVED \in Entries
    BY FreeListAssumption DEF Entries
  <2>2. QED
    BY <2>1, Positions DEF Sound, Free
<1>3. /\ DOMAIN hole = Fields /\ hole.slots = t /\ hole.positions = at
      /\ hole.holes = fl.holes + 1 /\ hole.snapshot = None /\ hole.cap = fl.cap
  BY <1>2 DEF Fields
<1>4. Tombstone(fl, i) = IF hole.holes > Len(hole.slots) \div 2 THEN Compact(hole) ELSE hole
  BY DEF Tombstone
<1> HIDE DEF hole
<1>5. /\ t \in Seq(Entries) /\ Len(t) = Len(s) /\ t[p] = REMOVED
      /\ \A q \in 1 .. Len(s) : q # p => t[q] = s[q]
  BY <1>1, <1>2
<1> HIDE DEF t
<1>6. \A q \in 1 .. Len(s) : q # p => s[q] # i
  BY <1>1, <1>2 DEF Distinct
<1>7. Range(t) = {t[q] : q \in 1 .. Len(s)}
  BY <1>5, Positions
<1>8. Free(hole) = Free(fl) \ {i}
  <2>1. ASSUME NEW x \in Range(t), x # REMOVED PROVE x \in Range(s) /\ x # i
    BY <1>2, <1>5, <1>6, <1>7, <2>1
  <2>2. ASSUME NEW x \in Range(s), x # i PROVE x \in Range(t)
    <3>1. PICK q \in 1 .. Len(s) : x = s[q]
      BY <1>2, <2>2
    <3>2. t[q] = s[q]
      BY <1>1, <1>5, <2>2, <3>1
    <3>3. QED
      BY <1>7, <3>1, <3>2
  <2>3. QED
    BY <1>3, <2>1, <2>2 DEF Free
<1>9. HolesIn(t) = HolesIn(s) \cup {p} /\ p \notin HolesIn(s)
  <2> HIDE DEF s
  <2>1. QED
    BY <1>1, <1>2, <1>5 DEF HolesIn, HolesUpTo
<1>10. hole.holes = Cardinality(HolesIn(t))
  <2>1. IsFiniteSet(HolesIn(s))
    BY <1>2, HolesFinite
  <2>2. QED
    <3>1. Cardinality(HolesIn(s) \cup {p}) = Cardinality(HolesIn(s)) + 1
      BY <1>9, <2>1, OneMore
    <3>2. QED
      BY <1>2, <1>3, <1>9, <3>1
<1>11. Distinct(t)
  BY <1>2, <1>5 DEF Distinct
<1>12. /\ at \in [Free(hole) -> 1 .. Len(t)]
       /\ \A j \in Free(hole) : t[at[j]] = j
  <2>1. at = [j \in Free(hole) |-> fl.positions[j]]
    BY <1>8
  <2>2. ASSUME NEW j \in Free(hole)
        PROVE  fl.positions[j] \in 1 .. Len(t) /\ t[fl.positions[j]] = j
    <3>1. j \in Free(fl) /\ j # i
      BY <1>8
    <3>2. fl.positions[j] \in 1 .. Len(s) /\ s[fl.positions[j]] = j
      BY <3>1
    <3>3. fl.positions[j] # p
      BY <1>1, <3>1, <3>2
    <3>4. QED
      BY <1>5, <3>2, <3>3
  <2> HIDE DEF at
  <2>3. \A j \in Free(hole) : at[j] = fl.positions[j]
    BY <2>1
  <2>4. QED
    BY <2>1, <2>2, <2>3
<1> HIDE DEF at
<1>13. at # None
  <2>1. at \in [Free(hole) -> Nat]
    BY <1>2, <1>5, <1>12
  <2>2. Free(hole) \in SUBSET (0 .. REMOVED - 1)
    <3>1. Free(fl) \subseteq Entries \ {REMOVED}
      BY <1>2, Positions DEF Free
    <3>2. Free(hole) \subseteq Entries \ {REMOVED}
      BY <1>8, <3>1
    <3>3. QED
      BY <3>2, FreeListAssumption DEF Entries
  <2>3. QED
    BY <2>1, <2>2, FreeListAssumption
<1>14. Sound(hole)
  BY <1>2, <1>3, <1>5, <1>10, <1>11, <1>12, <1>13 DEF Sound
<1>15. QED
  BY <1>3, <1>4, <1>8, <1>14, CompactIs

LEMMA RemoveIs ==
  ASSUME NEW fl, Sound(fl), NEW i \in 0 .. REMOVED - 1
  PROVE  /\ RemoveIndex(fl, i).found <=> i \in Free(fl)
         /\ Sound(RemoveIndex(fl, i).list) /\ RemoveIndex(fl, i).list.cap = fl.cap
         /\ Free(RemoveIndex(fl, i).list) = Free(fl) \ {i}
<1>0. i \in Entries /\ i # REMOVED /\ i # None
  BY FreeListAssumption DEF Entries
<1>1. CASE IsLast(fl, i)
  <2>1. Pop(fl).index = i /\ Sound(Pop(fl).list) /\ Pop(fl).list.cap = fl.cap
        /\ Free(Pop(fl).list) = Free(fl) \ {i} /\ i \in Free(fl)
    BY <1>0, <1>1, PopIs
  <2>2. RemoveIndex(fl, i).found = TRUE /\ RemoveIndex(fl, i).list = Pop(fl).list
    BY <1>1 DEF RemoveIndex
  <2>3. QED
    BY <2>1, <2>2
<1>2. CASE ~IsLast(fl, i)
  <2> DEFINE ix == WithIndex(fl)
  <2>1. /\ Sound(ix) /\ Free(ix) = Free(fl) /\ ix.slots = fl.slots /\ ix.cap = fl.cap
        /\ ix.positions \in [Free(fl) -> 1 .. Len(fl.slots)]
        /\ \A j \in Free(fl) : fl.slots[ix.positions[j]] = j
    BY WithIndexIs
  <2>2. RemoveIndex(fl, i) = IF i \in DOMAIN ix.positions
                             THEN [found |-> TRUE, list |-> Tombstone(ix, i)]
                             ELSE [found |-> FALSE, list |-> ix]
    BY <1>2 DEF RemoveIndex
  <2> HIDE DEF ix
  <2>3. CASE i \in Free(fl)
    <3>1. RemoveIndex(fl, i).found = TRUE /\ RemoveIndex(fl, i).list = Tombstone(ix, i)
      BY <2>1, <2>2, <2>3
    <3>2. /\ Sound(Tombstone(ix, i)) /\ Free(Tombstone(ix, i)) = Free(ix) \ {i}
          /\ Tombstone(ix, i).cap = ix.cap
      BY <2>1, <2>3, TombstoneIs
    <3>3. QED
      BY <2>1, <2>3, <3>1, <3>2
  <2>4. CASE i \notin Free(fl)
    <3>1. RemoveIndex(fl, i).found = FALSE /\ RemoveIndex(fl, i).list = ix
      BY <2>1, <2>2, <2>4
    <3>2. QED
      BY <2>1, <2>4, <3>1
  <2>5. QED
    BY <2>3, <2>4
<1>3. QED
  BY <1>1, <1>2

-----------------------------------------------------------------------------
(* A list whose capacity is the number of slots has room for a slot that   *)
(* is not free, after a compaction at least.                               *)
LEMMA RoomForOneMore ==
  ASSUME NEW fl, Sound(fl), NEW n \in Nat, Free(fl) \subseteq 0 .. n - 1, n <= fl.cap,
         NEW i \in 0 .. n - 1, i \notin Free(fl)
  PROVE  Len(fl.slots) < fl.cap \/ fl.holes > 0
<1> DEFINE s == fl.slots
           T == (0 .. n - 1) \ {i}
<1>1. /\ s \in Seq(Entries) /\ Len(s) \in Nat /\ DOMAIN s = 1 .. Len(s) /\ Distinct(s)
      /\ fl.cap \in Nat /\ \A p \in 1 .. Len(s) : s[p] \in Range(s)
      /\ fl.holes = Cardinality(HolesIn(s)) /\ fl.holes \in 0 .. Len(s)
  BY Positions, SoundSuffices DEF Sound
<1>2. SUFFICES ASSUME fl.holes = 0 PROVE Len(s) < fl.cap
  BY <1>1
<1>3. \A p \in 1 .. Len(s) : s[p] # REMOVED
  <2>1. HolesIn(s) = {}
    BY <1>1, <1>2, HolesFinite
  <2>2. QED
    BY <2>1 DEF HolesIn, HolesUpTo
<1>4. \A p \in 1 .. Len(s) : s[p] \in T
  BY <1>1, <1>3 DEF Free
<1>5. \A p, q \in 1 .. Len(s) : s[p] = s[q] => p = q
  BY <1>1, <1>3 DEF Distinct
<1> DEFINE f == [p \in 1 .. Len(s) |-> s[p]]
<1>6. f \in Injection(1 .. Len(s), T)
  <2>1. f \in [1 .. Len(s) -> T]
    BY <1>4
  <2>2. \A p, q \in 1 .. Len(s) : f[p] = f[q] => p = q
    BY <1>5
  <2> HIDE DEF f, T
  <2>3. QED
    BY <2>1, <2>2 DEF Injection, IsInjective
<1>7. IsFiniteSet(T) /\ Cardinality(T) = n - 1
  <2>1. IsFiniteSet(0 .. n - 1) /\ Cardinality(0 .. n - 1) = n
    <3>1. 0 <= n - 1 /\ n - 1 \in Int /\ 0 \in Int
      OBVIOUS
    <3>2. QED
      BY <3>1, FS_Interval
  <2>2. IsFiniteSet((0 .. n - 1) \ {i}) /\ Cardinality((0 .. n - 1) \ {i}) = Cardinality(0 .. n - 1) - 1
    BY <2>1, FS_RemoveElement
  <2>3. QED
    BY <2>1, <2>2
<1>8. Cardinality(1 .. Len(s)) <= Cardinality(T)
  <2> HIDE DEF f, T
  <2>1. QED
    BY <1>6, <1>7, FS_Injection
<1>9. Len(s) <= n - 1
  BY <1>1, <1>7, <1>8, IntervalSize
<1>10. QED
  BY <1>1, <1>9

-----------------------------------------------------------------------------
(* The allocator.                                                          *)

AllocatorFields == {"generations", "free", "next_reserved"}

(* The generation of slot i, materialized or only reserved.                *)
Gen(a, i) == IF i < Slots(a) THEN GenOf(a, i) ELSE 0

AllocOK(a) ==
  /\ DOMAIN a = AllocatorFields
  /\ a.generations \in Seq(0 .. MaxGen)
  /\ a.next_reserved \in 0 .. REMOVED /\ Slots(a) <= a.next_reserved
  /\ Sound(a.free) /\ Free(a.free) \subseteq 0 .. Slots(a) - 1
  /\ Slots(a) <= a.free.cap

-----------------------------------------------------------------------------
(* The inductive invariant, while the index space lasts (IInv) and at its   *)
(* end (EndInv).                                                           *)

(* A handle that was handed out: dealloc can still raise its generation.   *)
IssuedHandles == Indices \X (0 .. MaxGen - 1)

OneEach(es) == \A j, k \in 1 .. Len(es) : es[j][1] = es[k][1] => j = k

(* The handles of a Tx or of the queue are alive, each of a slot of its own. *)
Alive(a, es) ==
  /\ es \in Seq(IssuedHandles) /\ OneEach(es)
  /\ \A k \in 1 .. Len(es) : es[k][1] < a.next_reserved /\ Gen(a, es[k][1]) = es[k][2]

(* No slot has two owners.                                                 *)
Disjoint(a, rows, lost, held, queue) ==
  /\ \A i \in rows : i \notin Free(a.free) /\ i \notin lost
  /\ \A i \in lost : i \notin Free(a.free)
  /\ \A i \in IndicesOf(queue) : i \notin Free(a.free) /\ i \notin rows /\ i \notin lost
  /\ \A t \in Txs : \A i \in IndicesOf(held[t]) :
       /\ i \notin Free(a.free) /\ i \notin rows /\ i \notin lost /\ i \notin IndicesOf(queue)
       /\ \A u \in Txs : i \in IndicesOf(held[u]) => u = t

(* And none has no owner.                                                  *)
Covered(a, rows, lost, held, queue) ==
  \A i \in 0 .. a.next_reserved - 1 :
    \/ i \in Free(a.free) \/ i \in rows \/ i \in lost \/ i \in IndicesOf(queue)
    \/ \E t \in Txs : i \in IndicesOf(held[t])

Owned(a, rows, lost, held, queue) ==
  /\ rows \subseteq 0 .. Slots(a) - 1 /\ lost \subseteq 0 .. Slots(a) - 1
  /\ Alive(a, queue) /\ \A t \in Txs : Alive(a, held[t])
  /\ Disjoint(a, rows, lost, held, queue)
  /\ Covered(a, rows, lost, held, queue)

(* A handle the allocator cannot hand out again.                           *)
Stale(a, e) ==
  /\ e[1] < a.next_reserved /\ e[2] <= Gen(a, e[1])
  /\ e[1] \in Free(a.free) => e[2] < Gen(a, e[1])

(* What recovery starts from: the last checkpoint, or an empty world.      *)
Base(s) == IF s = None THEN EmptyAllocator ELSE Restore(s)
BaseRows(s) == IF s = None THEN {} ELSE s.placed
BaseLost(s) == IF s = None THEN {} ELSE s.unplaced

(* The last of the first n records that names slot i, 0 if none does, and  *)
(* what replay has made of the slot by then.                               *)
TouchesUpTo(recs, n, i) == {0} \cup {k \in 1 .. n : i \in IndicesOf(recs[k].handles)}
Touch(recs, n, i) == Max(TouchesUpTo(recs, n, i))
GenIn(r, i) == r.handles[CHOOSE k \in 1 .. Len(r.handles) : r.handles[k][1] = i][2]

RowAfter(s, recs, n, i) ==
  LET m == Touch(recs, n, i)
  IN  IF m = 0 THEN i \in BaseRows(s) ELSE recs[m].op = "spawn"

GenAfter(s, recs, n, i) ==
  LET m == Touch(recs, n, i)
  IN  IF m = 0 THEN Gen(Base(s), i)
      ELSE IF recs[m].op = "spawn" THEN GenIn(recs[m], i) ELSE GenIn(recs[m], i) + 1

(* A record that replay accepts once it has replayed the ones before it.   *)
Accepted(s, recs, n) ==
  \A j \in 1 .. Len(recs[n].handles) :
    LET e == recs[n].handles[j]
    IN  IF recs[n].op = "spawn"
        THEN ~RowAfter(s, recs, n - 1, e[1]) /\ GenAfter(s, recs, n - 1, e[1]) <= e[2]
        ELSE RowAfter(s, recs, n - 1, e[1]) /\ GenAfter(s, recs, n - 1, e[1]) = e[2]

(* The records replayed so far: all of them while the program runs.        *)
Done == IF replay = None THEN Len(log) ELSE Len(log) - Len(replay)

RecordOK(r) ==
  /\ r \in LogRecords /\ r.handles \in Seq(IssuedHandles) /\ OneEach(r.handles)
  /\ r.op = "despawn" => Len(r.handles) = 1

TypesInv ==
  /\ allocated \in [Txs -> Seq(IssuedHandles)]
  /\ loaded \in [Txs -> Indices \cup {None}]
  /\ dropStage \in [Txs -> {0, 1}]
  /\ has_items \in BOOLEAN /\ rejected \in BOOLEAN
  /\ stage \in CallStages /\ saves \in 0 .. MaxSaves
  /\ issued \cup committed \subseteq IssuedHandles

(* Who may be where: a reservation under way excludes &mut World calls and *)
(* the other way round; recovery is alone with the world.                  *)
StageInv ==
  /\ stage # "idle" \/ ~Running => Slots(al) = al.next_reserved
  /\ stage = "clear" => orphans = <<>>
  /\ ~Running => /\ stage = "idle" /\ orphans = <<>>
                 /\ \A t \in Txs : allocated[t] = <<>> /\ dropStage[t] = 0
  /\ \A t \in Txs : loaded[t] # None => Running /\ stage = "idle"
  /\ orphans # <<>> => has_items \/ \E t \in Txs : dropStage[t] # 0
  /\ rejected => ~Running

SavedInv ==
  /\ saved \in SavedStates \cup {None}
  /\ AllocOK(Base(saved)) /\ Slots(Base(saved)) = Base(saved).next_reserved
  /\ Owned(Base(saved), BaseRows(saved), BaseLost(saved), [t \in Txs |-> <<>>], <<>>)

LogInv ==
  /\ log \in Seq(LogRecords)
  /\ \A n \in 1 .. Len(log) : RecordOK(log[n]) /\ Accepted(saved, log, n)
  /\ ~Running => /\ replay \in Seq(LogRecords) /\ Len(replay) <= Len(log)
                 /\ \A k \in 1 .. Len(replay) : replay[k] = log[Done + k]

(* Every handle is stale by now, or replay has yet to spawn it.            *)
Spawns(n, e) == log[n].op = "spawn" /\ \E j \in 1 .. Len(log[n].handles) : log[n].handles[j] = e

FreshInv ==
  /\ \A e \in committed : Stale(Base(saved), e) \/ \E n \in 1 .. Len(log) : Spawns(n, e)
  /\ ~rejected => \A e \in issued \cup committed :
                    Stale(al, e) \/ \E n \in Done + 1 .. Len(log) : Spawns(n, e)
  /\ Running => \A e \in committed : e[1] < Slots(al)

(* The world is what replay would make of the log, except that slots with  *)
(* no row may have been recycled more often.                               *)
ReplayInv ==
  ~rejected =>
    /\ ~Running => leaked \subseteq BaseLost(saved)
    /\ \A i \in Indices :
         /\ i \in placed <=> RowAfter(saved, log, Done, i)
         /\ GenAfter(saved, log, Done, i) <= Gen(al, i)
         /\ i \in placed \/ ~Running => GenAfter(saved, log, Done, i) = Gen(al, i)

IInv ==
  /\ AllocOK(al) /\ Owned(al, placed, leaked, allocated, orphans)
  /\ TypesInv /\ StageInv /\ SavedInv /\ LogInv /\ FreshInv /\ ReplayInv
  /\ QuiescentReplayAccepted

(* What a crash leaves, and recovery starts from.                          *)
DiskInv ==
  /\ committed \subseteq IssuedHandles /\ saves \in 0 .. MaxSaves /\ rejected = FALSE
  /\ SavedInv /\ LogInv
  /\ \A e \in committed : Stale(Base(saved), e) \/ \E n \in 1 .. Len(log) : Spawns(n, e)

(* alloc has opened slot u32::MAX: next_reserved has wrapped.               *)
EndInv ==
  /\ stage = "ended" /\ Running
  /\ al.generations \in Seq(0 .. MaxGen) /\ Slots(al) = REMOVED + 1
  /\ al.next_reserved = 0 /\ Sound(al.free)
  /\ placed \cup leaked \subseteq Indices /\ issued \subseteq Handles
  /\ allocated \in [Txs -> Seq(Handles)] /\ orphans \in Seq(Handles)
  /\ \A t \in Txs : loaded[t] = None
  /\ dropStage \in [Txs -> {0, 1}] /\ has_items \in BOOLEAN
  /\ orphans # <<>> => has_items \/ \E t \in Txs : dropStage[t] # 0
  /\ DiskInv

-----------------------------------------------------------------------------
(* The recursive functions the operations run through a list with.         *)

LEMMA DeallocsUnfold ==
  ASSUME NEW a, NEW es, Len(es) \in Nat
  PROVE  /\ Deallocs(a, es)[0] = a
         /\ \A n \in 1 .. Len(es) : Deallocs(a, es)[n] = Dealloc(Deallocs(a, es)[n - 1], es[n])
<1> DEFINE StepOf(v, n) == Dealloc(v, es[n])
           Solves(f, k) == f = [n \in 0 .. k |-> IF n = 0 THEN a ELSE StepOf(f[n - 1], n)]
           S == {k \in 0 .. Len(es) : \E f : Solves(f, k)}
<1>0. Deallocs(a, es) = CHOOSE f : f = [n \in 0 .. Len(es) |-> IF n = 0 THEN a ELSE Dealloc(f[n - 1], es[n])]
  BY DEF Deallocs
<1>a. Deallocs(a, es) = CHOOSE f : Solves(f, Len(es))
  BY <1>0
<1> HIDE DEF StepOf
<1>1. 0 \in S
  <2> DEFINE f0 == [n \in 0 .. 0 |-> a]
  <2>1. Solves(f0, 0)
    OBVIOUS
  <2> HIDE DEF f0, Solves
  <2>2. QED
    BY <2>1
<1>2. ASSUME NEW k \in 1 .. Len(es), k - 1 \in S
      PROVE  k \in S
  <2>1. PICK f : Solves(f, k - 1)
    BY <1>2
  <2> DEFINE g == [n \in 0 .. k |-> IF n = k THEN StepOf(f[k - 1], k) ELSE f[n]]
  <2>2. \A n \in 0 .. k - 1 : g[n] = f[n]
    OBVIOUS
  <2>3. \A n \in 0 .. k - 1 : f[n] = IF n = 0 THEN a ELSE StepOf(f[n - 1], n)
    BY <2>1
  <2>4. \A n \in 0 .. k : g[n] = IF n = 0 THEN a ELSE StepOf(g[n - 1], n)
    <3> SUFFICES ASSUME NEW n \in 0 .. k
                 PROVE  g[n] = IF n = 0 THEN a ELSE StepOf(g[n - 1], n)
      OBVIOUS
    <3>1. CASE n = k
      <4>1. g[n] = StepOf(f[n - 1], n) /\ g[n - 1] = f[n - 1] /\ n # 0
        BY <2>2, <3>1
      <4>2. QED
        BY <4>1
    <3>2. CASE n # k
      <4>1. n \in 0 .. k - 1 /\ (n # 0 => n - 1 \in 0 .. k - 1)
        BY <3>2
      <4>2. QED
        BY <4>1, <2>2, <2>3
    <3>3. QED
      BY <3>1, <3>2
  <2>5. g = [n \in 0 .. k |-> g[n]]
    OBVIOUS
  <2> HIDE DEF g
  <2>6. Solves(g, k)
    BY <2>4, <2>5
  <2>7. QED
    BY <2>6
<1> HIDE DEF S
<1>3. Len(es) \in S
  <2>1. \A k \in 1 .. Len(es) : k - 1 \in S => k \in S
    BY <1>2
  <2>2. \A k \in 0 .. Len(es) : k \in S
    BY <1>1, <2>1, UpTo
  <2>3. QED
    BY <2>2
<1>4. \E f : Solves(f, Len(es))
  BY <1>3 DEF S
<1> DEFINE g == Deallocs(a, es)
<1>5. Solves(g, Len(es))
  BY <1>a, <1>4
<1> HIDE DEF g
<1>6. g[0] = a /\ \A n \in 1 .. Len(es) : g[n] = StepOf(g[n - 1], n)
  BY <1>5
<1>7. QED
  BY <1>6 DEF g, StepOf

LEMMA PushesUnfold ==
  ASSUME NEW fl, NEW first \in Nat, NEW count \in Nat
  PROVE  /\ Pushes(fl, first, count)[0] = fl
         /\ \A n \in 1 .. count : Pushes(fl, first, count)[n] = Push(Pushes(fl, first, count)[n - 1], first + n - 1)
<1> DEFINE StepOf(v, n) == Push(v, first + n - 1)
           Solves(f, k) == f = [n \in 0 .. k |-> IF n = 0 THEN fl ELSE StepOf(f[n - 1], n)]
           S == {k \in 0 .. count : \E f : Solves(f, k)}
<1>0. Pushes(fl, first, count) = CHOOSE f : f = [n \in 0 .. count |-> IF n = 0 THEN fl ELSE Push(f[n - 1], first + n - 1)]
  BY DEF Pushes
<1>a. Pushes(fl, first, count) = CHOOSE f : Solves(f, count)
  BY <1>0
<1> HIDE DEF StepOf
<1>1. 0 \in S
  <2> DEFINE f0 == [n \in 0 .. 0 |-> fl]
  <2>1. Solves(f0, 0)
    OBVIOUS
  <2> HIDE DEF f0, Solves
  <2>2. QED
    BY <2>1
<1>2. ASSUME NEW k \in 1 .. count, k - 1 \in S
      PROVE  k \in S
  <2>1. PICK f : Solves(f, k - 1)
    BY <1>2
  <2> DEFINE g == [n \in 0 .. k |-> IF n = k THEN StepOf(f[k - 1], k) ELSE f[n]]
  <2>2. \A n \in 0 .. k - 1 : g[n] = f[n]
    OBVIOUS
  <2>3. \A n \in 0 .. k - 1 : f[n] = IF n = 0 THEN fl ELSE StepOf(f[n - 1], n)
    BY <2>1
  <2>4. \A n \in 0 .. k : g[n] = IF n = 0 THEN fl ELSE StepOf(g[n - 1], n)
    <3> SUFFICES ASSUME NEW n \in 0 .. k
                 PROVE  g[n] = IF n = 0 THEN fl ELSE StepOf(g[n - 1], n)
      OBVIOUS
    <3>1. CASE n = k
      <4>1. g[n] = StepOf(f[n - 1], n) /\ g[n - 1] = f[n - 1] /\ n # 0
        BY <2>2, <3>1
      <4>2. QED
        BY <4>1
    <3>2. CASE n # k
      <4>1. n \in 0 .. k - 1 /\ (n # 0 => n - 1 \in 0 .. k - 1)
        BY <3>2
      <4>2. QED
        BY <4>1, <2>2, <2>3
    <3>3. QED
      BY <3>1, <3>2
  <2>5. g = [n \in 0 .. k |-> g[n]]
    OBVIOUS
  <2> HIDE DEF g
  <2>6. Solves(g, k)
    BY <2>4, <2>5
  <2>7. QED
    BY <2>6
<1> HIDE DEF S
<1>3. count \in S
  <2>1. \A k \in 1 .. count : k - 1 \in S => k \in S
    BY <1>2
  <2>2. \A k \in 0 .. count : k \in S
    BY <1>1, <2>1, UpTo
  <2>3. QED
    BY <2>2
<1>4. \E f : Solves(f, count)
  BY <1>3 DEF S
<1> DEFINE g == Pushes(fl, first, count)
<1>5. Solves(g, count)
  BY <1>a, <1>4
<1> HIDE DEF g
<1>6. g[0] = fl /\ \A n \in 1 .. count : g[n] = StepOf(g[n - 1], n)
  BY <1>5
<1>7. QED
  BY <1>6 DEF g, StepOf

LEMMA AdoptsUnfold ==
  ASSUME NEW w, NEW es, Len(es) \in Nat
  PROVE  /\ Adopts(w, es)[0] = w
         /\ \A n \in 1 .. Len(es) : Adopts(w, es)[n] = AdoptOne(Adopts(w, es)[n - 1], es[n])
<1> DEFINE StepOf(v, n) == AdoptOne(v, es[n])
           Solves(f, k) == f = [n \in 0 .. k |-> IF n = 0 THEN w ELSE StepOf(f[n - 1], n)]
           S == {k \in 0 .. Len(es) : \E f : Solves(f, k)}
<1>0. Adopts(w, es) = CHOOSE f : f = [n \in 0 .. Len(es) |-> IF n = 0 THEN w ELSE AdoptOne(f[n - 1], es[n])]
  BY DEF Adopts
<1>a. Adopts(w, es) = CHOOSE f : Solves(f, Len(es))
  BY <1>0
<1> HIDE DEF StepOf
<1>1. 0 \in S
  <2> DEFINE f0 == [n \in 0 .. 0 |-> w]
  <2>1. Solves(f0, 0)
    OBVIOUS
  <2> HIDE DEF f0, Solves
  <2>2. QED
    BY <2>1
<1>2. ASSUME NEW k \in 1 .. Len(es), k - 1 \in S
      PROVE  k \in S
  <2>1. PICK f : Solves(f, k - 1)
    BY <1>2
  <2> DEFINE g == [n \in 0 .. k |-> IF n = k THEN StepOf(f[k - 1], k) ELSE f[n]]
  <2>2. \A n \in 0 .. k - 1 : g[n] = f[n]
    OBVIOUS
  <2>3. \A n \in 0 .. k - 1 : f[n] = IF n = 0 THEN w ELSE StepOf(f[n - 1], n)
    BY <2>1
  <2>4. \A n \in 0 .. k : g[n] = IF n = 0 THEN w ELSE StepOf(g[n - 1], n)
    <3> SUFFICES ASSUME NEW n \in 0 .. k
                 PROVE  g[n] = IF n = 0 THEN w ELSE StepOf(g[n - 1], n)
      OBVIOUS
    <3>1. CASE n = k
      <4>1. g[n] = StepOf(f[n - 1], n) /\ g[n - 1] = f[n - 1] /\ n # 0
        BY <2>2, <3>1
      <4>2. QED
        BY <4>1
    <3>2. CASE n # k
      <4>1. n \in 0 .. k - 1 /\ (n # 0 => n - 1 \in 0 .. k - 1)
        BY <3>2
      <4>2. QED
        BY <4>1, <2>2, <2>3
    <3>3. QED
      BY <3>1, <3>2
  <2>5. g = [n \in 0 .. k |-> g[n]]
    OBVIOUS
  <2> HIDE DEF g
  <2>6. Solves(g, k)
    BY <2>4, <2>5
  <2>7. QED
    BY <2>6
<1> HIDE DEF S
<1>3. Len(es) \in S
  <2>1. \A k \in 1 .. Len(es) : k - 1 \in S => k \in S
    BY <1>2
  <2>2. \A k \in 0 .. Len(es) : k \in S
    BY <1>1, <2>1, UpTo
  <2>3. QED
    BY <2>2
<1>4. \E f : Solves(f, Len(es))
  BY <1>3 DEF S
<1> DEFINE g == Adopts(w, es)
<1>5. Solves(g, Len(es))
  BY <1>a, <1>4
<1> HIDE DEF g
<1>6. g[0] = w /\ \A n \in 1 .. Len(es) : g[n] = StepOf(g[n - 1], n)
  BY <1>5
<1>7. QED
  BY <1>6 DEF g, StepOf

-----------------------------------------------------------------------------
(* The operations of the allocator.                                        *)

LEMMA ElementIs ==
  ASSUME NEW X, NEW s \in Seq(X), NEW p \in 1 .. Len(s)
  PROVE  s[p] \in X
  OBVIOUS

LEMMA AllocFacts ==
  ASSUME NEW a, AllocOK(a)
  PROVE  /\ Slots(a) \in Nat /\ Slots(a) <= REMOVED /\ REMOVED \in Nat /\ a.next_reserved \in Nat
         /\ a.free.cap \in Nat /\ MaxGen \in Nat
         /\ \A i \in 0 .. Slots(a) - 1 : GenOf(a, i) \in 0 .. MaxGen /\ Gen(a, i) = GenOf(a, i)
         /\ \A i \in Nat : Gen(a, i) \in 0 .. MaxGen
         /\ Free(a.free) \subseteq 0 .. REMOVED - 1
<1>1. /\ Slots(a) \in Nat /\ REMOVED \in Nat /\ a.next_reserved \in Nat /\ Slots(a) <= REMOVED
      /\ MaxGen \in Nat
  BY FreeListAssumption, EntityAllocatorAssumption DEF AllocOK, Slots
<1>2. \A i \in 0 .. Slots(a) - 1 : GenOf(a, i) \in 0 .. MaxGen /\ Gen(a, i) = GenOf(a, i)
  <2> SUFFICES ASSUME NEW i \in 0 .. Slots(a) - 1
               PROVE  GenOf(a, i) \in 0 .. MaxGen /\ Gen(a, i) = GenOf(a, i)
    OBVIOUS
  <2>1. i + 1 \in 1 .. Len(a.generations) /\ i < Slots(a)
    BY <1>1 DEF Slots
  <2>2. a.generations \in Seq(0 .. MaxGen)
    BY DEF AllocOK
  <2>3. a.generations[i + 1] \in 0 .. MaxGen
    BY <2>1, <2>2, ElementIs
  <2>4. QED
    BY <2>1, <2>3 DEF GenOf, Gen
<1>3. ASSUME NEW i \in Nat PROVE Gen(a, i) \in 0 .. MaxGen
  <2>1. CASE i < Slots(a)
    <3>1. i \in 0 .. Slots(a) - 1
      BY <1>1, <2>1
    <3>2. QED
      BY <1>2, <3>1
  <2>2. QED
    BY <1>1, <2>1 DEF Gen
<1>4. a.free.cap \in Nat
  BY DEF AllocOK, Sound
<1>5. Free(a.free) \subseteq 0 .. REMOVED - 1
  BY <1>1 DEF AllocOK
<1>6. QED
  BY <1>1, <1>2, <1>3, <1>4, <1>5

LEMMA ResizedIs ==
  ASSUME NEW g \in Seq(0 .. MaxGen), NEW n \in Nat, Len(g) <= n
  PROVE  /\ Resized(g, n) \in Seq(0 .. MaxGen) /\ Len(Resized(g, n)) = n /\ Len(g) \in Nat
         /\ \A p \in 1 .. Len(g) : Resized(g, n)[p] = g[p]
         /\ \A p \in 1 .. n : Len(g) < p => Resized(g, n)[p] = 0
<1>1. Len(g) \in Nat /\ MaxGen \in Nat /\ \A p \in 1 .. Len(g) : g[p] \in 0 .. MaxGen
  BY EntityAllocatorAssumption
<1>2. \A p \in 1 .. n : (IF p <= Len(g) THEN g[p] ELSE 0) \in 0 .. MaxGen
  BY <1>1
<1>3. Resized(g, n) = [p \in 1 .. n |-> IF p <= Len(g) THEN g[p] ELSE 0]
  BY DEF Resized
<1>4. Resized(g, n) \in Seq(0 .. MaxGen) /\ Len(Resized(g, n)) = n
  BY <1>2, <1>3
<1>5. QED
  BY <1>1, <1>3, <1>4

LEMMA MaterializeIs ==
  ASSUME NEW a, AllocOK(a)
  PROVE  LET m == Materialize(a)
         IN  /\ AllocOK(m) /\ Slots(m) = a.next_reserved /\ m.next_reserved = a.next_reserved
             /\ Free(m.free) = Free(a.free)
             /\ \A i \in Nat : Gen(m, i) = Gen(a, i)
             /\ Slots(a) = a.next_reserved => m = a
<1> DEFINE m == Materialize(a)
           n == a.next_reserved
<1>1. /\ Slots(a) \in Nat /\ n \in Nat /\ n <= REMOVED /\ REMOVED \in Nat /\ Slots(a) <= n
  BY AllocFacts DEF AllocOK
<1>2. CASE ~(Slots(a) < n)
  <2>1. m = a /\ Slots(a) = n
    BY <1>1, <1>2 DEF Materialize
  <2>2. QED
    BY <2>1
<1>3. CASE Slots(a) < n
  <2>1. DOMAIN a = AllocatorFields /\ a.generations \in Seq(0 .. MaxGen) /\ Sound(a.free)
    BY DEF AllocOK
  <2>2. /\ DOMAIN m = AllocatorFields /\ m.generations = Resized(a.generations, n)
        /\ m.free = ReserveTotal(a.free, n) /\ m.next_reserved = n
    BY <1>3, <2>1 DEF Materialize, AllocatorFields
  <2> HIDE DEF m
  <2>3. /\ m.generations \in Seq(0 .. MaxGen) /\ Len(m.generations) = n
        /\ \A p \in 1 .. Len(a.generations) : m.generations[p] = a.generations[p]
        /\ \A p \in 1 .. n : Len(a.generations) < p => m.generations[p] = 0
    <3>1. Len(a.generations) <= n
      BY <1>1 DEF Slots
    <3> DEFINE g == Resized(a.generations, n)
    <3>2. /\ g \in Seq(0 .. MaxGen) /\ Len(g) = n
          /\ \A p \in 1 .. Len(a.generations) : g[p] = a.generations[p]
          /\ \A p \in 1 .. n : Len(a.generations) < p => g[p] = 0
      BY <1>1, <2>1, <3>1, ResizedIs
    <3>3. m.generations = g
      BY <2>2
    <3> HIDE DEF g
    <3>4. QED
      BY <3>2, <3>3
  <2>4. Sound(m.free) /\ Free(m.free) = Free(a.free) /\ n <= m.free.cap
    BY <1>1, <2>1, <2>2, ReserveIs
  <2>5. Slots(m) = n
    BY <2>3 DEF Slots
  <2>6. Free(m.free) \subseteq 0 .. Slots(m) - 1
    <3>1. Free(a.free) \subseteq 0 .. Slots(a) - 1
      BY DEF AllocOK
    <3>2. QED
      BY <1>1, <2>4, <2>5, <3>1
  <2>7. AllocOK(m)
    BY <1>1, <2>2, <2>3, <2>4, <2>5, <2>6 DEF AllocOK
  <2>8. ASSUME NEW i \in Nat PROVE Gen(m, i) = Gen(a, i)
    <3>1. CASE i < Slots(a)
      <4>1. i + 1 \in 1 .. Len(a.generations) /\ i < n
        BY <1>1, <3>1 DEF Slots
      <4>2. QED
        BY <2>3, <2>5, <3>1, <4>1 DEF Gen, GenOf
    <3>2. CASE ~(i < Slots(a)) /\ i < n
      <4>1. i + 1 \in 1 .. n /\ Len(a.generations) < i + 1
        BY <1>1, <3>2 DEF Slots
      <4>2. QED
        BY <2>3, <2>5, <3>2, <4>1 DEF Gen, GenOf
    <3>3. CASE ~(i < Slots(a)) /\ ~(i < n)
      BY <2>5, <3>3 DEF Gen
    <3>4. QED
      BY <3>1, <3>2, <3>3
  <2>9. Slots(a) # n
    BY <1>1, <1>3
  <2>10. QED
    BY <2>2, <2>4, <2>5, <2>7, <2>8, <2>9 DEF m
<1>4. QED
  BY <1>2, <1>3

LEMMA DeallocIs ==
  ASSUME NEW a, AllocOK(a), NEW e, IsAlive(a, e), e[1] \in Nat, e[1] \notin Free(a.free),
         e[2] \in 0 .. MaxGen - 1
  PROVE  LET d == Dealloc(a, e)
         IN  /\ AllocOK(d) /\ Slots(d) = Slots(a) /\ d.next_reserved = a.next_reserved
             /\ Free(d.free) = Free(a.free) \cup {e[1]} /\ d.free.cap = a.free.cap
             /\ Gen(d, e[1]) = e[2] + 1
             /\ \A i \in Nat : i # e[1] => Gen(d, i) = Gen(a, i)
<1> DEFINE d == Dealloc(a, e)
<1>1. /\ Slots(a) \in Nat /\ a.next_reserved \in Nat /\ Slots(a) <= REMOVED /\ REMOVED \in Nat
      /\ MaxGen \in Nat /\ a.free.cap \in Nat
  BY AllocFacts
<1>2. /\ DOMAIN a = AllocatorFields /\ a.generations \in Seq(0 .. MaxGen) /\ Sound(a.free)
      /\ Free(a.free) \subseteq 0 .. Slots(a) - 1 /\ Slots(a) <= a.free.cap
  BY DEF AllocOK
<1>3. e[1] \in 0 .. Slots(a) - 1 /\ a.generations[e[1] + 1] = e[2] /\ e[1] \in 0 .. REMOVED - 1
      /\ e[1] + 1 \in 1 .. Len(a.generations)
  BY <1>1 DEF IsAlive, GenOf, Slots
<1>4. /\ DOMAIN d = AllocatorFields
      /\ d.generations = [a.generations EXCEPT ![e[1] + 1] = a.generations[e[1] + 1] + 1]
      /\ d.free = Push(a.free, e[1]) /\ d.next_reserved = a.next_reserved
  BY <1>2 DEF Dealloc, AllocatorFields
<1> HIDE DEF d
<1>5. /\ d.generations \in Seq(0 .. MaxGen) /\ Len(d.generations) = Len(a.generations)
      /\ d.generations[e[1] + 1] = e[2] + 1
      /\ \A p \in 1 .. Len(a.generations) : p # e[1] + 1 => d.generations[p] = a.generations[p]
  <2>1. a.generations[e[1] + 1] + 1 \in 0 .. MaxGen /\ a.generations[e[1] + 1] + 1 = e[2] + 1
    <3>1. e[2] + 1 \in 0 .. MaxGen
      BY <1>1
    <3>2. QED
      BY <1>3, <3>1
  <2>2. QED
    BY <1>2, <1>3, <1>4, <2>1
<1>6. Len(a.free.slots) < a.free.cap \/ a.free.holes > 0
  BY <1>1, <1>2, <1>3, RoomForOneMore
<1>7. /\ Sound(d.free) /\ Free(d.free) = Free(a.free) \cup {e[1]} /\ d.free.cap = a.free.cap
  BY <1>2, <1>3, <1>4, <1>6, PushIs
<1>8. Slots(d) = Slots(a)
  BY <1>5 DEF Slots
<1>9. AllocOK(d)
  <2>1. Free(d.free) \subseteq 0 .. Slots(d) - 1
    BY <1>2, <1>3, <1>7, <1>8
  <2>2. QED
    BY <1>2, <1>4, <1>5, <1>7, <1>8, <2>1 DEF AllocOK
<1>10. Gen(d, e[1]) = e[2] + 1
  BY <1>1, <1>3, <1>5, <1>8 DEF Gen, GenOf
<1>11. ASSUME NEW i \in Nat, i # e[1] PROVE Gen(d, i) = Gen(a, i)
  <2>1. CASE i < Slots(a)
    <3>1. i + 1 \in 1 .. Len(a.generations) /\ i + 1 # e[1] + 1
      <4>1. Len(a.generations) = Slots(a) /\ e[1] \in Nat
        BY DEF Slots
      <4>2. QED
        BY <1>1, <1>11, <2>1, <4>1
    <3>2. QED
      BY <1>5, <1>8, <2>1, <3>1 DEF Gen, GenOf
  <2>2. QED
    BY <1>8, <2>1 DEF Gen
<1>12. QED
  BY <1>4, <1>7, <1>8, <1>9, <1>10, <1>11 DEF d

(* The u32 wraps behind the last index only.                                *)
LEMMA NextIndexIs ==
  ASSUME NEW i \in 0 .. REMOVED
  PROVE  /\ i < REMOVED => NextIndex(i) = i + 1
         /\ i = REMOVED => NextIndex(i) = 0
<1>1. REMOVED \in Nat
  BY FreeListAssumption
<1>2. ASSUME NEW k \in Nat, NEW m \in Nat, k < m PROVE k % m = k
  BY <1>2
<1>3. ASSUME NEW m \in Nat, 0 < m PROVE m % m = 0
  BY <1>3
<1>4. QED
  BY <1>1, <1>2, <1>3 DEF NextIndex

LEMMA AllocIs ==
  ASSUME NEW a, AllocOK(a), Slots(a) = a.next_reserved, Alloc(a).handle[1] < REMOVED
  PROVE  LET r == Alloc(a)
             i == r.handle[1]
         IN  /\ AllocOK(r.al) /\ Slots(r.al) = r.al.next_reserved
             /\ r.handle = <<i, Gen(a, i)>> /\ i \in Nat
             /\ Free(r.al.free) = Free(a.free) \ {i}
             /\ \A j \in Nat : Gen(r.al, j) = Gen(a, j)
             /\ \/ i \in Free(a.free) /\ r.al.next_reserved = a.next_reserved
                \/ i = a.next_reserved /\ r.al.next_reserved = i + 1
<1> DEFINE r == Alloc(a)
           popped == Pop(a.free)
           n == Slots(a)
<1>1. Materialize(a) = a
  BY MaterializeIs
<1>2. /\ n \in Nat /\ n <= REMOVED /\ REMOVED \in Nat /\ MaxGen \in Nat
      /\ DOMAIN a = AllocatorFields /\ a.generations \in Seq(0 .. MaxGen) /\ Sound(a.free)
      /\ Free(a.free) \subseteq 0 .. n - 1 /\ n <= a.free.cap /\ a.free.cap \in Nat
  BY AllocFacts DEF AllocOK
<1>3. /\ Sound(popped.list) /\ popped.list.cap = a.free.cap
      /\ popped.index = None => Free(a.free) = {} /\ Free(popped.list) = {}
      /\ popped.index # None => /\ popped.index \in Free(a.free)
                                /\ Free(popped.list) = Free(a.free) \ {popped.index}
  BY <1>2, PopIs
<1>4. r = IF popped.index # None
          THEN [handle |-> <<popped.index, GenOf(a, popped.index)>>,
                al |-> [a EXCEPT !.free = popped.list]]
          ELSE [handle |-> <<n, 0>>,
                al |-> [generations |-> Append(a.generations, 0),
                        free |-> ReserveTotal(popped.list, n + 1),
                        next_reserved |-> NextIndex(n)]]
  BY <1>1 DEF Alloc
<1> HIDE DEF popped
<1>5. CASE popped.index # None
  <2>1. /\ r.handle = <<popped.index, GenOf(a, popped.index)>>
        /\ r.al = [a EXCEPT !.free = popped.list]
    BY <1>4, <1>5
  <2> HIDE DEF r
  <2>2. /\ DOMAIN r.al = AllocatorFields /\ r.al.generations = a.generations
        /\ r.al.free = popped.list /\ r.al.next_reserved = a.next_reserved
    BY <1>2, <2>1 DEF AllocatorFields
  <2>3. Slots(r.al) = n /\ \A j \in Nat : Gen(r.al, j) = Gen(a, j)
    BY <2>2 DEF Slots, Gen, GenOf
  <2>4. AllocOK(r.al)
    BY <1>2, <1>3, <1>5, <2>2, <2>3 DEF AllocOK
  <2>5. r.handle[1] = popped.index /\ popped.index \in 0 .. n - 1
    BY <1>2, <1>3, <1>5, <2>1
  <2>6. Gen(a, popped.index) = GenOf(a, popped.index)
    BY <2>5, AllocFacts
  <2>7. QED
    BY <1>3, <1>5, <2>1, <2>2, <2>3, <2>4, <2>5, <2>6 DEF r
<1>6. CASE popped.index = None
  <2>1. /\ r.handle = <<n, 0>>
        /\ r.al = [generations |-> Append(a.generations, 0),
                   free |-> ReserveTotal(popped.list, n + 1),
                   next_reserved |-> NextIndex(n)]
    BY <1>4, <1>6
  <2>a. r.handle[1] < REMOVED
    OBVIOUS
  <2>b. NextIndex(n) = n + 1
    BY <1>2, <2>1, <2>a, NextIndexIs
  <2> HIDE DEF r
  <2>2. /\ DOMAIN r.al = AllocatorFields /\ r.al.generations = Append(a.generations, 0)
        /\ r.al.free = ReserveTotal(popped.list, n + 1) /\ r.al.next_reserved = n + 1
    BY <2>1, <2>b DEF AllocatorFields
  <2>3. r.handle[1] = n /\ n < REMOVED /\ n + 1 \in 0 .. REMOVED
    BY <1>2, <2>1, <2>a
  <2>4. 0 \in 0 .. MaxGen /\ n + 1 \in Nat
    BY <1>2
  <2>5. /\ r.al.generations \in Seq(0 .. MaxGen) /\ Len(r.al.generations) = n + 1
        /\ \A p \in 1 .. n : r.al.generations[p] = a.generations[p]
        /\ r.al.generations[n + 1] = 0
    BY <1>2, <2>2, <2>4, AppendIs DEF Slots
  <2>6. Sound(r.al.free) /\ Free(r.al.free) = {} /\ n + 1 <= r.al.free.cap
    BY <1>3, <1>6, <2>2, <2>4, ReserveIs
  <2>7. Slots(r.al) = n + 1
    BY <2>5 DEF Slots
  <2>8. AllocOK(r.al)
    BY <2>2, <2>3, <2>4, <2>5, <2>6, <2>7 DEF AllocOK
  <2>9. ASSUME NEW j \in Nat PROVE Gen(r.al, j) = Gen(a, j)
    <3>1. CASE j < n
      <4>1. j + 1 \in 1 .. n /\ j < n + 1
        BY <1>2, <3>1
      <4>2. QED
        BY <2>5, <2>7, <3>1, <4>1 DEF Gen, GenOf
    <3>2. CASE j = n
      BY <1>2, <2>5, <2>7, <3>2 DEF Gen, GenOf
    <3>3. CASE ~(j < n) /\ j # n
      BY <1>2, <2>7, <3>3 DEF Gen
    <3>4. QED
      BY <3>1, <3>2, <3>3
  <2>10. Gen(a, n) = 0
    BY <1>2 DEF Gen
  <2>11. QED
    BY <1>2, <1>3, <1>6, <2>1, <2>2, <2>3, <2>6, <2>7, <2>8, <2>9, <2>10 DEF r
<1>7. QED
  BY <1>5, <1>6

(* What alloc hands out, the tombstone included.                            *)
LEMMA AllocHandle ==
  ASSUME NEW a, AllocOK(a), Slots(a) = a.next_reserved
  PROVE  Alloc(a).handle \in (0 .. REMOVED) \X (0 .. MaxGen)
<1> DEFINE popped == Pop(a.free)
<1>1. Materialize(a) = a
  BY MaterializeIs
<1>2. /\ Slots(a) \in 0 .. REMOVED /\ REMOVED \in Nat /\ MaxGen \in Nat /\ Sound(a.free)
      /\ Free(a.free) \subseteq 0 .. Slots(a) - 1
      /\ \A i \in 0 .. Slots(a) - 1 : GenOf(a, i) \in 0 .. MaxGen
  BY AllocFacts DEF AllocOK
<1>3. popped.index # None => popped.index \in 0 .. Slots(a) - 1
  BY <1>2, PopIs
<1>4. Alloc(a).handle = IF popped.index # None THEN <<popped.index, GenOf(a, popped.index)>>
                        ELSE <<Slots(a), 0>>
  BY <1>1 DEF Alloc
<1> HIDE DEF popped
<1>5. CASE popped.index # None
  <2>1. popped.index \in 0 .. REMOVED /\ GenOf(a, popped.index) \in 0 .. MaxGen
    BY <1>2, <1>3, <1>5
  <2>2. QED
    BY <1>4, <1>5, <2>1
<1>6. CASE popped.index = None
  BY <1>2, <1>4, <1>6
<1>7. QED
  BY <1>5, <1>6

LEMMA PushesIs ==
  ASSUME NEW fl, Sound(fl), NEW first \in Nat, NEW count \in Nat, first + count <= REMOVED,
         Free(fl) \subseteq 0 .. first - 1
  PROVE  LET r == Pushes(fl, first, count)[count]
         IN  /\ Sound(r) /\ Free(r) = Free(fl) \cup (first .. first + count - 1)
             /\ fl.cap <= r.cap
<1> DEFINE P == Pushes(fl, first, count)
           Good(n) == /\ Sound(P[n]) /\ Free(P[n]) = Free(fl) \cup (first .. first + n - 1)
                      /\ fl.cap <= P[n].cap
           S == {n \in 0 .. count : Good(n)}
<1>1. /\ P[0] = fl
      /\ \A n \in 1 .. count : P[n] = Push(P[n - 1], first + n - 1)
  BY PushesUnfold
<1> HIDE DEF P
<1>2. 0 \in S
  <2>1. first .. first + 0 - 1 = {} /\ fl.cap \in Nat
    BY DEF Sound
  <2>2. QED
    BY <1>1, <2>1
<1>3. ASSUME NEW n \in 1 .. count, n - 1 \in S PROVE n \in S
  <2> DEFINE q == P[n - 1]
             i == first + n - 1
  <2>1. /\ Sound(q) /\ Free(q) = Free(fl) \cup (first .. first + (n - 1) - 1) /\ fl.cap <= q.cap
    BY <1>3
  <2>2. P[n] = Push(q, i)
    BY <1>1
  <2> HIDE DEF q
  <2>3. i \in 0 .. REMOVED - 1 /\ i \notin Free(q)
    BY <2>1, FreeListAssumption
  <2> HIDE DEF i
  <2>4. Sound(P[n]) /\ Free(P[n]) = Free(q) \cup {i} /\ q.cap <= P[n].cap
    BY <2>1, <2>2, <2>3, PushIs
  <2>5. (first .. first + (n - 1) - 1) \cup {i} = first .. first + n - 1
    BY DEF i
  <2>6. fl.cap \in Nat /\ q.cap \in Nat /\ P[n].cap \in Nat
    BY <2>1, <2>4 DEF Sound
  <2>7. Good(n)
    BY <2>1, <2>4, <2>5, <2>6
  <2>8. QED
    BY <2>7
<1>4. count \in S
  <2> HIDE DEF S
  <2>1. \A n \in 1 .. count : n - 1 \in S => n \in S
    BY <1>3
  <2>2. \A n \in 0 .. count : n \in S
    BY <1>2, <2>1, UpTo
  <2>3. QED
    BY <2>2
<1>5. QED
  BY <1>4 DEF P

LEMMA RestoreIs ==
  ASSUME NEW s, s.generations \in Seq(0 .. MaxGen), Len(s.generations) <= REMOVED,
         s.free \in Seq(Entries), HolesIn(s.free) = {}, Distinct(s.free),
         Range(s.free) \subseteq 0 .. Len(s.generations) - 1
  PROVE  LET r == Restore(s)
         IN  /\ AllocOK(r) /\ Slots(r) = Len(s.generations) /\ r.next_reserved = Slots(r)
             /\ r.generations = s.generations /\ Free(r.free) = Range(s.free)
<1> DEFINE r == Restore(s)
           n == Len(s.generations)
           list == Assign(ReserveTotal(EmptyFreeList, n), s.free)
           a == [generations |-> s.generations, free |-> list, next_reserved |-> 0]
<1>1. n \in Nat /\ REMOVED \in Nat
  BY FreeListAssumption
<1>2. r = [a EXCEPT !.next_reserved = IF a.next_reserved < Slots(a) THEN Slots(a) ELSE a.next_reserved]
  BY DEF Restore, SyncReserved
<1>3. /\ a.generations = s.generations /\ a.free = list /\ a.next_reserved = 0
      /\ DOMAIN a = AllocatorFields
  BY DEF AllocatorFields
<1>4. Slots(a) = n
  BY <1>3 DEF Slots
<1> HIDE DEF a, list
<1>5. /\ DOMAIN r = AllocatorFields /\ r.generations = s.generations /\ r.free = list
      /\ r.next_reserved = IF 0 < n THEN n ELSE 0
  BY <1>2, <1>3, <1>4 DEF AllocatorFields
<1> HIDE DEF r, n
<1>6. r.next_reserved = n
  BY <1>1, <1>5
<1>7. Slots(r) = n
  BY <1>5 DEF Slots, n
<1>8. Sound(list) /\ Free(list) = Range(s.free) /\ n <= list.cap
  <2> DEFINE e == ReserveTotal(EmptyFreeList, n)
  <2>1. Sound(e) /\ n <= e.cap
    BY <1>1, EmptyIs, ReserveIs
  <2>2. list = Assign(e, s.free)
    BY DEF list
  <2> HIDE DEF e
  <2>3. Sound(list) /\ Free(list) = Range(s.free) /\ e.cap <= list.cap
    BY <2>1, <2>2, AssignIs
  <2>4. e.cap \in Nat /\ list.cap \in Nat
    BY <2>1, <2>3 DEF Sound
  <2>5. QED
    BY <1>1, <2>1, <2>3, <2>4
<1>9. n <= REMOVED /\ Range(s.free) \subseteq 0 .. n - 1
  BY DEF n
<1>10. AllocOK(r)
  BY <1>1, <1>5, <1>6, <1>7, <1>8, <1>9 DEF AllocOK
<1>11. QED
  BY <1>5, <1>6, <1>7, <1>8, <1>10 DEF r, n

(* adopt, into an allocator whose reserved slots are materialized.         *)
LEMMA AdoptExistingIs ==
  ASSUME NEW a, AllocOK(a), NEW e, e[1] \in 0 .. Slots(a) - 1, e[2] \in 0 .. MaxGen
  PROVE  LET r == AdoptExisting(a, e)
         IN  /\ r.ok \in BOOLEAN
             /\ AllocOK(r.al) /\ Slots(r.al) = Slots(a) /\ r.al.next_reserved = a.next_reserved
             /\ r.ok <=> Gen(a, e[1]) <= e[2] /\ (e[1] \in Free(a.free) \/ Gen(a, e[1]) = e[2])
             /\ r.ok => Gen(r.al, e[1]) = e[2] /\ Free(r.al.free) = Free(a.free) \ {e[1]}
             /\ ~r.ok => Gen(r.al, e[1]) = Gen(a, e[1]) /\ Free(r.al.free) = Free(a.free)
             /\ \A i \in Nat : i # e[1] => Gen(r.al, i) = Gen(a, i)
<1> DEFINE r == AdoptExisting(a, e)
           removed == RemoveIndex(a.free, e[1])
           p == e[1] + 1
<1>1. /\ Slots(a) \in Nat /\ a.next_reserved \in Nat /\ Slots(a) <= REMOVED /\ REMOVED \in Nat
      /\ MaxGen \in Nat /\ a.free.cap \in Nat
      /\ GenOf(a, e[1]) \in 0 .. MaxGen /\ Gen(a, e[1]) = GenOf(a, e[1])
  BY AllocFacts
<1>2. /\ DOMAIN a = AllocatorFields /\ a.generations \in Seq(0 .. MaxGen) /\ Sound(a.free)
      /\ a.next_reserved \in 0 .. REMOVED /\ Slots(a) <= a.next_reserved
      /\ Free(a.free) \subseteq 0 .. Slots(a) - 1 /\ Slots(a) <= a.free.cap
  BY DEF AllocOK
<1>3. e[1] \in 0 .. REMOVED - 1 /\ p \in 1 .. Len(a.generations)
  BY <1>1 DEF Slots
<1>4. /\ removed.found <=> e[1] \in Free(a.free)
      /\ Sound(removed.list) /\ removed.list.cap = a.free.cap
      /\ Free(removed.list) = Free(a.free) \ {e[1]}
  BY <1>2, <1>3, RemoveIs
<1>5. r = IF GenOf(a, e[1]) > e[2] THEN [ok |-> FALSE, al |-> a]
          ELSE IF removed.found
          THEN [ok |-> TRUE,
                al |-> [a EXCEPT !.free = removed.list, !.generations[p] = e[2]]]
          ELSE [ok |-> GenOf(a, e[1]) = e[2], al |-> [a EXCEPT !.free = removed.list]]
  BY DEF AdoptExisting
<1> HIDE DEF removed
<1>6. CASE GenOf(a, e[1]) > e[2]
  <2>1. r.ok = FALSE /\ r.al = a
    BY <1>5, <1>6
  <2> HIDE DEF r
  <2>2. ~(Gen(a, e[1]) <= e[2])
    BY <1>1, <1>6
  <2>3. QED
    BY <2>1, <2>2 DEF r
<1>7. CASE ~(GenOf(a, e[1]) > e[2]) /\ removed.found
  <2>1. r.ok = TRUE /\ r.al = [a EXCEPT !.free = removed.list, !.generations[p] = e[2]]
    BY <1>5, <1>7
  <2> HIDE DEF r
  <2>2. /\ DOMAIN r.al = AllocatorFields /\ r.al.free = removed.list
        /\ r.al.generations = [a.generations EXCEPT ![p] = e[2]]
        /\ r.al.next_reserved = a.next_reserved
    BY <1>2, <2>1 DEF AllocatorFields
  <2>3. /\ r.al.generations \in Seq(0 .. MaxGen) /\ Len(r.al.generations) = Len(a.generations)
        /\ r.al.generations[p] = e[2]
        /\ \A q \in 1 .. Len(a.generations) : q # p => r.al.generations[q] = a.generations[q]
    BY <1>2, <1>3, <2>2
  <2>4. Slots(r.al) = Slots(a)
    BY <2>3 DEF Slots
  <2>5. AllocOK(r.al)
    BY <1>1, <1>2, <1>4, <2>2, <2>3, <2>4 DEF AllocOK
  <2>6. Gen(r.al, e[1]) = e[2]
    BY <1>1, <2>3, <2>4 DEF Gen, GenOf
  <2>7. ASSUME NEW i \in Nat, i # e[1] PROVE Gen(r.al, i) = Gen(a, i)
    <3>1. CASE i < Slots(a)
      <4>1. i + 1 \in 1 .. Len(a.generations) /\ i + 1 # p
        BY <1>1, <2>7, <3>1 DEF Slots
      <4>2. QED
        BY <2>3, <2>4, <3>1, <4>1 DEF Gen, GenOf
    <3>2. QED
      BY <2>4, <3>1 DEF Gen
  <2>8. Gen(a, e[1]) <= e[2] /\ e[1] \in Free(a.free)
    BY <1>1, <1>4, <1>7
  <2>9. QED
    BY <1>4, <2>1, <2>2, <2>4, <2>5, <2>6, <2>7, <2>8 DEF r
<1>8. CASE ~(GenOf(a, e[1]) > e[2]) /\ ~removed.found
  <2>1. r.ok = (GenOf(a, e[1]) = e[2]) /\ r.al = [a EXCEPT !.free = removed.list]
    BY <1>5, <1>8
  <2> HIDE DEF r
  <2>2. /\ DOMAIN r.al = AllocatorFields /\ r.al.free = removed.list
        /\ r.al.generations = a.generations /\ r.al.next_reserved = a.next_reserved
    BY <1>2, <2>1 DEF AllocatorFields
  <2>3. Slots(r.al) = Slots(a) /\ \A i : Gen(r.al, i) = Gen(a, i)
    BY <2>2 DEF Slots, Gen, GenOf
  <2>4. e[1] \notin Free(a.free) /\ Free(r.al.free) = Free(a.free)
    BY <1>4, <1>8, <2>2
  <2>5. AllocOK(r.al)
    BY <1>2, <1>4, <2>2, <2>3, <2>4 DEF AllocOK
  <2>6. Gen(a, e[1]) <= e[2]
    BY <1>1, <1>8
  <2>7. Free(a.free) \ {e[1]} = Free(a.free)
    BY <2>4
  <2>8. r.ok <=> Gen(a, e[1]) = e[2]
    BY <1>1, <2>1
  <2>9. r.ok \in BOOLEAN
    BY <2>1
  <2>10. QED
    BY <2>2, <2>3, <2>4, <2>5, <2>6, <2>7, <2>8, <2>9 DEF r
<1>9. QED
  BY <1>6, <1>7, <1>8

LEMMA AdoptFreshIs ==
  ASSUME NEW a, AllocOK(a), Slots(a) = a.next_reserved, NEW e, e[1] \in 0 .. REMOVED - 1,
         Slots(a) <= e[1], e[2] \in 0 .. MaxGen
  PROVE  LET r == AdoptFresh(a, e)
         IN  /\ r.ok = TRUE /\ AllocOK(r.al)
             /\ Slots(r.al) = e[1] + 1 /\ r.al.next_reserved = e[1] + 1
             /\ Gen(r.al, e[1]) = e[2]
             /\ Free(r.al.free) = Free(a.free) \cup (Slots(a) .. e[1] - 1)
             /\ \A i \in Nat : i # e[1] => Gen(r.al, i) = Gen(a, i)
<1> DEFINE r == AdoptFresh(a, e)
           n == e[1]
           k == Slots(a)
           reserved == ReserveTotal(a.free, n + 1)
           list == Pushes(reserved, k, n - k)[n - k]
           gens == Append(Resized(a.generations, n), e[2])
           b == [a EXCEPT !.generations = gens, !.free = list]
<1>1. /\ k \in Nat /\ a.next_reserved \in Nat /\ k <= REMOVED /\ REMOVED \in Nat
      /\ MaxGen \in Nat /\ n \in Nat /\ n + 1 \in Nat /\ n - k \in Nat /\ k <= n
  BY AllocFacts
<1>2. /\ DOMAIN a = AllocatorFields /\ a.generations \in Seq(0 .. MaxGen) /\ Sound(a.free)
      /\ a.next_reserved = k /\ Free(a.free) \subseteq 0 .. k - 1
  BY DEF AllocOK
<1>3. r.ok = TRUE /\ r.al = SyncReserved(b)
  BY DEF AdoptFresh
<1>4. /\ DOMAIN b = AllocatorFields /\ b.generations = gens /\ b.free = list
      /\ b.next_reserved = k
  BY <1>2 DEF AllocatorFields
<1>5. /\ gens \in Seq(0 .. MaxGen) /\ Len(gens) = n + 1 /\ gens[n + 1] = e[2]
      /\ \A p \in 1 .. k : gens[p] = a.generations[p]
      /\ \A p \in 1 .. n : k < p => gens[p] = 0
  <2> DEFINE g == Resized(a.generations, n)
  <2>1. Len(a.generations) = k
    BY DEF Slots
  <2>2. /\ g \in Seq(0 .. MaxGen) /\ Len(g) = n
        /\ \A p \in 1 .. k : g[p] = a.generations[p]
        /\ \A p \in 1 .. n : k < p => g[p] = 0
    <3>1. Len(a.generations) <= n
      BY <1>1, <2>1
    <3>2. /\ g \in Seq(0 .. MaxGen) /\ Len(g) = n
          /\ \A p \in 1 .. Len(a.generations) : g[p] = a.generations[p]
          /\ \A p \in 1 .. n : Len(a.generations) < p => g[p] = 0
      BY <1>1, <1>2, <3>1, ResizedIs
    <3> HIDE DEF g, k, n
    <3>3. QED
      BY <2>1, <3>2
  <2> HIDE DEF g, k, n
  <2>3. /\ gens \in Seq(0 .. MaxGen) /\ Len(gens) = n + 1 /\ gens[n + 1] = e[2]
        /\ \A p \in 1 .. n : gens[p] = g[p]
    BY <2>2, AppendIs DEF g
  <2>4. \A p \in 1 .. k : p \in 1 .. n
    BY <1>1
  <2> HIDE DEF gens
  <2>5. QED
    BY <2>2, <2>3, <2>4
<1>6. Sound(list) /\ Free(list) = Free(a.free) \cup (k .. n - 1) /\ n + 1 <= list.cap
  <2>1. Sound(reserved) /\ Free(reserved) = Free(a.free) /\ n + 1 <= reserved.cap
    BY <1>1, <1>2, ReserveIs
  <2> HIDE DEF reserved, k, n
  <2>2. k + (n - k) <= REMOVED /\ k + (n - k) - 1 = n - 1
    BY <1>1 DEF n
  <2>3. PICK c \in Nat : c = n - k
    BY <1>1
  <2>4. /\ Sound(Pushes(reserved, k, c)[c])
        /\ Free(Pushes(reserved, k, c)[c]) = Free(reserved) \cup (k .. k + c - 1)
        /\ reserved.cap <= Pushes(reserved, k, c)[c].cap
    BY <1>1, <1>2, <2>1, <2>2, <2>3, PushesIs
  <2>5. reserved.cap \in Nat /\ list.cap \in Nat
    BY <2>1, <2>3, <2>4 DEF Sound
  <2>6. QED
    BY <1>1, <2>1, <2>2, <2>3, <2>4, <2>5
<1> HIDE DEF gens, list, b
<1>7. Slots(b) = n + 1 /\ b.next_reserved < Slots(b)
  BY <1>1, <1>4, <1>5 DEF Slots
<1> HIDE DEF r
<1>8. /\ DOMAIN r.al = AllocatorFields /\ r.al.generations = gens /\ r.al.free = list
      /\ r.al.next_reserved = n + 1
  BY <1>3, <1>4, <1>7 DEF SyncReserved, AllocatorFields
<1>9. Slots(r.al) = n + 1
  BY <1>5, <1>8 DEF Slots
<1> HIDE DEF k
<1>10. AllocOK(r.al)
  <2>1. Free(r.al.free) \subseteq 0 .. Slots(r.al) - 1
    <3>1. Free(r.al.free) = Free(a.free) \cup (k .. n - 1) /\ Slots(r.al) - 1 = n
      BY <1>1, <1>6, <1>8, <1>9
    <3> HIDE DEF n
    <3>2. 0 .. k - 1 \subseteq 0 .. n /\ k .. n - 1 \subseteq 0 .. n
      BY <1>1
    <3>3. QED
      BY <1>2, <3>1, <3>2
  <2>2. QED
    <3>1. r.al.next_reserved \in 0 .. REMOVED /\ Slots(r.al) <= r.al.next_reserved
      BY <1>1, <1>8, <1>9
    <3> HIDE DEF n
    <3>2. QED
      BY <1>5, <1>6, <1>8, <1>9, <2>1, <3>1 DEF AllocOK
<1>11. Gen(r.al, n) = e[2]
  BY <1>1, <1>5, <1>8, <1>9 DEF Gen, GenOf
<1>12. ASSUME NEW i \in Nat, i # n PROVE Gen(r.al, i) = Gen(a, i)
  <2>1. CASE i < k
    <3>1. i + 1 \in 1 .. k /\ i < n + 1 /\ i < Slots(a)
      BY <1>1, <2>1 DEF k
    <3>2. QED
      BY <1>5, <1>8, <1>9, <3>1 DEF Gen, GenOf
  <2>2. CASE ~(i < k) /\ i < n
    <3>1. i + 1 \in 1 .. n /\ k < i + 1 /\ i < n + 1 /\ ~(i < Slots(a))
      BY <1>1, <2>2 DEF k
    <3>2. QED
      BY <1>5, <1>8, <1>9, <3>1 DEF Gen, GenOf
  <2>3. CASE ~(i < k) /\ ~(i < n)
    <3>1. ~(i < n + 1) /\ ~(i < Slots(a))
      BY <1>1, <1>12, <2>3 DEF k
    <3>2. QED
      BY <1>9, <3>1 DEF Gen
  <2>4. QED
    BY <2>1, <2>2, <2>3
<1>13. QED
  BY <1>3, <1>6, <1>8, <1>9, <1>10, <1>11, <1>12 DEF r, k

LEMMA AdoptIs ==
  ASSUME NEW a, AllocOK(a), Slots(a) = a.next_reserved, NEW e, e[1] \in 0 .. REMOVED - 1,
         e[2] \in 0 .. MaxGen
  PROVE  LET r == Adopt(a, e)
         IN  /\ r.ok \in BOOLEAN
             /\ AllocOK(r.al) /\ Slots(r.al) = r.al.next_reserved
             /\ r.ok <=> \/ Slots(a) <= e[1]
                         \/ Gen(a, e[1]) <= e[2] /\ (e[1] \in Free(a.free) \/ Gen(a, e[1]) = e[2])
             /\ r.ok => /\ Gen(r.al, e[1]) = e[2]
                        /\ Free(r.al.free) = (Free(a.free) \cup (Slots(a) .. e[1] - 1)) \ {e[1]}
                        /\ Slots(r.al) = IF Slots(a) <= e[1] THEN e[1] + 1 ELSE Slots(a)
             /\ ~r.ok => /\ Gen(r.al, e[1]) = Gen(a, e[1]) /\ Free(r.al.free) = Free(a.free)
                         /\ Slots(r.al) = Slots(a)
             /\ \A i \in Nat : i # e[1] => Gen(r.al, i) = Gen(a, i)
<1> DEFINE r == Adopt(a, e)
<1>1. Materialize(a) = a
  BY MaterializeIs
<1>2. Slots(a) \in Nat /\ REMOVED \in Nat /\ e[1] # REMOVED /\ e[1] \in Nat
  BY AllocFacts
<1>3. CASE e[1] < Slots(a)
  <2>1. r = AdoptExisting(a, e)
    BY <1>1, <1>2, <1>3 DEF Adopt
  <2> HIDE DEF r
  <2>2. e[1] \in 0 .. Slots(a) - 1 /\ ~(Slots(a) <= e[1]) /\ Slots(a) .. e[1] - 1 = {}
    BY <1>2, <1>3
  <2>3. /\ r.ok \in BOOLEAN
        /\ AllocOK(r.al) /\ Slots(r.al) = Slots(a) /\ r.al.next_reserved = a.next_reserved
        /\ r.ok <=> Gen(a, e[1]) <= e[2] /\ (e[1] \in Free(a.free) \/ Gen(a, e[1]) = e[2])
        /\ r.ok => Gen(r.al, e[1]) = e[2] /\ Free(r.al.free) = Free(a.free) \ {e[1]}
        /\ ~r.ok => Gen(r.al, e[1]) = Gen(a, e[1]) /\ Free(r.al.free) = Free(a.free)
        /\ \A i \in Nat : i # e[1] => Gen(r.al, i) = Gen(a, i)
    <3> DEFINE x == AdoptExisting(a, e)
    <3>1. /\ x.ok \in BOOLEAN
          /\ AllocOK(x.al) /\ Slots(x.al) = Slots(a) /\ x.al.next_reserved = a.next_reserved
          /\ x.ok <=> Gen(a, e[1]) <= e[2] /\ (e[1] \in Free(a.free) \/ Gen(a, e[1]) = e[2])
          /\ x.ok => Gen(x.al, e[1]) = e[2] /\ Free(x.al.free) = Free(a.free) \ {e[1]}
          /\ ~x.ok => Gen(x.al, e[1]) = Gen(a, e[1]) /\ Free(x.al.free) = Free(a.free)
          /\ \A i \in Nat : i # e[1] => Gen(x.al, i) = Gen(a, i)
      BY <2>2, AdoptExistingIs
    <3>2. r = x
      BY <2>1
    <3> HIDE DEF x
    <3>3. QED
      BY <3>1, <3>2
  <2>4. QED
    BY <2>2, <2>3 DEF r
<1>4. CASE ~(e[1] < Slots(a))
  <2>1. r = AdoptFresh(a, e)
    BY <1>1, <1>2, <1>4 DEF Adopt
  <2> HIDE DEF r
  <2>2. Slots(a) <= e[1]
    BY <1>2, <1>4
  <2>3. /\ r.ok = TRUE /\ AllocOK(r.al)
        /\ Slots(r.al) = e[1] + 1 /\ r.al.next_reserved = e[1] + 1
        /\ Gen(r.al, e[1]) = e[2]
        /\ Free(r.al.free) = Free(a.free) \cup (Slots(a) .. e[1] - 1)
        /\ \A i \in Nat : i # e[1] => Gen(r.al, i) = Gen(a, i)
    BY <2>1, <2>2, AdoptFreshIs
  <2>4. e[1] \notin Free(a.free) \cup (Slots(a) .. e[1] - 1)
    BY <1>2, <2>2 DEF AllocOK
  <2>5. (Free(a.free) \cup (Slots(a) .. e[1] - 1)) \ {e[1]} = Free(a.free) \cup (Slots(a) .. e[1] - 1)
    BY <2>4
  <2>6. QED
    BY <2>2, <2>3, <2>5 DEF r
<1>5. QED
  BY <1>3, <1>4

LEMMA WouldAdoptIs ==
  ASSUME NEW a, AllocOK(a), NEW e, e[1] \in 0 .. REMOVED, e[2] \in 0 .. MaxGen
  PROVE  WouldAdopt(a, e) = Adopt(a, e).ok
<1> DEFINE m == Materialize(a)
<1>1. /\ AllocOK(m) /\ Slots(m) = a.next_reserved /\ m.next_reserved = a.next_reserved
      /\ Free(m.free) = Free(a.free) /\ \A i \in Nat : Gen(m, i) = Gen(a, i)
      /\ Slots(m) = m.next_reserved
  BY MaterializeIs
<1>2. /\ Slots(a) \in Nat /\ a.next_reserved \in Nat /\ REMOVED \in Nat /\ Slots(a) <= a.next_reserved
      /\ MaxGen \in Nat /\ e[1] \in Nat /\ e[2] \in Nat /\ Sound(a.free)
      /\ Free(a.free) \subseteq 0 .. Slots(a) - 1 /\ a.next_reserved <= REMOVED
  <2>1. /\ Slots(a) \in Nat /\ a.next_reserved \in Nat /\ REMOVED \in Nat /\ MaxGen \in Nat
    BY AllocFacts
  <2>2. /\ Slots(a) <= a.next_reserved /\ Sound(a.free) /\ a.next_reserved \in 0 .. REMOVED
        /\ Free(a.free) \subseteq 0 .. Slots(a) - 1
    BY DEF AllocOK
  <2>3. QED
    BY <2>1, <2>2
<1>a. \A i \in 0 .. Slots(a) - 1 : Gen(a, i) = GenOf(a, i)
  BY AllocFacts
<1>3. CASE e[1] = REMOVED
  <2>1. WouldAdopt(a, e) = FALSE
    BY <1>3 DEF WouldAdopt
  <2> HIDE DEF m
  <2>2. ~(e[1] < Slots(m))
    BY <1>1, <1>2, <1>3
  <2>3. Adopt(a, e) = [ok |-> FALSE, al |-> a]
    BY <1>3, <2>2 DEF Adopt, m
  <2>4. Adopt(a, e).ok = FALSE
    BY <2>3
  <2>5. QED
    BY <2>1, <2>4
<1>4. CASE e[1] # REMOVED
  <2>1. e[1] \in 0 .. REMOVED - 1
    BY <1>2, <1>4
  <2>2. Materialize(m) = m
    BY <1>1, MaterializeIs
  <2>3. Adopt(a, e) = Adopt(m, e)
    BY <1>4, <2>2 DEF Adopt
  <2> HIDE DEF m
  <2>4. /\ Adopt(m, e).ok \in BOOLEAN
        /\ Adopt(m, e).ok <=> \/ Slots(m) <= e[1]
                              \/ Gen(m, e[1]) <= e[2] /\ (e[1] \in Free(m.free) \/ Gen(m, e[1]) = e[2])
    BY <1>1, <2>1, AdoptIs
  <2>5. WouldAdopt(a, e) \in BOOLEAN
    BY DEF WouldAdopt
  <2>6. ContainsIndex(a.free, e[1]) <=> e[1] \in Free(a.free)
    BY <1>2, <2>1, ContainsIs
  <2>7. WouldAdopt(a, e) <=> \/ a.next_reserved <= e[1]
                             \/ Gen(a, e[1]) <= e[2] /\ (e[1] \in Free(a.free) \/ Gen(a, e[1]) = e[2])
    <3>1. CASE e[1] < Slots(a)
      <4>1. GenOf(a, e[1]) = Gen(a, e[1]) /\ ~(a.next_reserved <= e[1]) /\ ~(e[1] >= Slots(a))
        BY <1>2, <1>a, <3>1
      <4>2. QED
        BY <1>4, <2>6, <3>1, <4>1 DEF WouldAdopt
    <3>2. CASE ~(e[1] < Slots(a))
      <4>1. Gen(a, e[1]) = 0 /\ e[1] \notin Free(a.free) /\ e[1] >= Slots(a)
        BY <1>2, <3>2 DEF Gen
      <4>2. QED
        BY <1>2, <1>4, <3>2, <4>1 DEF WouldAdopt
    <3>3. QED
      BY <3>1, <3>2
  <2>8. QED
    BY <1>1, <1>2, <2>3, <2>4, <2>5, <2>7
<1>5. QED
  BY <1>3, <1>4

-----------------------------------------------------------------------------
(* The replay of one record of spawns.                                     *)

(* A world under replay: its slots are free, hold a row, or were live and  *)
(* without a row (lost) when the checkpoint was taken.                     *)
ReplayWorld(w, lost) ==
  /\ DOMAIN w = {"ok", "al", "placed"} /\ w.ok \in BOOLEAN
  /\ AllocOK(w.al) /\ Slots(w.al) = w.al.next_reserved
  /\ w.placed \subseteq 0 .. Slots(w.al) - 1 /\ lost \subseteq 0 .. Slots(w.al) - 1
  /\ \A i \in w.placed : i \notin Free(w.al.free)
  /\ \A i \in lost : i \notin Free(w.al.free)
  /\ \A i \in 0 .. Slots(w.al) - 1 : i \in Free(w.al.free) \/ i \in w.placed \/ i \in lost

LEMMA AfterContainsIs ==
  ASSUME NEW a, AllocOK(a), NEW e, e[1] \in 0 .. REMOVED - 1
  PROVE  LET b == [a EXCEPT !.free = IF e[1] < Slots(a) THEN AfterContains(@, e[1]) ELSE @]
         IN  /\ AllocOK(b) /\ Slots(b) = Slots(a) /\ b.next_reserved = a.next_reserved
             /\ Free(b.free) = Free(a.free) /\ \A i : Gen(b, i) = Gen(a, i)
<1> DEFINE list == IF e[1] < Slots(a) THEN AfterContains(a.free, e[1]) ELSE a.free
           b == [a EXCEPT !.free = list]
<1>1. /\ DOMAIN a = AllocatorFields /\ Sound(a.free) /\ a.generations \in Seq(0 .. MaxGen)
      /\ a.next_reserved \in 0 .. REMOVED /\ Slots(a) <= a.next_reserved
      /\ Free(a.free) \subseteq 0 .. Slots(a) - 1 /\ Slots(a) <= a.free.cap
  BY DEF AllocOK
<1>2. Sound(list) /\ Free(list) = Free(a.free) /\ list.cap = a.free.cap
  BY <1>1, ContainsIs
<1> HIDE DEF list
<1>3. /\ DOMAIN b = AllocatorFields /\ b.generations = a.generations /\ b.free = list
      /\ b.next_reserved = a.next_reserved
  BY <1>1 DEF AllocatorFields
<1> HIDE DEF b
<1>4. Slots(b) = Slots(a) /\ \A i : Gen(b, i) = Gen(a, i)
  BY <1>3 DEF Slots, Gen, GenOf
<1>5. AllocOK(b)
  BY <1>1, <1>2, <1>3, <1>4 DEF AllocOK
<1>6. QED
  BY <1>2, <1>3, <1>4, <1>5 DEF b, list

LEMMA AdoptOneIs ==
  ASSUME NEW w, NEW lost, ReplayWorld(w, lost), NEW e, e[1] \in 0 .. REMOVED - 1,
         e[2] \in 0 .. MaxGen
  PROVE  LET v == AdoptOne(w, e)
         IN  /\ ReplayWorld(v, lost)
             /\ v.placed = IF v.ok THEN w.placed \cup {e[1]} ELSE w.placed
             /\ v.ok => w.ok /\ Gen(v.al, e[1]) = e[2] /\ e[1] \in v.placed
             /\ \A i \in Nat : i # e[1] => Gen(v.al, i) = Gen(w.al, i)
             /\ Gen(w.al, e[1]) <= Gen(v.al, e[1])
             /\ Slots(w.al) <= Slots(v.al)
             /\ \A i \in 0 .. Slots(w.al) - 1 : i \in Free(v.al.free) => i \in Free(w.al.free)
             /\ w.ok /\ e[1] \notin w.placed /\ e[1] \notin lost /\ Gen(w.al, e[1]) <= e[2] => v.ok
<1> DEFINE v == AdoptOne(w, e)
           a0 == [w.al EXCEPT !.free = IF e[1] < Slots(w.al) THEN AfterContains(@, e[1]) ELSE @]
           r == Adopt(a0, e)
           n == Slots(w.al)
<1>1. /\ DOMAIN w = {"ok", "al", "placed"} /\ w.ok \in BOOLEAN
      /\ AllocOK(w.al) /\ n = w.al.next_reserved
      /\ w.placed \subseteq 0 .. n - 1 /\ lost \subseteq 0 .. n - 1
      /\ \A i \in w.placed : i \notin Free(w.al.free)
      /\ \A i \in lost : i \notin Free(w.al.free)
      /\ \A i \in 0 .. n - 1 : i \in Free(w.al.free) \/ i \in w.placed \/ i \in lost
  BY DEF ReplayWorld
<1>2. /\ n \in Nat /\ REMOVED \in Nat /\ e[1] \in Nat /\ Gen(w.al, e[1]) \in Nat /\ MaxGen \in Nat
      /\ e[2] \in Nat
  <2>1. n \in Nat /\ REMOVED \in Nat /\ e[1] \in Nat /\ MaxGen \in Nat
    BY <1>1, AllocFacts
  <2>2. Gen(w.al, e[1]) \in 0 .. MaxGen
    BY <1>1, <2>1, AllocFacts
  <2>3. QED
    BY <2>1, <2>2
<1>3. v = IF ~w.ok \/ e[1] \in w.placed THEN [w EXCEPT !.ok = FALSE]
          ELSE [ok |-> r.ok, al |-> r.al,
                placed |-> IF r.ok THEN w.placed \cup {e[1]} ELSE w.placed]
  BY DEF AdoptOne
<1>4. /\ AllocOK(a0) /\ Slots(a0) = n /\ a0.next_reserved = n
      /\ Free(a0.free) = Free(w.al.free) /\ \A i : Gen(a0, i) = Gen(w.al, i)
  BY <1>1, AfterContainsIs
<1> HIDE DEF a0
<1>5. CASE ~w.ok \/ e[1] \in w.placed
  <2>1. DOMAIN v = {"ok", "al", "placed"} /\ v.ok = FALSE /\ v.al = w.al /\ v.placed = w.placed
    BY <1>1, <1>3, <1>5
  <2> HIDE DEF v
  <2>2. ReplayWorld(v, lost)
    BY <1>1, <2>1 DEF ReplayWorld
  <2>3. QED
    BY <1>2, <1>5, <2>1, <2>2 DEF v
<1>6. CASE ~(~w.ok \/ e[1] \in w.placed)
  <2>1. /\ DOMAIN v = {"ok", "al", "placed"} /\ v.ok = r.ok /\ v.al = r.al
        /\ v.placed = IF r.ok THEN w.placed \cup {e[1]} ELSE w.placed
    BY <1>3, <1>6
  <2>2. /\ r.ok \in BOOLEAN
        /\ AllocOK(r.al) /\ Slots(r.al) = r.al.next_reserved
        /\ r.ok <=> \/ n <= e[1]
                    \/ Gen(w.al, e[1]) <= e[2] /\ (e[1] \in Free(w.al.free) \/ Gen(w.al, e[1]) = e[2])
        /\ r.ok => /\ Gen(r.al, e[1]) = e[2]
                   /\ Free(r.al.free) = (Free(w.al.free) \cup (n .. e[1] - 1)) \ {e[1]}
                   /\ Slots(r.al) = IF n <= e[1] THEN e[1] + 1 ELSE n
        /\ ~r.ok => /\ Gen(r.al, e[1]) = Gen(w.al, e[1]) /\ Free(r.al.free) = Free(w.al.free)
                    /\ Slots(r.al) = n
        /\ \A i \in Nat : i # e[1] => Gen(r.al, i) = Gen(w.al, i)
    <3>1. /\ r.ok \in BOOLEAN
          /\ AllocOK(r.al) /\ Slots(r.al) = r.al.next_reserved
          /\ r.ok <=> \/ Slots(a0) <= e[1]
                      \/ Gen(a0, e[1]) <= e[2] /\ (e[1] \in Free(a0.free) \/ Gen(a0, e[1]) = e[2])
          /\ r.ok => /\ Gen(r.al, e[1]) = e[2]
                     /\ Free(r.al.free) = (Free(a0.free) \cup (Slots(a0) .. e[1] - 1)) \ {e[1]}
                     /\ Slots(r.al) = IF Slots(a0) <= e[1] THEN e[1] + 1 ELSE Slots(a0)
          /\ ~r.ok => /\ Gen(r.al, e[1]) = Gen(a0, e[1]) /\ Free(r.al.free) = Free(a0.free)
                      /\ Slots(r.al) = Slots(a0)
          /\ \A i \in Nat : i # e[1] => Gen(r.al, i) = Gen(a0, i)
      BY <1>4, AdoptIs
    <3> HIDE DEF r
    <3>2. QED
      BY <1>4, <3>1
  <2> HIDE DEF r, v
  <2>3. CASE ~r.ok
    <3>1. ReplayWorld(v, lost)
      BY <1>1, <2>1, <2>2, <2>3 DEF ReplayWorld
    <3>2. e[1] \notin w.placed /\ e[1] \notin lost /\ Gen(w.al, e[1]) <= e[2] => r.ok
      BY <1>1, <1>2, <2>2
    <3>3. QED
      BY <1>2, <2>1, <2>2, <2>3, <3>1, <3>2 DEF v
  <2>4. CASE r.ok
    <3>1. /\ Slots(v.al) \in Nat /\ e[1] < Slots(v.al) /\ n <= Slots(v.al)
          /\ n <= e[1] => Slots(v.al) = e[1] + 1
          /\ ~(n <= e[1]) => Slots(v.al) = n
      BY <1>2, <2>1, <2>2, <2>4
    <3>2. Free(v.al.free) = (Free(w.al.free) \cup (n .. e[1] - 1)) \ {e[1]}
      BY <2>1, <2>2, <2>4
    <3>3. v.placed = w.placed \cup {e[1]}
      BY <2>1, <2>4
    <3>4. v.placed \subseteq 0 .. Slots(v.al) - 1 /\ lost \subseteq 0 .. Slots(v.al) - 1
      BY <1>1, <1>2, <3>1, <3>3
    <3>5. \A i \in v.placed : i \notin Free(v.al.free)
      BY <1>1, <1>2, <3>2, <3>3
    <3>6. \A i \in lost : i \notin Free(v.al.free)
      BY <1>1, <1>2, <3>2
    <3>7. \A i \in 0 .. Slots(v.al) - 1 : i \in Free(v.al.free) \/ i \in v.placed \/ i \in lost
      <4> SUFFICES ASSUME NEW i \in 0 .. Slots(v.al) - 1, i # e[1]
                   PROVE  i \in Free(v.al.free) \/ i \in v.placed \/ i \in lost
        BY <3>3
      <4>1. CASE i < n
        <5>1. i \in 0 .. n - 1
          BY <1>2, <4>1
        <5>2. QED
          BY <1>1, <3>2, <3>3, <5>1
      <4>2. CASE ~(i < n)
        <5>1. i \in n .. e[1] - 1
          BY <1>2, <3>1, <4>2
        <5>2. QED
          BY <3>2, <5>1
      <4>3. QED
        BY <4>1, <4>2
    <3>8. ReplayWorld(v, lost)
      BY <2>1, <2>2, <3>4, <3>5, <3>6, <3>7 DEF ReplayWorld
    <3>9. \A i \in 0 .. n - 1 : i \in Free(v.al.free) => i \in Free(w.al.free)
      BY <1>2, <3>2
    <3>10. Gen(v.al, e[1]) = e[2] /\ Gen(w.al, e[1]) <= e[2]
      <4>1. CASE n <= e[1]
        <5>1. Gen(w.al, e[1]) = 0
          BY <1>2, <4>1 DEF Gen
        <5>2. QED
          BY <1>2, <2>1, <2>2, <2>4, <5>1
      <4>2. QED
        BY <2>1, <2>2, <2>4, <4>1
    <3>11. QED
      BY <1>6, <2>1, <2>2, <2>4, <3>1, <3>3, <3>8, <3>9, <3>10 DEF v
  <2>5. QED
    BY <2>3, <2>4
<1>7. QED
  BY <1>5, <1>6

LEMMA AdoptOneStale ==
  ASSUME NEW w, NEW lost, ReplayWorld(w, lost), NEW e, e[1] \in 0 .. REMOVED - 1,
         e[2] \in 0 .. MaxGen, NEW x, x[1] \in Nat, x[2] \in Nat, Stale(w.al, x)
  PROVE  Stale(AdoptOne(w, e).al, x)
<1> DEFINE v == AdoptOne(w, e)
<1>1. /\ ReplayWorld(v, lost) /\ Slots(w.al) <= Slots(v.al)
      /\ \A i \in Nat : i # e[1] => Gen(v.al, i) = Gen(w.al, i)
      /\ Gen(w.al, e[1]) <= Gen(v.al, e[1])
      /\ \A i \in 0 .. Slots(w.al) - 1 : i \in Free(v.al.free) => i \in Free(w.al.free)
  BY AdoptOneIs
<1> HIDE DEF v
<1>2. /\ AllocOK(w.al) /\ AllocOK(v.al) /\ Slots(w.al) = w.al.next_reserved
      /\ Slots(v.al) = v.al.next_reserved
  BY <1>1 DEF ReplayWorld
<1>3. /\ Slots(w.al) \in Nat /\ Slots(v.al) \in Nat /\ MaxGen \in Nat
      /\ Gen(w.al, x[1]) \in 0 .. MaxGen /\ Gen(v.al, x[1]) \in 0 .. MaxGen
  BY <1>2, AllocFacts
<1>4. Gen(w.al, x[1]) <= Gen(v.al, x[1])
  BY <1>1, <1>3
<1>5. /\ x[1] < Slots(w.al) /\ x[2] <= Gen(w.al, x[1])
      /\ x[1] \in Free(w.al.free) => x[2] < Gen(w.al, x[1])
  BY <1>2 DEF Stale
<1>6. x[1] \in 0 .. Slots(w.al) - 1
  BY <1>3, <1>5
<1>7. x[1] \in Free(v.al.free) => x[2] < Gen(v.al, x[1])
  BY <1>1, <1>3, <1>4, <1>5, <1>6
<1>8. x[1] < v.al.next_reserved /\ x[2] <= Gen(v.al, x[1])
  BY <1>1, <1>2, <1>3, <1>4, <1>5
<1>9. QED
  BY <1>7, <1>8 DEF Stale, v

(* The spawns of a record are accepted one and all, if each names a slot   *)
(* that holds no row, was not lost, and is not past the generation.        *)
LEMMA AdoptsIs ==
  ASSUME NEW w, NEW lost, ReplayWorld(w, lost), w.ok = TRUE, NEW es \in Seq(IssuedHandles),
         OneEach(es)
  PROVE  LET v == Adopts(w, es)[Len(es)]
         IN  /\ ReplayWorld(v, lost)
             /\ \A x \in IssuedHandles : Stale(w.al, x) => Stale(v.al, x)
             /\ v.ok => /\ v.placed = w.placed \cup IndicesOf(es)
                        /\ \A k \in 1 .. Len(es) : Gen(v.al, es[k][1]) = es[k][2] /\ Stale(v.al, es[k])
                        /\ \A i \in Nat : i \notin IndicesOf(es) => Gen(v.al, i) = Gen(w.al, i)
             /\ (\A k \in 1 .. Len(es) : /\ es[k][1] \notin w.placed /\ es[k][1] \notin lost
                                         /\ Gen(w.al, es[k][1]) <= es[k][2])
                => v.ok
<1> DEFINE A == Adopts(w, es)
           Fit == \A k \in 1 .. Len(es) : /\ es[k][1] \notin w.placed /\ es[k][1] \notin lost
                                          /\ Gen(w.al, es[k][1]) <= es[k][2]
           Rows(n) == /\ w.placed \subseteq A[n].placed
                      /\ \A i \in A[n].placed : i \in w.placed \/ \E k \in 1 .. n : i = es[k][1]
           In(n) == A[n].ok => \A k \in 1 .. n : es[k][1] \in A[n].placed
                                                 /\ Gen(A[n].al, es[k][1]) = es[k][2]
           Same(n) == \A i \in Nat : (\A k \in 1 .. n : es[k][1] # i) => Gen(A[n].al, i) = Gen(w.al, i)
           Old(n) == \A x \in IssuedHandles : Stale(w.al, x) => Stale(A[n].al, x)
           Good(n) == /\ ReplayWorld(A[n], lost) /\ Rows(n) /\ In(n) /\ Same(n) /\ Old(n)
                      /\ Fit => A[n].ok
           S == {n \in 0 .. Len(es) : Good(n)}
<1>1. /\ Len(es) \in Nat /\ REMOVED \in Nat /\ MaxGen \in Nat
      /\ \A k \in 1 .. Len(es) : es[k][1] \in 0 .. REMOVED - 1 /\ es[k][2] \in 0 .. MaxGen
      /\ \A x \in IssuedHandles : x[1] \in Nat /\ x[2] \in Nat
  <2>1. Len(es) \in Nat /\ REMOVED \in Nat /\ MaxGen \in Nat
    BY FreeListAssumption, EntityAllocatorAssumption
  <2>2. \A k \in 1 .. Len(es) : es[k] \in IssuedHandles
    BY ElementIs
  <2>3. \A x \in IssuedHandles : x[1] \in 0 .. REMOVED - 1 /\ x[2] \in 0 .. MaxGen - 1
    BY DEF IssuedHandles, Indices
  <2>4. QED
    BY <2>1, <2>2, <2>3
<1>2. A[0] = w /\ \A n \in 1 .. Len(es) : A[n] = AdoptOne(A[n - 1], es[n])
  BY <1>1, AdoptsUnfold
<1> HIDE DEF A
<1>3. 0 \in S
  <2>1. Rows(0) /\ In(0) /\ Same(0) /\ Old(0)
    BY <1>2
  <2>2. QED
    BY <1>1, <1>2, <2>1
<1>4. ASSUME NEW n \in 1 .. Len(es), n - 1 \in S PROVE n \in S
  <2> DEFINE u == A[n - 1]
             v == A[n]
             e == es[n]
             m == n - 1
  <2>1. ReplayWorld(u, lost) /\ Rows(m) /\ In(m) /\ Same(m) /\ Old(m) /\ (Fit => u.ok)
    BY <1>4
  <2>2. e[1] \in 0 .. REMOVED - 1 /\ e[2] \in 0 .. MaxGen /\ v = AdoptOne(u, e)
    BY <1>1, <1>2
  <2>3. /\ ReplayWorld(v, lost)
        /\ v.placed = IF v.ok THEN u.placed \cup {e[1]} ELSE u.placed
        /\ v.ok => u.ok /\ Gen(v.al, e[1]) = e[2] /\ e[1] \in v.placed
        /\ \A i \in Nat : i # e[1] => Gen(v.al, i) = Gen(u.al, i)
        /\ u.ok /\ e[1] \notin u.placed /\ e[1] \notin lost /\ Gen(u.al, e[1]) <= e[2] => v.ok
    <3> HIDE DEF u, v, e
    <3> DEFINE x == AdoptOne(u, e)
    <3>0. ReplayWorld(u, lost) /\ e[1] \in 0 .. REMOVED - 1 /\ e[2] \in 0 .. MaxGen
      BY <2>1, <2>2
    <3>1. /\ ReplayWorld(x, lost)
          /\ x.placed = IF x.ok THEN u.placed \cup {e[1]} ELSE u.placed
          /\ x.ok => u.ok /\ Gen(x.al, e[1]) = e[2] /\ e[1] \in x.placed
          /\ \A i \in Nat : i # e[1] => Gen(x.al, i) = Gen(u.al, i)
          /\ u.ok /\ e[1] \notin u.placed /\ e[1] \notin lost /\ Gen(u.al, e[1]) <= e[2] => x.ok
      BY <3>0, AdoptOneIs, ZenonT(40)
    <3>2. v = x
      BY <2>2
    <3> HIDE DEF x
    <3>3. QED
      BY <3>1, <3>2
  <2>4. \A k \in 1 .. m : k \in 1 .. n /\ k # n /\ k \in 1 .. Len(es)
    OBVIOUS
  <2>5. \A k \in 1 .. n : k = n \/ k \in 1 .. m
    OBVIOUS
  <2>6. \A k \in 1 .. m : es[k][1] # e[1] /\ es[k][1] \in Nat
    BY <1>1, <2>4 DEF OneEach
  <2>7. Rows(n)
    BY <2>1, <2>3, <2>4
  <2>8. In(n)
    <3> SUFFICES ASSUME v.ok, NEW k \in 1 .. n
                 PROVE  es[k][1] \in v.placed /\ Gen(v.al, es[k][1]) = es[k][2]
      OBVIOUS
    <3>1. CASE k = n
      BY <2>3, <3>1
    <3>2. CASE k \in 1 .. m
      BY <2>1, <2>3, <2>6, <3>2
    <3>3. QED
      BY <2>5, <3>1, <3>2
  <2>9. Same(n)
    <3> SUFFICES ASSUME NEW i \in Nat, \A k \in 1 .. n : es[k][1] # i
                 PROVE  Gen(v.al, i) = Gen(w.al, i)
      OBVIOUS
    <3>1. i # e[1] /\ \A k \in 1 .. m : es[k][1] # i
      BY <2>4
    <3>2. QED
      BY <2>1, <2>3, <3>1
  <2>10. Old(n)
    <3> SUFFICES ASSUME NEW x \in IssuedHandles, Stale(w.al, x) PROVE Stale(v.al, x)
      OBVIOUS
    <3>1. Stale(u.al, x) /\ x[1] \in Nat /\ x[2] \in Nat
      BY <1>1, <2>1
    <3> HIDE DEF u, v, e
    <3>2. QED
      BY <2>1, <2>2, <3>1, AdoptOneStale
  <2>11. ASSUME Fit PROVE v.ok
    <3>1. e[1] \notin w.placed /\ e[1] \notin lost /\ Gen(w.al, e[1]) <= e[2] /\ e[1] \in Nat
      BY <1>1, <2>11
    <3>2. e[1] \notin u.placed /\ Gen(u.al, e[1]) = Gen(w.al, e[1])
      BY <2>1, <2>6, <3>1
    <3>3. u.ok
      BY <2>1, <2>11
    <3>4. QED
      BY <2>3, <3>1, <3>2, <3>3
  <2>12. QED
    <3>1. Good(n)
      BY <2>3, <2>7, <2>8, <2>9, <2>10, <2>11
    <3> HIDE DEF Good
    <3>2. QED
      BY <3>1
<1>5. Good(Len(es))
  <2> HIDE DEF Good
  <2>1. 0 \in S /\ \A n \in 1 .. Len(es) : n - 1 \in S => n \in S
    BY <1>3, <1>4
  <2> HIDE DEF S
  <2>2. \A n \in 0 .. Len(es) : n \in S
    BY <1>1, <2>1, UpTo
  <2>3. QED
    BY <1>1, <2>2 DEF S
<1> DEFINE v == A[Len(es)]
<1>6. ReplayWorld(v, lost) /\ Rows(Len(es)) /\ In(Len(es)) /\ Same(Len(es)) /\ Old(Len(es)) /\ (Fit => v.ok)
  BY <1>5
<1>7. IndicesOf(es) = {es[k][1] : k \in 1 .. Len(es)}
  <2>1. DOMAIN es = 1 .. Len(es)
    OBVIOUS
  <2>2. QED
    BY <2>1 DEF IndicesOf
<1>8. v.ok => v.placed = w.placed \cup IndicesOf(es)
  BY <1>6, <1>7
<1>9. v.ok => \A k \in 1 .. Len(es) : Gen(v.al, es[k][1]) = es[k][2] /\ Stale(v.al, es[k])
  <2> SUFFICES ASSUME v.ok, NEW k \in 1 .. Len(es)
               PROVE  Gen(v.al, es[k][1]) = es[k][2] /\ Stale(v.al, es[k])
    OBVIOUS
  <2>1. es[k][1] \in v.placed /\ Gen(v.al, es[k][1]) = es[k][2]
    BY <1>6
  <2>2. es[k][1] \in 0 .. Slots(v.al) - 1 /\ es[k][1] \notin Free(v.al.free)
        /\ Slots(v.al) = v.al.next_reserved /\ AllocOK(v.al)
    BY <1>6, <2>1 DEF ReplayWorld
  <2>3. es[k][1] < v.al.next_reserved /\ es[k][2] \in Nat
    <3>1. Slots(v.al) \in Nat
      BY <2>2, AllocFacts
    <3>2. QED
      BY <1>1, <2>2, <3>1
  <2>4. QED
    BY <2>1, <2>2, <2>3 DEF Stale
<1>10. \A i \in Nat : i \notin IndicesOf(es) => Gen(v.al, i) = Gen(w.al, i)
  BY <1>6, <1>7
<1>11. QED
  BY <1>6, <1>8, <1>9, <1>10 DEF A

-----------------------------------------------------------------------------
(* Lists of handles.                                                       *)

LEMMA IndicesIs ==
  ASSUME NEW es \in Seq(IssuedHandles)
  PROVE  /\ IndicesOf(es) = {es[k][1] : k \in 1 .. Len(es)} /\ Len(es) \in Nat
         /\ \A k \in 1 .. Len(es) : es[k] \in IssuedHandles /\ es[k][1] \in IndicesOf(es)
         /\ \A e \in IssuedHandles : /\ e[1] \in 0 .. REMOVED - 1 /\ e[2] \in 0 .. MaxGen - 1
                                     /\ e[1] \in Nat /\ e[2] \in Nat /\ e = <<e[1], e[2]>>
                                     /\ e \in Handles
<1>1. DOMAIN es = 1 .. Len(es) /\ Len(es) \in Nat
  OBVIOUS
<1>2. \A k \in 1 .. Len(es) : es[k] \in IssuedHandles
  BY ElementIs
<1>3. IndicesOf(es) = {es[k][1] : k \in 1 .. Len(es)}
  BY <1>1 DEF IndicesOf
<1>4. ASSUME NEW e \in IssuedHandles
      PROVE  /\ e[1] \in 0 .. REMOVED - 1 /\ e[2] \in 0 .. MaxGen - 1
             /\ e[1] \in Nat /\ e[2] \in Nat /\ e = <<e[1], e[2]>>
             /\ e \in Handles
  <2>1. /\ e[1] \in 0 .. REMOVED - 1 /\ e[2] \in 0 .. MaxGen - 1 /\ e = <<e[1], e[2]>>
    BY DEF IssuedHandles, Indices
  <2>2. REMOVED \in Nat /\ MaxGen \in Nat
    BY FreeListAssumption, EntityAllocatorAssumption
  <2>3. e[1] \in 0 .. REMOVED - 1 /\ e[2] \in 0 .. MaxGen /\ e[1] \in Nat /\ e[2] \in Nat
    BY <2>1, <2>2
  <2>4. e[1] \in 0 .. REMOVED
    BY <2>2, <2>3
  <2>5. QED
    BY <2>1, <2>3, <2>4 DEF Handles
<1>5. QED
  BY <1>1, <1>2, <1>3, <1>4

LEMMA HandleIs ==
  ASSUME NEW e \in IssuedHandles
  PROVE  /\ e[1] \in 0 .. REMOVED - 1 /\ e[2] \in 0 .. MaxGen - 1
         /\ e[1] \in Nat /\ e[2] \in Nat /\ e = <<e[1], e[2]>> /\ e \in Handles
<1>1. <<>> \in Seq(IssuedHandles)
  OBVIOUS
<1>2. QED
  BY <1>1, IndicesIs

LEMMA NoIndices ==
  IndicesOf(<<>>) = {} /\ OneEach(<<>>) /\ <<>> \in Seq(IssuedHandles)
  BY DEF IndicesOf, OneEach

LEMMA EmptyAlive ==
  ASSUME NEW a PROVE Alive(a, <<>>)
  BY NoIndices DEF Alive

LEMMA AppendHandle ==
  ASSUME NEW es \in Seq(IssuedHandles), OneEach(es), NEW e \in IssuedHandles,
         e[1] \notin IndicesOf(es)
  PROVE  /\ Append(es, e) \in Seq(IssuedHandles) /\ OneEach(Append(es, e))
         /\ IndicesOf(Append(es, e)) = IndicesOf(es) \cup {e[1]}
<1> DEFINE fs == Append(es, e)
           n == Len(es)
<1>1. /\ fs \in Seq(IssuedHandles) /\ n \in Nat /\ Len(fs) = n + 1
      /\ \A i \in 1 .. n : fs[i] = es[i]
      /\ fs[n + 1] = e
  BY AppendIs
<1> HIDE DEF fs
<1>2. /\ IndicesOf(es) = {es[k][1] : k \in 1 .. n}
      /\ IndicesOf(fs) = {fs[k][1] : k \in 1 .. Len(fs)}
  BY <1>1, IndicesIs
<1>3. OneEach(fs)
  <2> SUFFICES ASSUME NEW j \in 1 .. n + 1, NEW k \in 1 .. n + 1, fs[j][1] = fs[k][1], j # k
               PROVE  FALSE
    BY <1>1 DEF OneEach
  <2>1. CASE j = n + 1
    <3>1. k \in 1 .. n /\ fs[j][1] = e[1] /\ fs[k][1] = es[k][1]
      BY <1>1, <2>1
    <3>2. QED
      BY <1>2, <3>1
  <2>2. CASE k = n + 1
    <3>1. j \in 1 .. n /\ fs[k][1] = e[1] /\ fs[j][1] = es[j][1]
      BY <1>1, <2>2
    <3>2. QED
      BY <1>2, <3>1
  <2>3. CASE j # n + 1 /\ k # n + 1
    <3>1. j \in 1 .. n /\ k \in 1 .. n
      BY <1>1, <2>3
    <3>2. QED
      BY <1>1, <3>1 DEF OneEach
  <2>4. QED
    BY <2>1, <2>2, <2>3
<1>4. IndicesOf(fs) = IndicesOf(es) \cup {e[1]}
  <2>1. \A k \in 1 .. n + 1 : k \in 1 .. n \/ k = n + 1
    BY <1>1
  <2>2. n + 1 \in 1 .. n + 1 /\ \A k \in 1 .. n : k \in 1 .. n + 1
    BY <1>1
  <2>3. QED
    BY <1>1, <1>2, <2>1, <2>2
<1>5. QED
  BY <1>1, <1>3, <1>4 DEF fs

LEMMA ConcatHandles ==
  ASSUME NEW es \in Seq(IssuedHandles), OneEach(es), NEW fs \in Seq(IssuedHandles), OneEach(fs),
         \A i \in IndicesOf(es) : i \notin IndicesOf(fs)
  PROVE  /\ es \o fs \in Seq(IssuedHandles) /\ OneEach(es \o fs)
         /\ IndicesOf(es \o fs) = IndicesOf(es) \cup IndicesOf(fs)
         /\ \A k \in 1 .. Len(es \o fs) : \/ \E j \in 1 .. Len(es) : (es \o fs)[k] = es[j]
                                          \/ \E j \in 1 .. Len(fs) : (es \o fs)[k] = fs[j]
<1> DEFINE gs == es \o fs
           m == Len(es)
           n == Len(fs)
<1>1. /\ gs \in Seq(IssuedHandles) /\ m \in Nat /\ n \in Nat /\ Len(gs) = m + n
      /\ \A i \in 1 .. m : gs[i] = es[i]
      /\ \A i \in m + 1 .. m + n : gs[i] = fs[i - m]
  OBVIOUS
<1> HIDE DEF gs
<1>2. /\ IndicesOf(es) = {es[k][1] : k \in 1 .. m}
      /\ IndicesOf(fs) = {fs[k][1] : k \in 1 .. n}
      /\ IndicesOf(gs) = {gs[k][1] : k \in 1 .. m + n}
  BY <1>1, IndicesIs
<1>3. \A k \in 1 .. m + n : \/ k \in 1 .. m /\ gs[k] = es[k]
                            \/ k - m \in 1 .. n /\ gs[k] = fs[k - m] /\ k \notin 1 .. m
  BY <1>1
<1>4. OneEach(gs)
  <2> SUFFICES ASSUME NEW j \in 1 .. m + n, NEW k \in 1 .. m + n, gs[j][1] = gs[k][1]
               PROVE  j = k
    BY <1>1 DEF OneEach
  <2>1. CASE j \in 1 .. m /\ k \in 1 .. m
    BY <1>1, <2>1 DEF OneEach
  <2>2. CASE j \in 1 .. m /\ k \notin 1 .. m
    BY <1>2, <1>3, <2>2
  <2>3. CASE j \notin 1 .. m /\ k \in 1 .. m
    BY <1>2, <1>3, <2>3
  <2>4. CASE j \notin 1 .. m /\ k \notin 1 .. m
    <3>1. /\ j - m \in 1 .. n /\ gs[j] = fs[j - m]
          /\ k - m \in 1 .. n /\ gs[k] = fs[k - m]
      BY <1>3, <2>4
    <3>2. j - m = k - m
      BY <3>1 DEF OneEach
    <3>3. QED
      BY <1>1, <3>2
  <2>5. QED
    BY <2>1, <2>2, <2>3, <2>4
<1>5. IndicesOf(gs) = IndicesOf(es) \cup IndicesOf(fs)
  <2>1. IndicesOf(gs) \subseteq IndicesOf(es) \cup IndicesOf(fs)
    BY <1>2, <1>3
  <2>2. ASSUME NEW i \in IndicesOf(es) PROVE i \in IndicesOf(gs)
    <3>1. PICK k \in 1 .. m : i = es[k][1]
      BY <1>2
    <3>2. k \in 1 .. m + n /\ gs[k] = es[k]
      BY <1>1
    <3>3. QED
      BY <1>2, <3>1, <3>2
  <2>3. ASSUME NEW i \in IndicesOf(fs) PROVE i \in IndicesOf(gs)
    <3>1. PICK k \in 1 .. n : i = fs[k][1]
      BY <1>2
    <3>2. k + m \in m + 1 .. m + n /\ (k + m) - m = k /\ k + m \in 1 .. m + n
      BY <1>1
    <3>3. gs[k + m] = fs[k]
      BY <1>1, <3>2
    <3>4. QED
      BY <1>2, <3>1, <3>2, <3>3
  <2>4. QED
    BY <2>1, <2>2, <2>3
<1>6. \A k \in 1 .. Len(gs) : \/ \E j \in 1 .. m : gs[k] = es[j]
                              \/ \E j \in 1 .. n : gs[k] = fs[j]
  BY <1>1, <1>3
<1>7. QED
  BY <1>1, <1>4, <1>5, <1>6 DEF gs

(* Handles stay alive while their slots keep their generations.            *)
LEMMA AliveSame ==
  ASSUME NEW a, NEW b, NEW es, AllocOK(a), AllocOK(b), Alive(a, es),
         a.next_reserved <= b.next_reserved,
         \A i \in IndicesOf(es) : Gen(b, i) = Gen(a, i)
  PROVE  Alive(b, es)
<1>1. es \in Seq(IssuedHandles) /\ OneEach(es)
      /\ \A k \in 1 .. Len(es) : es[k][1] < a.next_reserved /\ Gen(a, es[k][1]) = es[k][2]
  BY DEF Alive
<1>2. a.next_reserved \in Nat /\ b.next_reserved \in Nat
  BY AllocFacts
<1>3. \A k \in 1 .. Len(es) : es[k][1] \in IndicesOf(es) /\ es[k][1] \in Nat
  BY <1>1, IndicesIs
<1>4. \A k \in 1 .. Len(es) : es[k][1] < b.next_reserved /\ Gen(b, es[k][1]) = es[k][2]
  BY <1>1, <1>2, <1>3
<1>5. QED
  BY <1>1, <1>4 DEF Alive

LEMMA DeallocAllIs ==
  ASSUME NEW a, AllocOK(a), Slots(a) = a.next_reserved, NEW es, Alive(a, es),
         \A i \in IndicesOf(es) : i \notin Free(a.free)
  PROVE  LET d == DeallocAll(a, es)
         IN  /\ AllocOK(d) /\ Slots(d) = Slots(a) /\ d.next_reserved = a.next_reserved
             /\ Free(d.free) = Free(a.free) \cup IndicesOf(es) /\ d.free.cap = a.free.cap
             /\ \A i \in Nat : i \notin IndicesOf(es) => Gen(d, i) = Gen(a, i)
             /\ \A i \in IndicesOf(es) : Gen(d, i) = Gen(a, i) + 1
<1> DEFINE D == Deallocs(a, es)
           Upto(n) == {es[k][1] : k \in 1 .. n}
           Sizes(n) == /\ Slots(D[n]) = Slots(a) /\ D[n].next_reserved = a.next_reserved
                       /\ D[n].free.cap = a.free.cap
           Gens(n) == /\ \A i \in Nat : i \notin Upto(n) => Gen(D[n], i) = Gen(a, i)
                      /\ \A i \in Upto(n) : Gen(D[n], i) = Gen(a, i) + 1
           Good(n) == /\ AllocOK(D[n]) /\ Sizes(n) /\ Free(D[n].free) = Free(a.free) \cup Upto(n)
                      /\ Gens(n)
           S == {n \in 0 .. Len(es) : Good(n)}
<1>1. /\ es \in Seq(IssuedHandles) /\ OneEach(es)
      /\ \A k \in 1 .. Len(es) : es[k][1] < a.next_reserved /\ Gen(a, es[k][1]) = es[k][2]
  BY DEF Alive
<1>2. /\ Len(es) \in Nat /\ IndicesOf(es) = Upto(Len(es))
      /\ \A k \in 1 .. Len(es) : /\ es[k][1] \in 0 .. REMOVED - 1 /\ es[k][2] \in 0 .. MaxGen - 1
                                 /\ es[k][1] \in Nat /\ es[k][2] \in Nat
                                 /\ es[k][1] \in IndicesOf(es)
  BY <1>1, IndicesIs
<1>3. D[0] = a /\ \A n \in 1 .. Len(es) : D[n] = Dealloc(D[n - 1], es[n])
  BY <1>2, DeallocsUnfold
<1> HIDE DEF D
<1>4. 0 \in S
  <2>1. Upto(0) = {}
    OBVIOUS
  <2>2. Good(0)
    BY <1>3, <2>1
  <2>3. QED
    BY <1>2, <2>2
<1>5. ASSUME NEW n \in 1 .. Len(es), n - 1 \in S PROVE n \in S
  <2> DEFINE b == D[n - 1]
             e == es[n]
             m == n - 1
             d == Dealloc(b, e)
  <2>1. /\ AllocOK(b) /\ Sizes(m) /\ Free(b.free) = Free(a.free) \cup Upto(m) /\ Gens(m)
    BY <1>5
  <2>2. \A k \in 1 .. m : k \in 1 .. Len(es) /\ k # n
    OBVIOUS
  <2>3. e[1] \notin Upto(m)
    BY <1>1, <2>2 DEF OneEach
  <2>4. Upto(n) = Upto(m) \cup {e[1]}
    <3>1. \A k \in 1 .. n : k = n \/ k \in 1 .. m
      OBVIOUS
    <3>2. n \in 1 .. n /\ \A k \in 1 .. m : k \in 1 .. n
      OBVIOUS
    <3>3. QED
      BY <3>1, <3>2
  <2>5. /\ e[1] \in Nat /\ e[2] \in 0 .. MaxGen - 1 /\ e[1] \notin Free(a.free)
        /\ e[1] < a.next_reserved /\ Gen(a, e[1]) = e[2]
    BY <1>1, <1>2
  <2>6. Gen(b, e[1]) = e[2] /\ e[1] < Slots(b) /\ e[1] \notin Free(b.free)
    BY <2>1, <2>3, <2>5
  <2>7. D[n] = d
    BY <1>3
  <2> HIDE DEF b, e, Upto
  <2>8. IsAlive(b, e)
    BY <2>6 DEF IsAlive, Gen
  <2>a. AllocOK(b)
    BY <2>1
  <2>9. /\ AllocOK(d) /\ Slots(d) = Slots(b) /\ d.next_reserved = b.next_reserved
        /\ Free(d.free) = Free(b.free) \cup {e[1]} /\ d.free.cap = b.free.cap
        /\ Gen(d, e[1]) = e[2] + 1
        /\ \A i \in Nat : i # e[1] => Gen(d, i) = Gen(b, i)
    BY <2>a, <2>5, <2>6, <2>8, DeallocIs
  <2> HIDE DEF d
  <2>10. Sizes(n) /\ AllocOK(D[n])
    BY <2>1, <2>7, <2>9 DEF b
  <2>11. Free(D[n].free) = Free(a.free) \cup Upto(n)
    BY <2>1, <2>4, <2>7, <2>9
  <2>12. Gens(n)
    <3>1. ASSUME NEW i \in Nat, i \notin Upto(n) PROVE Gen(D[n], i) = Gen(a, i)
      BY <2>1, <2>4, <2>7, <2>9, <3>1 DEF b
    <3>2. ASSUME NEW i \in Upto(n) PROVE Gen(D[n], i) = Gen(a, i) + 1
      <4>1. CASE i = e[1]
        BY <2>5, <2>7, <2>9, <4>1
      <4>2. CASE i # e[1]
        <5>1. i \in Upto(m) /\ i \in Nat
          BY <1>2, <2>2, <2>4, <4>2 DEF Upto
        <5>2. QED
          BY <2>1, <2>7, <2>9, <4>2, <5>1 DEF b
      <4>3. QED
        BY <4>1, <4>2
    <3>3. QED
      BY <3>1, <3>2
  <2>13. Good(n)
    BY <2>10, <2>11, <2>12
  <2> HIDE DEF Good
  <2>14. QED
    BY <2>13
<1>6. Good(Len(es))
  <2> HIDE DEF Good
  <2>1. 0 \in S /\ \A n \in 1 .. Len(es) : n - 1 \in S => n \in S
    BY <1>4, <1>5
  <2> HIDE DEF S
  <2>2. \A n \in 0 .. Len(es) : n \in S
    BY <1>2, <2>1, UpTo
  <2>3. QED
    BY <1>2, <2>2 DEF S
<1>7. DeallocAll(a, es) = D[Len(es)]
  BY DEF DeallocAll, D
<1> HIDE DEF Upto
<1>8. QED
  BY <1>2, <1>6, <1>7

-----------------------------------------------------------------------------
(* What replay makes of a log.                                             *)

LEMMA TouchIs ==
  ASSUME NEW recs, NEW n \in Nat, NEW i
  PROVE  LET m == Touch(recs, n, i)
         IN  /\ m \in 0 .. n
             /\ m # 0 => m \in 1 .. n /\ i \in IndicesOf(recs[m].handles)
             /\ \A k \in 1 .. n : i \in IndicesOf(recs[k].handles) => k <= m
<1> DEFINE T == TouchesUpTo(recs, n, i)
<1>1. T = {0} \cup {k \in 1 .. n : i \in IndicesOf(recs[k].handles)}
  BY DEF TouchesUpTo
<1>2. T \subseteq Nat /\ T # {} /\ \A k \in T : k <= n
  BY <1>1
<1> HIDE DEF T
<1>3. Max(T) \in T /\ \A k \in T : k <= Max(T)
  BY <1>2, MaxIs
<1>4. Touch(recs, n, i) = Max(T)
  BY DEF Touch, T
<1>5. QED
  BY <1>1, <1>3, <1>4

LEMMA TouchStep ==
  ASSUME NEW recs, NEW n \in Nat, NEW i
  PROVE  Touch(recs, n + 1, i) = IF i \in IndicesOf(recs[n + 1].handles) THEN n + 1
                                 ELSE Touch(recs, n, i)
<1> DEFINE m == Touch(recs, n, i)
           p == Touch(recs, n + 1, i)
<1>0. n + 1 \in Nat
  OBVIOUS
<1>1. /\ m \in 0 .. n
      /\ m # 0 => m \in 1 .. n /\ i \in IndicesOf(recs[m].handles)
      /\ \A k \in 1 .. n : i \in IndicesOf(recs[k].handles) => k <= m
  BY TouchIs
<1>2. /\ p \in 0 .. n + 1
      /\ p # 0 => p \in 1 .. n + 1 /\ i \in IndicesOf(recs[p].handles)
      /\ \A k \in 1 .. n + 1 : i \in IndicesOf(recs[k].handles) => k <= p
  BY <1>0, TouchIs
<1> HIDE DEF m, p
<1>3. CASE i \in IndicesOf(recs[n + 1].handles)
  <2>1. n + 1 <= p
    BY <1>2, <1>3
  <2>2. p = n + 1
    BY <1>2, <2>1
  <2>3. QED
    BY <1>3, <2>2 DEF p
<1>4. CASE i \notin IndicesOf(recs[n + 1].handles)
  <2>1. p # n + 1
    BY <1>2, <1>4
  <2>2. p \in 0 .. n
    BY <1>2, <2>1
  <2>3. p <= m
    <3>1. CASE p = 0
      BY <1>1, <3>1
    <3>2. CASE p # 0
      <4>1. p \in 1 .. n /\ i \in IndicesOf(recs[p].handles)
        BY <1>2, <2>2, <3>2
      <4>2. QED
        BY <1>1, <4>1
    <3>3. QED
      BY <3>1, <3>2
  <2>4. m <= p
    <3>1. CASE m = 0
      BY <2>2, <3>1
    <3>2. CASE m # 0
      <4>1. m \in 1 .. n + 1 /\ i \in IndicesOf(recs[m].handles)
        BY <1>1, <3>2
      <4>2. QED
        BY <1>2, <4>1
    <3>3. QED
      BY <3>1, <3>2
  <2>5. p = m
    BY <1>1, <2>2, <2>3, <2>4
  <2>6. QED
    BY <1>4, <2>5 DEF p, m
<1>5. QED
  BY <1>3, <1>4

LEMMA AfterStep ==
  ASSUME NEW s, NEW recs, NEW n \in Nat, NEW i
  PROVE  /\ i \in IndicesOf(recs[n + 1].handles) =>
              /\ RowAfter(s, recs, n + 1, i) <=> recs[n + 1].op = "spawn"
              /\ GenAfter(s, recs, n + 1, i) = IF recs[n + 1].op = "spawn" THEN GenIn(recs[n + 1], i)
                                               ELSE GenIn(recs[n + 1], i) + 1
         /\ i \notin IndicesOf(recs[n + 1].handles) =>
              /\ RowAfter(s, recs, n + 1, i) <=> RowAfter(s, recs, n, i)
              /\ GenAfter(s, recs, n + 1, i) = GenAfter(s, recs, n, i)
<1>1. Touch(recs, n + 1, i) = IF i \in IndicesOf(recs[n + 1].handles) THEN n + 1
                              ELSE Touch(recs, n, i)
  BY TouchStep
<1>2. n + 1 # 0
  OBVIOUS
<1>3. CASE i \in IndicesOf(recs[n + 1].handles)
  BY <1>1, <1>2, <1>3 DEF RowAfter, GenAfter
<1>4. CASE i \notin IndicesOf(recs[n + 1].handles)
  BY <1>1, <1>4 DEF RowAfter, GenAfter
<1>5. QED
  BY <1>3, <1>4

LEMMA AfterNone ==
  ASSUME NEW s, NEW recs, NEW i
  PROVE  /\ RowAfter(s, recs, 0, i) <=> i \in BaseRows(s)
         /\ GenAfter(s, recs, 0, i) = Gen(Base(s), i)
<1>1. Touch(recs, 0, i) \in 0 .. 0
  BY TouchIs
<1>2. Touch(recs, 0, i) = 0
  BY <1>1
<1>3. QED
  BY <1>2 DEF RowAfter, GenAfter

(* Only the records replayed count.                                        *)
LEMMA AfterSame ==
  ASSUME NEW s, NEW recs, NEW others, NEW n \in Nat, NEW i,
         \A k \in 1 .. n : others[k] = recs[k]
  PROVE  /\ RowAfter(s, others, n, i) <=> RowAfter(s, recs, n, i)
         /\ GenAfter(s, others, n, i) = GenAfter(s, recs, n, i)
<1>1. TouchesUpTo(others, n, i) = TouchesUpTo(recs, n, i)
  BY DEF TouchesUpTo
<1>2. Touch(others, n, i) = Touch(recs, n, i)
  BY <1>1 DEF Touch
<1>3. Touch(recs, n, i) # 0 => others[Touch(recs, n, i)] = recs[Touch(recs, n, i)]
  BY TouchIs
<1>4. QED
  BY <1>2, <1>3 DEF RowAfter, GenAfter

LEMMA GenInIs ==
  ASSUME NEW r, RecordOK(r), NEW j \in 1 .. Len(r.handles)
  PROVE  GenIn(r, r.handles[j][1]) = r.handles[j][2]
<1> DEFINE i == r.handles[j][1]
           c == CHOOSE k \in 1 .. Len(r.handles) : r.handles[k][1] = i
<1>1. c \in 1 .. Len(r.handles) /\ r.handles[c][1] = i
  OBVIOUS
<1> HIDE DEF c
<1>2. c = j
  BY <1>1 DEF RecordOK, OneEach
<1>3. GenIn(r, i) = r.handles[c][2]
  BY DEF GenIn, c
<1>4. QED
  BY <1>2, <1>3

-----------------------------------------------------------------------------
(* Owners.                                                                 *)

LEMMA OwnedFacts ==
  ASSUME NEW a, AllocOK(a), NEW rows, NEW lost, NEW held, NEW queue,
         Owned(a, rows, lost, held, queue)
  PROVE  /\ queue \in Seq(IssuedHandles) /\ OneEach(queue)
         /\ \A i \in IndicesOf(queue) : i \in 0 .. a.next_reserved - 1 /\ i \in Nat
         /\ \A t \in Txs : /\ held[t] \in Seq(IssuedHandles) /\ OneEach(held[t])
                           /\ \A i \in IndicesOf(held[t]) : i \in 0 .. a.next_reserved - 1 /\ i \in Nat
         /\ rows \subseteq Nat /\ lost \subseteq Nat
<1>1. a.next_reserved \in Nat
  BY AllocFacts
<1>2. ASSUME NEW es, Alive(a, es)
      PROVE  /\ es \in Seq(IssuedHandles) /\ OneEach(es)
             /\ \A i \in IndicesOf(es) : i \in 0 .. a.next_reserved - 1 /\ i \in Nat
  <2>1. /\ es \in Seq(IssuedHandles) /\ OneEach(es)
        /\ \A k \in 1 .. Len(es) : es[k][1] < a.next_reserved
    BY <1>2 DEF Alive
  <2>2. /\ IndicesOf(es) = {es[k][1] : k \in 1 .. Len(es)}
        /\ \A k \in 1 .. Len(es) : es[k][1] \in Nat
    BY <2>1, IndicesIs
  <2>3. QED
    BY <1>1, <2>1, <2>2
<1>3. rows \subseteq Nat /\ lost \subseteq Nat
  BY DEF Owned
<1>4. Alive(a, queue) /\ \A t \in Txs : Alive(a, held[t])
  BY DEF Owned
<1>5. QED
  BY <1>2, <1>3, <1>4

LEMMA OwnedSame ==
  ASSUME NEW a, NEW b, NEW rows, NEW lost, NEW held, NEW queue,
         AllocOK(a), AllocOK(b), Owned(a, rows, lost, held, queue),
         Slots(a) <= Slots(b), b.next_reserved = a.next_reserved, Free(b.free) = Free(a.free),
         \A i \in Nat : Gen(b, i) = Gen(a, i)
  PROVE  Owned(b, rows, lost, held, queue)
<1>1. Alive(b, queue)
  <2>1. Alive(a, queue) /\ \A i \in IndicesOf(queue) : i \in Nat
    BY OwnedFacts DEF Owned
  <2>2. a.next_reserved <= b.next_reserved
    BY AllocFacts
  <2>3. QED
    BY <2>1, <2>2, AliveSame
<1>2. ASSUME NEW t \in Txs PROVE Alive(b, held[t])
  <2>1. Alive(a, held[t]) /\ \A i \in IndicesOf(held[t]) : i \in Nat
    BY OwnedFacts DEF Owned
  <2>2. a.next_reserved <= b.next_reserved
    BY AllocFacts
  <2>3. QED
    BY <2>1, <2>2, AliveSame
<1>3. rows \subseteq 0 .. Slots(b) - 1 /\ lost \subseteq 0 .. Slots(b) - 1
  <2>1. Slots(a) \in Nat /\ Slots(b) \in Nat
    BY AllocFacts
  <2>2. rows \subseteq 0 .. Slots(a) - 1 /\ lost \subseteq 0 .. Slots(a) - 1
    BY DEF Owned
  <2>3. QED
    BY <2>1, <2>2
<1>4. Disjoint(b, rows, lost, held, queue) /\ Covered(b, rows, lost, held, queue)
  BY DEF Owned, Disjoint, Covered
<1>5. QED
  BY <1>1, <1>2, <1>3, <1>4 DEF Owned

(* A slot that was free, or is new, goes to a Tx.                          *)
LEMMA OwnedPlus ==
  ASSUME NEW a, NEW b, NEW rows, NEW lost, NEW held, NEW queue, NEW t \in Txs,
         NEW h \in IssuedHandles,
         AllocOK(a), AllocOK(b), Owned(a, rows, lost, held, queue),
         held \in [Txs -> Seq(IssuedHandles)],
         Slots(a) <= Slots(b), \A i \in Nat : Gen(b, i) = Gen(a, i), Gen(a, h[1]) = h[2],
         Free(b.free) = Free(a.free) \ {h[1]},
         \/ h[1] \in Free(a.free) /\ b.next_reserved = a.next_reserved
         \/ h[1] = a.next_reserved /\ b.next_reserved = a.next_reserved + 1
  PROVE  LET given == [held EXCEPT ![t] = Append(@, h)]
         IN  given \in [Txs -> Seq(IssuedHandles)] /\ Owned(b, rows, lost, given, queue)
<1> DEFINE given == [held EXCEPT ![t] = Append(@, h)]
           n == h[1]
<1>1. /\ a.next_reserved \in Nat /\ b.next_reserved \in Nat /\ Slots(a) \in Nat /\ Slots(b) \in Nat
      /\ Slots(a) <= a.next_reserved /\ Free(a.free) \subseteq 0 .. Slots(a) - 1 /\ n \in Nat
  <2>1. /\ a.next_reserved \in Nat /\ b.next_reserved \in Nat /\ Slots(a) \in Nat /\ Slots(b) \in Nat
    BY AllocFacts
  <2>2. n \in Nat
    BY FreeListAssumption DEF IssuedHandles, Indices
  <2>3. QED
    BY <2>1, <2>2 DEF AllocOK
<1>2. a.next_reserved <= b.next_reserved /\ n < b.next_reserved
  BY <1>1
<1>3. /\ queue \in Seq(IssuedHandles) /\ OneEach(queue)
      /\ \A i \in IndicesOf(queue) : i \in 0 .. a.next_reserved - 1 /\ i \in Nat
      /\ \A u \in Txs : /\ held[u] \in Seq(IssuedHandles) /\ OneEach(held[u])
                        /\ \A i \in IndicesOf(held[u]) : i \in 0 .. a.next_reserved - 1 /\ i \in Nat
  BY OwnedFacts
<1>4. /\ rows \subseteq 0 .. Slots(a) - 1 /\ lost \subseteq 0 .. Slots(a) - 1
      /\ Alive(a, queue) /\ \A u \in Txs : Alive(a, held[u])
      /\ Disjoint(a, rows, lost, held, queue) /\ Covered(a, rows, lost, held, queue)
  BY DEF Owned
<1>5. /\ n \notin IndicesOf(queue) /\ n \notin rows /\ n \notin lost
      /\ \A u \in Txs : n \notin IndicesOf(held[u])
  <2>1. CASE n \in Free(a.free)
    BY <1>4, <2>1 DEF Disjoint
  <2>2. CASE n = a.next_reserved
    BY <1>1, <1>3, <1>4, <2>2
  <2>3. QED
    BY <2>1, <2>2
<1>6. /\ given[t] = Append(held[t], h) /\ \A u \in Txs : u # t => given[u] = held[u]
  OBVIOUS
<1>7. /\ given[t] \in Seq(IssuedHandles) /\ OneEach(given[t])
      /\ IndicesOf(given[t]) = IndicesOf(held[t]) \cup {n}
  BY <1>3, <1>5, <1>6, AppendHandle
<1>8. given \in [Txs -> Seq(IssuedHandles)]
  BY <1>7
<1> HIDE DEF given
<1>9. Alive(b, queue) /\ \A u \in Txs : Alive(b, held[u])
  BY <1>2, <1>3, <1>4, AliveSame
<1>10. Alive(b, given[t])
  <2> DEFINE es == held[t]
             fs == given[t]
  <2>1. es \in Seq(IssuedHandles) /\ fs = Append(es, h)
    BY <1>3, <1>6
  <2>2. /\ Len(es) \in Nat /\ Len(fs) = Len(es) + 1 /\ fs[Len(es) + 1] = h
        /\ \A k \in 1 .. Len(es) : fs[k] = es[k]
    BY <2>1, AppendIs
  <2>3. \A k \in 1 .. Len(es) : es[k][1] < b.next_reserved /\ Gen(b, es[k][1]) = es[k][2]
    BY <1>9 DEF Alive
  <2>4. h[1] < b.next_reserved /\ Gen(b, h[1]) = h[2]
    BY <1>1, <1>2
  <2> HIDE DEF es, fs
  <2>5. \A k \in 1 .. Len(fs) : fs[k][1] < b.next_reserved /\ Gen(b, fs[k][1]) = fs[k][2]
    BY <2>2, <2>3, <2>4
  <2>6. QED
    BY <1>7, <2>5 DEF Alive, fs
<1>11. Disjoint(b, rows, lost, given, queue)
  <2>1. \A u \in Txs : \A i \in IndicesOf(given[u]) : i \in IndicesOf(held[u]) \/ (i = n /\ u = t)
    BY <1>6, <1>7
  <2>2. QED
    BY <1>4, <1>5, <2>1 DEF Disjoint
<1>12. Covered(b, rows, lost, given, queue)
  <2>1. \A u \in Txs : \A i \in IndicesOf(held[u]) : i \in IndicesOf(given[u])
    BY <1>6, <1>7
  <2>2. n \in IndicesOf(given[t])
    BY <1>7
  <2>3. \A i \in 0 .. b.next_reserved - 1 : i \in 0 .. a.next_reserved - 1 \/ i = n
    BY <1>1
  <2>4. QED
    BY <1>4, <2>1, <2>2, <2>3 DEF Covered
<1>13. rows \subseteq 0 .. Slots(b) - 1 /\ lost \subseteq 0 .. Slots(b) - 1
  BY <1>1, <1>4
<1>14. \A u \in Txs : Alive(b, given[u])
  BY <1>6, <1>9, <1>10
<1>15. QED
  BY <1>8, <1>9, <1>11, <1>12, <1>13, <1>14 DEF Owned, given

(* The handles a Tx drops are queued.                                      *)
LEMMA OwnedQueue ==
  ASSUME NEW a, NEW rows, NEW lost, NEW held, NEW queue, NEW t \in Txs,
         AllocOK(a), Owned(a, rows, lost, held, queue), held \in [Txs -> Seq(IssuedHandles)]
  PROVE  LET given == [held EXCEPT ![t] = <<>>]
         IN  /\ given \in [Txs -> Seq(IssuedHandles)]
             /\ Owned(a, rows, lost, given, queue \o held[t])
<1> DEFINE given == [held EXCEPT ![t] = <<>>]
           joined == queue \o held[t]
<1>1. /\ rows \subseteq 0 .. Slots(a) - 1 /\ lost \subseteq 0 .. Slots(a) - 1
      /\ Alive(a, queue) /\ \A u \in Txs : Alive(a, held[u])
      /\ Disjoint(a, rows, lost, held, queue) /\ Covered(a, rows, lost, held, queue)
  BY DEF Owned
<1>2. /\ queue \in Seq(IssuedHandles) /\ OneEach(queue)
      /\ \A u \in Txs : held[u] \in Seq(IssuedHandles) /\ OneEach(held[u])
  BY OwnedFacts
<1>3. \A i \in IndicesOf(queue) : i \notin IndicesOf(held[t])
  BY <1>1 DEF Disjoint
<1>4. /\ joined \in Seq(IssuedHandles) /\ OneEach(joined)
      /\ IndicesOf(joined) = IndicesOf(queue) \cup IndicesOf(held[t])
      /\ \A k \in 1 .. Len(joined) : \/ \E j \in 1 .. Len(queue) : joined[k] = queue[j]
                                     \/ \E j \in 1 .. Len(held[t]) : joined[k] = held[t][j]
  BY <1>2, <1>3, ConcatHandles
<1>5. given[t] = <<>> /\ \A u \in Txs : u # t => given[u] = held[u]
  OBVIOUS
<1>6. given \in [Txs -> Seq(IssuedHandles)]
  BY NoIndices
<1> HIDE DEF given, joined
<1>7. Alive(a, joined)
  BY <1>1, <1>4 DEF Alive
<1>8. \A u \in Txs : Alive(a, given[u])
  BY <1>1, <1>5, EmptyAlive
<1>9. /\ IndicesOf(given[t]) = {} /\ \A u \in Txs : u # t => IndicesOf(given[u]) = IndicesOf(held[u])
  BY <1>5, NoIndices
<1>10. Disjoint(a, rows, lost, given, joined)
  BY <1>1, <1>4, <1>9 DEF Disjoint
<1>11. Covered(a, rows, lost, given, joined)
  BY <1>1, <1>4, <1>9 DEF Covered
<1>12. QED
  BY <1>1, <1>6, <1>7, <1>8, <1>10, <1>11 DEF Owned, given, joined

(* The handles a Tx commits become rows.                                   *)
LEMMA OwnedRows ==
  ASSUME NEW a, NEW rows, NEW lost, NEW held, NEW queue, NEW t \in Txs,
         AllocOK(a), Owned(a, rows, lost, held, queue), held \in [Txs -> Seq(IssuedHandles)],
         Slots(a) = a.next_reserved
  PROVE  LET given == [held EXCEPT ![t] = <<>>]
         IN  /\ given \in [Txs -> Seq(IssuedHandles)]
             /\ Owned(a, rows \cup IndicesOf(held[t]), lost, given, queue)
<1> DEFINE given == [held EXCEPT ![t] = <<>>]
           more == rows \cup IndicesOf(held[t])
<1>1. /\ rows \subseteq 0 .. Slots(a) - 1 /\ lost \subseteq 0 .. Slots(a) - 1
      /\ Alive(a, queue) /\ \A u \in Txs : Alive(a, held[u])
      /\ Disjoint(a, rows, lost, held, queue) /\ Covered(a, rows, lost, held, queue)
  BY DEF Owned
<1>2. \A i \in IndicesOf(held[t]) : i \in 0 .. a.next_reserved - 1
  BY OwnedFacts
<1>3. given[t] = <<>> /\ \A u \in Txs : u # t => given[u] = held[u]
  OBVIOUS
<1>4. given \in [Txs -> Seq(IssuedHandles)]
  BY NoIndices
<1>5. more \subseteq 0 .. Slots(a) - 1
  BY <1>1, <1>2
<1> HIDE DEF given
<1>6. \A u \in Txs : Alive(a, given[u])
  BY <1>1, <1>3, EmptyAlive
<1>7. /\ IndicesOf(given[t]) = {} /\ \A u \in Txs : u # t => IndicesOf(given[u]) = IndicesOf(held[u])
  BY <1>3, NoIndices
<1>8. Disjoint(a, more, lost, given, queue)
  BY <1>1, <1>7 DEF Disjoint
<1>9. Covered(a, more, lost, given, queue)
  BY <1>1, <1>7 DEF Covered
<1> HIDE DEF more
<1>10. QED
  BY <1>1, <1>4, <1>5, <1>6, <1>8, <1>9 DEF Owned, given, more

(* Slots of the queue, or of a row, are freed.                             *)
LEMMA OwnedFreed ==
  ASSUME NEW a, NEW b, NEW rows, NEW lost, NEW held, NEW queue, NEW F, NEW rest, NEW left,
         AllocOK(a), AllocOK(b), Owned(a, rows, lost, held, queue),
         Slots(b) = Slots(a), b.next_reserved = a.next_reserved,
         Free(b.free) = Free(a.free) \cup F,
         \A i \in Nat : i \notin F => Gen(b, i) = Gen(a, i),
         \/ F = IndicesOf(queue) /\ rest = rows /\ left = <<>>
         \/ F \subseteq rows /\ rest = rows \ F /\ left = queue
  PROVE  Owned(b, rest, lost, held, left)
<1>1. /\ rows \subseteq 0 .. Slots(a) - 1 /\ lost \subseteq 0 .. Slots(a) - 1
      /\ Alive(a, queue) /\ \A u \in Txs : Alive(a, held[u])
      /\ Disjoint(a, rows, lost, held, queue) /\ Covered(a, rows, lost, held, queue)
  BY DEF Owned
<1>2. /\ \A i \in IndicesOf(queue) : i \in Nat
      /\ \A u \in Txs : \A i \in IndicesOf(held[u]) : i \in Nat
      /\ a.next_reserved <= b.next_reserved
  BY OwnedFacts, AllocFacts
<1>3. \A u \in Txs : \A i \in IndicesOf(held[u]) : i \notin F
  BY <1>1 DEF Disjoint
<1>4. \A u \in Txs : Alive(b, held[u])
  BY <1>1, <1>2, <1>3, AliveSame
<1>5. Alive(b, left)
  <2>1. CASE left = <<>>
    BY <2>1, EmptyAlive
  <2>2. CASE F \subseteq rows /\ left = queue
    <3>1. \A i \in IndicesOf(queue) : i \notin F
      BY <1>1, <2>2 DEF Disjoint
    <3>2. QED
      BY <1>1, <1>2, <2>2, <3>1, AliveSame
  <2>3. QED
    BY <2>1, <2>2
<1>6. rest \subseteq rows
  OBVIOUS
<1>7. IndicesOf(left) \subseteq IndicesOf(queue) /\ \A i \in IndicesOf(left) : i \notin F
  BY <1>1, NoIndices DEF Disjoint
<1>8. \A i \in rest : i \notin F
  BY <1>1 DEF Disjoint
<1>9. \A i \in lost : i \notin F
  BY <1>1 DEF Disjoint
<1>10. Disjoint(b, rest, lost, held, left)
  BY <1>1, <1>3, <1>6, <1>7, <1>8, <1>9 DEF Disjoint
<1>11. Covered(b, rest, lost, held, left)
  <2>1. \A i \in rows : i \in rest \/ i \in F
    OBVIOUS
  <2>2. \A i \in IndicesOf(queue) : i \in IndicesOf(left) \/ i \in F
    OBVIOUS
  <2>3. QED
    BY <1>1, <2>1, <2>2 DEF Covered
<1>12. QED
  BY <1>1, <1>4, <1>5, <1>6, <1>10, <1>11 DEF Owned

(* A stale handle stays stale as generations rise.                         *)
LEMMA StaleStays ==
  ASSUME NEW a, NEW b, AllocOK(a), AllocOK(b), NEW x \in IssuedHandles, Stale(a, x),
         a.next_reserved <= b.next_reserved, Gen(a, x[1]) <= Gen(b, x[1]),
         x[1] \in Free(b.free) => x[1] \in Free(a.free) \/ Gen(a, x[1]) < Gen(b, x[1])
  PROVE  Stale(b, x)
<1>1. x[1] \in Nat /\ x[2] \in Nat
  BY FreeListAssumption, EntityAllocatorAssumption DEF IssuedHandles, Indices
<1>2. /\ a.next_reserved \in Nat /\ b.next_reserved \in Nat /\ MaxGen \in Nat
      /\ Gen(a, x[1]) \in 0 .. MaxGen /\ Gen(b, x[1]) \in 0 .. MaxGen
  BY <1>1, AllocFacts
<1>3. QED
  BY <1>1, <1>2 DEF Stale

-----------------------------------------------------------------------------
(* The steps, one lemma each.                                              *)

LEMMA DiskKept ==
  ASSUME SavedInv, LogInv, UNCHANGED <<saved, log, replay>>
  PROVE  /\ SavedInv' /\ LogInv' /\ Done' = Done /\ (Running' <=> Running)
         /\ \A n, e : Spawns(n, e)' <=> Spawns(n, e)
<1>1. Done' = Done /\ (Running' <=> Running)
  BY DEF Done, Running
<1>2. SavedInv'
  BY DEF SavedInv
<1>3. LogInv'
  BY <1>1 DEF LogInv
<1>4. \A n, e : Spawns(n, e)' <=> Spawns(n, e)
  BY DEF Spawns
<1>5. QED
  BY <1>1, <1>2, <1>3, <1>4

LEMMA FreshKept ==
  ASSUME SavedInv, LogInv, FreshInv, UNCHANGED <<saved, log, replay, rejected, committed>>,
         \A e \in issued' : e \in issued \/ Stale(al', e),
         \A e \in IssuedHandles : Stale(al, e) => Stale(al', e), TypesInv,
         \A e \in committed : e[1] < Slots(al) => e[1] < Slots(al')
  PROVE  FreshInv'
<1>1. Done' = Done /\ (Running' <=> Running) /\ \A n, e : Spawns(n, e)' <=> Spawns(n, e)
  BY DiskKept
<1>2. ASSUME NEW e \in committed'
      PROVE  Stale(Base(saved'), e) \/ \E n \in 1 .. Len(log') : Spawns(n, e)'
  BY <1>1 DEF FreshInv
<1>3. ASSUME ~rejected', NEW e \in issued' \cup committed'
      PROVE  Stale(al', e) \/ \E n \in Done' + 1 .. Len(log') : Spawns(n, e)'
  BY <1>1, <1>3 DEF FreshInv, TypesInv
<1>4. ASSUME Running', NEW e \in committed' PROVE e[1] < Slots(al')
  BY <1>1, <1>4 DEF FreshInv
<1>5. QED
  BY <1>2, <1>3, <1>4 DEF FreshInv

LEMMA ReplayKept ==
  ASSUME SavedInv, LogInv, ReplayInv, Running,
         UNCHANGED <<saved, log, replay, rejected, placed>>,
         AllocOK(al), AllocOK(al'),
         \A i \in Indices : Gen(al, i) <= Gen(al', i) /\ (i \in placed => Gen(al', i) = Gen(al, i)),
         \A i \in Indices : GenAfter(saved, log, Done, i) \in Nat
  PROVE  ReplayInv'
<1>1. Done' = Done /\ Running'
  BY DiskKept
<1> SUFFICES ASSUME ~rejected', NEW i \in Indices
             PROVE  /\ i \in placed' <=> RowAfter(saved', log', Done', i)
                    /\ GenAfter(saved', log', Done', i) <= Gen(al', i)
                    /\ i \in placed' \/ ~Running' => GenAfter(saved', log', Done', i) = Gen(al', i)
  BY <1>1 DEF ReplayInv
<1>2. /\ i \in placed <=> RowAfter(saved, log, Done, i)
      /\ GenAfter(saved, log, Done, i) <= Gen(al, i)
      /\ i \in placed \/ ~Running => GenAfter(saved, log, Done, i) = Gen(al, i)
  BY DEF ReplayInv
<1>3. i \in Nat
  BY FreeListAssumption DEF Indices
<1>4. MaxGen \in Nat /\ Gen(al, i) \in 0 .. MaxGen /\ Gen(al', i) \in 0 .. MaxGen
  BY <1>3, AllocFacts
<1>5. QED
  BY <1>1, <1>2, <1>4

(* What replay makes of a slot is a generation.                            *)
LEMMA GenAfterType ==
  ASSUME SavedInv, LogInv, NEW n \in 0 .. Len(log), NEW i \in Indices
  PROVE  GenAfter(saved, log, n, i) \in Nat
<1>1. i \in Nat /\ MaxGen \in Nat
  BY FreeListAssumption, EntityAllocatorAssumption DEF Indices
<1> DEFINE m == Touch(log, n, i)
<1>2. /\ m \in 0 .. n
      /\ m # 0 => m \in 1 .. n /\ i \in IndicesOf(log[m].handles)
  BY TouchIs
<1>3. GenAfter(saved, log, n, i) = IF m = 0 THEN Gen(Base(saved), i)
                                   ELSE IF log[m].op = "spawn" THEN GenIn(log[m], i)
                                   ELSE GenIn(log[m], i) + 1
  BY DEF GenAfter
<1> HIDE DEF m
<1>4. CASE m = 0
  <2>1. Gen(Base(saved), i) \in 0 .. MaxGen
    BY <1>1, AllocFacts DEF SavedInv
  <2>2. QED
    BY <1>1, <1>3, <1>4, <2>1
<1>5. CASE m # 0
  <2> DEFINE r == log[m]
  <2>1. RecordOK(r) /\ i \in IndicesOf(r.handles)
    BY <1>2, <1>5 DEF LogInv
  <2> HIDE DEF r
  <2>2. r.handles \in Seq(IssuedHandles)
    BY <2>1 DEF RecordOK
  <2>3. PICK j \in 1 .. Len(r.handles) : i = r.handles[j][1] /\ r.handles[j][2] \in Nat
    <3>1. /\ IndicesOf(r.handles) = {r.handles[k][1] : k \in 1 .. Len(r.handles)}
          /\ \A k \in 1 .. Len(r.handles) : r.handles[k] \in IssuedHandles
          /\ \A e \in IssuedHandles : e[2] \in Nat
      BY <2>2, IndicesIs
    <3>2. QED
      BY <2>1, <3>1
  <2>4. GenIn(r, i) \in Nat
    BY <2>1, <2>3, GenInIs
  <2>5. QED
    BY <1>3, <1>5, <2>4 DEF r
<1>6. QED
  BY <1>4, <1>5

LEMMA DoneIs ==
  ASSUME LogInv
  PROVE  /\ Done \in 0 .. Len(log) /\ Len(log) \in Nat
         /\ Running => Done = Len(log)
  BY DEF LogInv, Done, Running

LEMMA ReserveLoadKeeps ==
  ASSUME IInv, NEW t \in Txs, ReserveLoad(t)
  PROVE  IInv'
<1> USE DEF IInv
<1>1. /\ UNCHANGED <<al, placed, issued, leaked, committed, allocated, dropStage, orphans, has_items,
                     stage, saved, saves, log, replay, rejected>>
      /\ Running /\ stage = "idle"
      /\ al.next_reserved < REMOVED /\ loaded' = [loaded EXCEPT ![t] = al.next_reserved]
  BY DEF ReserveLoad, worldVars, queueVars, diskVars, recoveryVars, NoMutBorrow
<1>2. SavedInv' /\ LogInv' /\ Done' = Done /\ (Running' <=> Running)
  BY <1>1, DiskKept
<1>3. FreshInv'
  BY <1>1, FreshKept
<1>4. ReplayInv' /\ QuiescentReplayAccepted'
  BY <1>1, <1>2 DEF ReplayInv, QuiescentReplayAccepted
<1>5. TypesInv'
  <2>1. al.next_reserved \in Indices
    <3>1. al.next_reserved \in 0 .. REMOVED /\ REMOVED \in Nat
      BY FreeListAssumption DEF AllocOK
    <3>2. QED
      BY <1>1, <3>1 DEF Indices
  <2>2. loaded' \in [Txs -> Indices \cup {None}]
    BY <1>1, <2>1 DEF TypesInv
  <2>3. QED
    BY <1>1, <2>2 DEF TypesInv
<1>6. StageInv'
  BY <1>1, <1>2 DEF StageInv
<1>7. QED
  BY <1>1, <1>2, <1>3, <1>4, <1>5, <1>6

LEMMA ReserveCasKeeps ==
  ASSUME IInv, NEW t \in Txs, ReserveCas(t)
  PROVE  IInv'
<1> DEFINE n == al.next_reserved
           h == <<n, 0>>
<1>1. /\ UNCHANGED <<placed, leaked, committed, dropStage, orphans, has_items, stage,
                     saved, saves, log, replay, rejected>>
      /\ loaded[t] # None
  BY DEF ReserveCas, queueVars, diskVars, recoveryVars
<1>2. /\ AllocOK(al) /\ Owned(al, placed, leaked, allocated, orphans) /\ TypesInv /\ StageInv
      /\ SavedInv /\ LogInv /\ FreshInv /\ ReplayInv /\ QuiescentReplayAccepted
  BY DEF IInv
<1>3. Running /\ stage = "idle"
  BY <1>1, <1>2 DEF StageInv
<1>4. SavedInv' /\ LogInv' /\ Done' = Done /\ Running'
  BY <1>1, <1>2, <1>3, DiskKept
<1>5. /\ n \in Nat /\ REMOVED \in Nat /\ MaxGen \in Nat \ {0} /\ n <= REMOVED /\ Slots(al) \in Nat
      /\ Slots(al) <= n
  BY <1>2, FreeListAssumption, EntityAllocatorAssumption, AllocFacts DEF AllocOK
<1>6. \A i \in Indices : GenAfter(saved, log, Done, i) \in Nat
  BY <1>2, DoneIs, GenAfterType
<1>7. CASE ~CasSucceeds(t)
  <2>1. /\ UNCHANGED <<al, allocated, issued>>
        /\ loaded' = [loaded EXCEPT ![t] = IF n < REMOVED THEN n ELSE None]
    BY <1>7 DEF ReserveCas
  <2>2. FreshInv'
    BY <1>1, <1>2, <2>1, FreshKept
  <2>3. ReplayInv' /\ QuiescentReplayAccepted'
    BY <1>1, <1>2, <1>3, <1>4, <2>1 DEF ReplayInv, QuiescentReplayAccepted
  <2>4. TypesInv'
    <3>1. (IF n < REMOVED THEN n ELSE None) \in Indices \cup {None}
      BY <1>5 DEF Indices
    <3>2. loaded' \in [Txs -> Indices \cup {None}]
      BY <1>2, <2>1, <3>1 DEF TypesInv
    <3>3. QED
      BY <1>1, <1>2, <2>1, <3>2 DEF TypesInv
  <2>5. StageInv'
    BY <1>1, <1>2, <1>3, <1>4, <2>1 DEF StageInv
  <2>6. QED
    BY <1>1, <1>2, <1>4, <2>1, <2>2, <2>3, <2>4, <2>5 DEF IInv
<1>8. CASE CasSucceeds(t)
  <2>1. loaded[t] = n /\ n \in Indices
    BY <1>1, <1>2, <1>8 DEF CasSucceeds, TypesInv
  <2>2. /\ al' = [al EXCEPT !.next_reserved = n + 1]
        /\ allocated' = [allocated EXCEPT ![t] = Append(allocated[t], h)]
        /\ issued' = issued \cup {h}
        /\ loaded' = [loaded EXCEPT ![t] = None]
    BY <1>8, <2>1 DEF ReserveCas
  <2>3. /\ DOMAIN al' = AllocatorFields /\ al'.generations = al.generations
        /\ al'.free = al.free /\ al'.next_reserved = n + 1
    BY <1>2, <2>2 DEF AllocOK, AllocatorFields
  <2>4. Slots(al') = Slots(al) /\ \A i : Gen(al', i) = Gen(al, i)
    BY <2>3 DEF Slots, Gen, GenOf
  <2>5. n + 1 \in 0 .. REMOVED /\ n < n + 1
    BY <1>5, <2>1 DEF Indices
  <2>6. AllocOK(al')
    BY <1>2, <1>5, <2>3, <2>4, <2>5 DEF AllocOK
  <2>7. /\ h \in IssuedHandles /\ h[1] = n /\ h[2] = 0 /\ Gen(al, n) = 0 /\ n \notin Free(al.free)
    <3>1. 0 \in 0 .. MaxGen - 1
      BY <1>5
    <3>2. Free(al.free) \subseteq 0 .. Slots(al) - 1
      BY <1>2 DEF AllocOK
    <3>3. QED
      BY <1>5, <2>1, <3>1, <3>2 DEF IssuedHandles, Gen
  <2> HIDE DEF h
  <2>15. /\ allocated' \in [Txs -> Seq(IssuedHandles)]
         /\ Owned(al', placed', leaked', allocated', orphans')
    <3>1. Free(al'.free) = Free(al.free) \ {h[1]} /\ Slots(al) <= Slots(al')
      BY <1>5, <2>3, <2>4, <2>7
    <3>2. allocated \in [Txs -> Seq(IssuedHandles)]
      BY <1>2 DEF TypesInv
    <3>3. Gen(al, h[1]) = h[2] /\ h[1] = al.next_reserved /\ al'.next_reserved = al.next_reserved + 1
      BY <2>3, <2>7
    <3>4. LET given == [allocated EXCEPT ![t] = Append(@, h)]
          IN  given \in [Txs -> Seq(IssuedHandles)] /\ Owned(al', placed, leaked, given, orphans)
      BY <1>2, <2>4, <2>6, <2>7, <3>1, <3>2, <3>3, OwnedPlus, ZenonT(40)
    <3>5. QED
      BY <1>1, <2>2, <3>4
  <2>16. TypesInv'
    <3>1. loaded' \in [Txs -> Indices \cup {None}]
      BY <1>2, <2>2 DEF TypesInv
    <3>2. QED
      BY <1>1, <1>2, <2>2, <2>7, <2>15, <3>1 DEF TypesInv
  <2>17. StageInv'
    BY <1>1, <1>2, <1>3, <1>4, <2>2 DEF StageInv, TypesInv
  <2>18. FreshInv'
    <3>1. ASSUME NEW e \in IssuedHandles, Stale(al, e) PROVE Stale(al', e)
      <4>1. e \in IssuedHandles /\ al.next_reserved <= al'.next_reserved
        BY <1>5, <2>3
      <4>2. e[1] \in Nat /\ MaxGen \in Nat /\ Gen(al, e[1]) \in 0 .. MaxGen
        BY <1>2, <1>5, <4>1, AllocFacts DEF IssuedHandles, Indices
      <4>3. Gen(al, e[1]) <= Gen(al', e[1])
        BY <2>4, <4>2
      <4>4. QED
        BY <1>2, <2>3, <2>6, <3>1, <4>1, <4>3, StaleStays
    <3>2. Stale(al', h)
      BY <2>3, <2>4, <2>5, <2>7 DEF Stale
    <3>3. QED
      BY <1>1, <1>2, <2>2, <2>4, <3>1, <3>2, FreshKept
  <2>19. ReplayInv'
    <3>1. \A i \in Indices : Gen(al, i) \in Nat
      BY <1>2, <1>5, AllocFacts DEF Indices
    <3>2. \A i \in Indices : Gen(al, i) <= Gen(al', i) /\ (i \in placed => Gen(al', i) = Gen(al, i))
      BY <2>4, <3>1
    <3>3. QED
      BY <1>1, <1>2, <1>3, <1>6, <2>6, <3>2, ReplayKept
  <2>20. QuiescentReplayAccepted'
    BY <1>1, <1>2 DEF QuiescentReplayAccepted
  <2>21. QED
    BY <1>4, <2>6, <2>15, <2>16, <2>17, <2>18, <2>19, <2>20 DEF IInv
<1>9. QED
  BY <1>7, <1>8

LEMMA EnterWorldKeeps ==
  ASSUME IInv, EnterWorld
  PROVE  IInv'
<1>1. /\ UNCHANGED <<placed, issued, leaked, committed, allocated, loaded, dropStage, orphans,
                     has_items, saved, saves, log, replay, rejected>>
      /\ Running /\ stage' = "check" /\ al' = Materialize(al) /\ \A t \in Txs : loaded[t] = None
  BY DEF EnterWorld, txVars, queueVars, diskVars, recoveryVars, NoSharedBorrow
<1>2. /\ AllocOK(al) /\ Owned(al, placed, leaked, allocated, orphans) /\ TypesInv /\ StageInv
      /\ SavedInv /\ LogInv /\ FreshInv /\ ReplayInv /\ QuiescentReplayAccepted
  BY DEF IInv
<1>3. SavedInv' /\ LogInv' /\ Done' = Done /\ Running'
  BY <1>1, <1>2, DiskKept
<1>4. /\ AllocOK(al') /\ Slots(al') = al.next_reserved /\ al'.next_reserved = al.next_reserved
      /\ Free(al'.free) = Free(al.free) /\ \A i \in Nat : Gen(al', i) = Gen(al, i)
  BY <1>1, <1>2, MaterializeIs
<1>5. /\ Slots(al) \in Nat /\ al.next_reserved \in Nat /\ Slots(al) <= al.next_reserved
      /\ REMOVED \in Nat /\ MaxGen \in Nat /\ \A i \in Nat : Gen(al, i) \in 0 .. MaxGen
  BY <1>2, AllocFacts DEF AllocOK
<1>6. Owned(al', placed', leaked', allocated', orphans')
  <2>1. Slots(al) <= Slots(al')
    BY <1>4, <1>5
  <2>2. Owned(al', placed, leaked, allocated, orphans)
    BY <1>2, <1>4, <2>1, OwnedSame
  <2>3. QED
    BY <1>1, <2>2
<1>7. TypesInv'
  BY <1>1, <1>2 DEF TypesInv, CallStages
<1>8. StageInv'
  BY <1>1, <1>2, <1>3, <1>4 DEF StageInv
<1>9. FreshInv'
  <2>1. ASSUME NEW e \in IssuedHandles
        PROVE  e[1] \in Nat
    BY HandleIs
  <2>2. ASSUME NEW e \in IssuedHandles, Stale(al, e) PROVE Stale(al', e)
    <3>1. Gen(al, e[1]) <= Gen(al', e[1]) /\ al.next_reserved <= al'.next_reserved
      BY <1>4, <1>5, <2>1
    <3>2. QED
      BY <1>2, <1>4, <2>1, <2>2, <3>1, StaleStays
  <2>3. ASSUME NEW e \in committed, e[1] < Slots(al) PROVE e[1] < Slots(al')
    <3>1. e \in IssuedHandles
      BY <1>2 DEF TypesInv
    <3>2. e[1] \in Nat
      BY <2>1, <3>1
    <3>3. QED
      BY <1>4, <1>5, <2>3, <3>2
  <2>4. QED
    BY <1>1, <1>2, <2>2, <2>3, FreshKept
<1>10. ReplayInv'
  <2>1. \A i \in Indices : GenAfter(saved, log, Done, i) \in Nat
    BY <1>2, DoneIs, GenAfterType
  <2>2. \A i \in Indices : Gen(al, i) <= Gen(al', i) /\ (i \in placed => Gen(al', i) = Gen(al, i))
    BY <1>4, <1>5 DEF Indices
  <2>3. QED
    BY <1>1, <1>2, <1>4, <2>1, <2>2, ReplayKept
<1>11. QuiescentReplayAccepted'
  BY <1>1, <1>2 DEF QuiescentReplayAccepted
<1>12. QED
  BY <1>3, <1>4, <1>6, <1>7, <1>8, <1>9, <1>10, <1>11 DEF IInv

(* Steps that leave the allocator, the rows and the disk alone.            *)
LEMMA WorldKept ==
  ASSUME IInv, UNCHANGED <<al, placed, issued, leaked, committed, saved, saves, log, replay, rejected>>
  PROVE  /\ AllocOK(al') /\ SavedInv' /\ LogInv' /\ FreshInv' /\ ReplayInv' /\ QuiescentReplayAccepted'
         /\ (Running' <=> Running)
<1>1. /\ AllocOK(al) /\ TypesInv /\ SavedInv /\ LogInv /\ FreshInv /\ ReplayInv
      /\ QuiescentReplayAccepted
  BY DEF IInv
<1>2. SavedInv' /\ LogInv' /\ Done' = Done /\ (Running' <=> Running)
  BY <1>1, DiskKept
<1>3. FreshInv'
  BY <1>1, FreshKept
<1>4. ReplayInv' /\ QuiescentReplayAccepted'
  BY <1>1, <1>2 DEF ReplayInv, QuiescentReplayAccepted
<1>5. QED
  BY <1>1, <1>2, <1>3, <1>4

LEMMA CallStepsKeep ==
  ASSUME IInv, CheckFlag \/ ClearFlag \/ OtherCall
  PROVE  IInv'
<1>1. /\ UNCHANGED <<al, placed, issued, leaked, committed, allocated, loaded, dropStage, orphans,
                     saved, saves, log, replay, rejected>>
      /\ stage # "idle" /\ stage' \in {"locked", "op", "idle"} /\ has_items' \in {has_items, FALSE}
      /\ has_items' # has_items => stage = "clear"
  BY DEF CheckFlag, ClearFlag, OtherCall, worldVars, txVars, queueVars, diskVars, recoveryVars
<1>2. Owned(al, placed, leaked, allocated, orphans) /\ TypesInv /\ StageInv
  BY DEF IInv
<1>3. /\ AllocOK(al') /\ SavedInv' /\ LogInv' /\ FreshInv' /\ ReplayInv' /\ QuiescentReplayAccepted'
      /\ (Running' <=> Running)
  BY <1>1, WorldKept
<1>4. TypesInv'
  BY <1>1, <1>2 DEF TypesInv, CallStages
<1>5. StageInv'
  BY <1>1, <1>2, <1>3 DEF StageInv
<1>6. QED
  BY <1>1, <1>2, <1>3, <1>4, <1>5 DEF IInv

LEMMA DropStepKeeps ==
  ASSUME IInv, NEW t \in Txs, DropStep(t)
  PROVE  IInv'
<1>1. UNCHANGED <<al, placed, issued, leaked, committed, loaded, stage, saved, saves, log, replay, rejected>>
  BY DEF DropStep, worldVars, diskVars, recoveryVars
<1>2. /\ AllocOK(al) /\ Owned(al, placed, leaked, allocated, orphans) /\ TypesInv /\ StageInv
      /\ dropStage \in [Txs -> {0, 1}] /\ allocated \in [Txs -> Seq(IssuedHandles)]
  BY DEF IInv, TypesInv
<1>3. /\ AllocOK(al') /\ SavedInv' /\ LogInv' /\ FreshInv' /\ ReplayInv' /\ QuiescentReplayAccepted'
      /\ (Running' <=> Running)
  BY <1>1, WorldKept
<1>4. CASE dropStage[t] = 0
  <2>1. DropOrder[dropStage[t] + 1] = "push"
    BY <1>4 DEF DropOrder
  <2>2. /\ stage # "clear" /\ orphans' = orphans \o allocated[t]
        /\ allocated' = [allocated EXCEPT ![t] = <<>>] /\ has_items' = has_items
        /\ allocated[t] # <<>>
    BY <1>4, <2>1 DEF DropStep, QueueLocked
  <2>3. dropStage' = [dropStage EXCEPT ![t] = 1]
    <3>1. Len(DropOrder) = 2 /\ (0 + 1) % 2 = 1
      BY DEF DropOrder
    <3>2. dropStage' = [dropStage EXCEPT ![t] = (dropStage[t] + 1) % Len(DropOrder)]
      BY DEF DropStep
    <3>3. QED
      BY <1>4, <3>1, <3>2
  <2>4. /\ allocated' \in [Txs -> Seq(IssuedHandles)]
        /\ Owned(al', placed', leaked', allocated', orphans')
    <3>1. LET given == [allocated EXCEPT ![t] = <<>>]
          IN  /\ given \in [Txs -> Seq(IssuedHandles)]
              /\ Owned(al, placed, leaked, given, orphans \o allocated[t])
      BY <1>2, OwnedQueue
    <3>2. QED
      BY <1>1, <2>2, <3>1
  <2>5. TypesInv'
    BY <1>1, <1>2, <2>2, <2>3, <2>4 DEF TypesInv
  <2>6. StageInv'
    <3>1. Running
      BY <1>2, <2>2 DEF StageInv
    <3>2. dropStage'[t] # 0
      BY <1>2, <2>3
    <3>3. QED
      BY <1>1, <1>2, <1>3, <2>2, <3>1, <3>2 DEF StageInv
  <2>7. QED
    BY <1>3, <2>4, <2>5, <2>6 DEF IInv
<1>5. CASE dropStage[t] = 1
  <2>1. DropOrder[dropStage[t] + 1] = "flag"
    BY <1>5 DEF DropOrder
  <2>2. /\ orphans' = orphans /\ allocated' = allocated /\ has_items' = TRUE
    BY <1>5, <2>1 DEF DropStep
  <2>3. dropStage' = [dropStage EXCEPT ![t] = 0]
    <3>1. Len(DropOrder) = 2 /\ (1 + 1) % 2 = 0
      BY DEF DropOrder
    <3>2. dropStage' = [dropStage EXCEPT ![t] = (dropStage[t] + 1) % Len(DropOrder)]
      BY DEF DropStep
    <3>3. QED
      BY <1>5, <3>1, <3>2
  <2>4. TypesInv'
    BY <1>1, <1>2, <2>2, <2>3 DEF TypesInv
  <2>5. StageInv'
    <3>1. Running
      BY <1>2, <1>5 DEF StageInv
    <3>2. QED
      BY <1>1, <1>2, <1>3, <2>2, <3>1 DEF StageInv
  <2>6. QED
    BY <1>1, <1>2, <1>3, <2>2, <2>4, <2>5 DEF IInv
<1>6. QED
  BY <1>2, <1>4, <1>5

LEMMA DrainQueueKeeps ==
  ASSUME IInv, DrainQueue
  PROVE  IInv' /\ al'.free.cap = al.free.cap
<1>1. /\ UNCHANGED <<placed, issued, leaked, committed, allocated, loaded, dropStage, has_items,
                     saved, saves, log, replay, rejected>>
      /\ stage = "locked" /\ stage' = "clear" /\ al' = DeallocAll(al, orphans) /\ orphans' = <<>>
  BY DEF DrainQueue, txVars, diskVars, recoveryVars
<1>2. /\ AllocOK(al) /\ Owned(al, placed, leaked, allocated, orphans) /\ TypesInv /\ StageInv
      /\ SavedInv /\ LogInv /\ FreshInv /\ ReplayInv /\ QuiescentReplayAccepted
  BY DEF IInv
<1>3. Running /\ Slots(al) = al.next_reserved
  BY <1>1, <1>2 DEF StageInv
<1>4. SavedInv' /\ LogInv' /\ Done' = Done /\ Running'
  BY <1>1, <1>2, <1>3, DiskKept
<1>5. /\ AllocOK(al') /\ Slots(al') = Slots(al) /\ al'.next_reserved = al.next_reserved
      /\ Free(al'.free) = Free(al.free) \cup IndicesOf(orphans) /\ al'.free.cap = al.free.cap
      /\ \A i \in Nat : i \notin IndicesOf(orphans) => Gen(al', i) = Gen(al, i)
      /\ \A i \in IndicesOf(orphans) : Gen(al', i) = Gen(al, i) + 1
  <2>1. Alive(al, orphans) /\ \A i \in IndicesOf(orphans) : i \notin Free(al.free)
    BY <1>2 DEF Owned, Disjoint
  <2>2. QED
    BY <1>1, <1>2, <1>3, <2>1, DeallocAllIs
<1>6. Owned(al', placed', leaked', allocated', orphans')
  <2>1. Owned(al', placed, leaked, allocated, <<>>)
    BY <1>2, <1>5, OwnedFreed
  <2>2. QED
    BY <1>1, <2>1
<1>7. TypesInv'
  BY <1>1, <1>2 DEF TypesInv, CallStages
<1>8. StageInv'
  BY <1>1, <1>2, <1>3, <1>4, <1>5 DEF StageInv
<1>9. /\ al.next_reserved \in Nat /\ MaxGen \in Nat /\ \A i \in Nat : Gen(al, i) \in 0 .. MaxGen
  BY <1>2, AllocFacts
<1>10. \A i \in Nat : /\ Gen(al, i) <= Gen(al', i)
                      /\ i \in IndicesOf(orphans) => Gen(al, i) < Gen(al', i)
  BY <1>5, <1>9
<1>11. FreshInv'
  <2>1. ASSUME NEW e \in IssuedHandles, Stale(al, e) PROVE Stale(al', e)
    <3>1. e \in IssuedHandles /\ al.next_reserved <= al'.next_reserved
      BY <1>5, <1>9
    <3>2. e[1] \in Nat
      BY <3>1, HandleIs
    <3>3. /\ Gen(al, e[1]) <= Gen(al', e[1])
          /\ e[1] \in Free(al'.free) => e[1] \in Free(al.free) \/ Gen(al, e[1]) < Gen(al', e[1])
      BY <1>5, <1>10, <3>2
    <3>4. QED
      BY <1>2, <1>5, <2>1, <3>1, <3>3, StaleStays
  <2>2. QED
    BY <1>1, <1>2, <1>5, <2>1, FreshKept
<1>12. ReplayInv'
  <2>1. \A i \in Indices : GenAfter(saved, log, Done, i) \in Nat
    BY <1>2, DoneIs, GenAfterType
  <2>2. \A i \in Indices : i \in Nat
    BY FreeListAssumption DEF Indices
  <2>3. \A i \in placed : i \notin IndicesOf(orphans)
    BY <1>2 DEF Owned, Disjoint
  <2>4. \A i \in Indices : Gen(al, i) <= Gen(al', i) /\ (i \in placed => Gen(al', i) = Gen(al, i))
    BY <1>5, <1>10, <2>2, <2>3
  <2>5. QED
    BY <1>1, <1>2, <1>3, <1>5, <2>1, <2>4, ReplayKept
<1>13. QuiescentReplayAccepted'
  BY <1>1, <1>2 DEF QuiescentReplayAccepted
<1>14. QED
  BY <1>4, <1>5, <1>6, <1>7, <1>8, <1>11, <1>12, <1>13 DEF IInv

LEMMA TxSpawnKeeps ==
  ASSUME IInv, NEW t \in Txs, TxSpawn(t), Alloc(al).handle[1] # REMOVED
  PROVE  IInv'
<1> DEFINE r == Alloc(al)
           h == r.handle
<1>1. /\ UNCHANGED <<placed, leaked, committed, loaded, dropStage, orphans, has_items,
                     saved, saves, log, replay, rejected>>
      /\ stage = "op" /\ stage' = "idle" /\ al' = r.al /\ h[1] # REMOVED /\ h[2] < MaxGen
      /\ allocated' = [allocated EXCEPT ![t] = Append(@, h)]
      /\ issued' = issued \cup {h}
  BY DEF TxSpawn, queueVars, diskVars, recoveryVars
<1>2. /\ AllocOK(al) /\ Owned(al, placed, leaked, allocated, orphans) /\ TypesInv /\ StageInv
      /\ SavedInv /\ LogInv /\ FreshInv /\ ReplayInv /\ QuiescentReplayAccepted
  BY DEF IInv
<1>3. Running /\ Slots(al) = al.next_reserved
  BY <1>1, <1>2 DEF StageInv
<1>4. SavedInv' /\ LogInv' /\ Done' = Done /\ Running'
  BY <1>1, <1>2, <1>3, DiskKept
<1>5. h \in IssuedHandles /\ h[1] \in Nat /\ h[2] \in Nat /\ h[1] < REMOVED /\ REMOVED \in Nat
  <2>1. h \in (0 .. REMOVED) \X (0 .. MaxGen)
    BY <1>2, <1>3, AllocHandle
  <2>2. REMOVED \in Nat /\ MaxGen \in Nat
    BY FreeListAssumption, EntityAllocatorAssumption
  <2> HIDE DEF h
  <2>3. PICK i \in 0 .. REMOVED, g \in 0 .. MaxGen : h = <<i, g>>
    BY <2>1
  <2>4. i \in 0 .. REMOVED - 1 /\ g \in 0 .. MaxGen - 1
    BY <1>1, <2>2, <2>3
  <2>5. QED
    BY <2>2, <2>3, <2>4 DEF IssuedHandles, Indices
<1>6. /\ AllocOK(r.al) /\ Slots(r.al) = r.al.next_reserved
      /\ h = <<h[1], Gen(al, h[1])>>
      /\ Free(r.al.free) = Free(al.free) \ {h[1]}
      /\ \A j \in Nat : Gen(r.al, j) = Gen(al, j)
      /\ \/ h[1] \in Free(al.free) /\ r.al.next_reserved = al.next_reserved
         \/ h[1] = al.next_reserved /\ r.al.next_reserved = h[1] + 1
  BY <1>2, <1>3, <1>5, AllocIs
<1> HIDE DEF r, h
<1>7. /\ AllocOK(al') /\ Slots(al') = al'.next_reserved /\ Gen(al, h[1]) = h[2]
      /\ Free(al'.free) = Free(al.free) \ {h[1]}
      /\ \A j \in Nat : Gen(al', j) = Gen(al, j)
      /\ \/ h[1] \in Free(al.free) /\ al'.next_reserved = al.next_reserved
         \/ h[1] = al.next_reserved /\ al'.next_reserved = al.next_reserved + 1
  BY <1>1, <1>6
<1>8. /\ al.next_reserved \in Nat /\ al'.next_reserved \in Nat /\ MaxGen \in Nat
      /\ al.next_reserved <= al'.next_reserved /\ h[1] < al'.next_reserved /\ Slots(al) <= Slots(al')
      /\ \A i \in Nat : Gen(al, i) \in 0 .. MaxGen
  <2>1. /\ al.next_reserved \in Nat /\ al'.next_reserved \in Nat /\ MaxGen \in Nat
        /\ \A i \in Nat : Gen(al, i) \in 0 .. MaxGen
    BY <1>2, <1>7, AllocFacts
  <2>2. Free(al.free) \subseteq 0 .. al.next_reserved - 1
    BY <1>2, <1>3 DEF AllocOK
  <2>3. al.next_reserved <= al'.next_reserved /\ h[1] < al'.next_reserved
    BY <1>5, <1>7, <2>1, <2>2
  <2>4. QED
    BY <1>3, <1>7, <2>1, <2>3
<1>9. /\ allocated' \in [Txs -> Seq(IssuedHandles)]
      /\ Owned(al', placed', leaked', allocated', orphans')
  <2>1. allocated \in [Txs -> Seq(IssuedHandles)]
    BY <1>2 DEF TypesInv
  <2>2. LET given == [allocated EXCEPT ![t] = Append(@, h)]
        IN  given \in [Txs -> Seq(IssuedHandles)] /\ Owned(al', placed, leaked, given, orphans)
    BY <1>1, <1>2, <1>5, <1>7, <1>8, <2>1, OwnedPlus
  <2>3. QED
    BY <1>1, <2>2
<1>10. TypesInv'
  BY <1>1, <1>2, <1>5, <1>9 DEF TypesInv, CallStages
<1>11. StageInv'
  BY <1>1, <1>2, <1>3, <1>4, <1>7 DEF StageInv
<1>12. FreshInv'
  <2>1. ASSUME NEW e \in IssuedHandles, Stale(al, e) PROVE Stale(al', e)
    <3>1. e \in IssuedHandles
      OBVIOUS
    <3>2. e[1] \in Nat
      BY HandleIs
    <3>3. /\ Gen(al, e[1]) <= Gen(al', e[1])
          /\ e[1] \in Free(al'.free) => e[1] \in Free(al.free)
      BY <1>7, <1>8, <3>2
    <3>4. QED
      BY <1>2, <1>7, <1>8, <2>1, <3>1, <3>3, StaleStays
  <2>2. Stale(al', h)
    <3>1. h[1] \notin Free(al'.free) /\ Gen(al', h[1]) = h[2]
      BY <1>5, <1>7
    <3>2. QED
      BY <1>5, <1>8, <3>1 DEF Stale
  <2>3. ASSUME NEW e \in committed, e[1] < Slots(al) PROVE e[1] < Slots(al')
    <3>1. e[1] \in Nat
      BY <1>2, HandleIs DEF TypesInv
    <3>2. QED
      BY <1>3, <1>7, <1>8, <2>3, <3>1
  <2>4. QED
    BY <1>1, <1>2, <2>1, <2>2, <2>3, FreshKept
<1>13. ReplayInv'
  <2>1. \A i \in Indices : GenAfter(saved, log, Done, i) \in Nat
    BY <1>2, DoneIs, GenAfterType
  <2>2. \A i \in Indices : i \in Nat
    BY FreeListAssumption DEF Indices
  <2>3. \A i \in Indices : Gen(al, i) <= Gen(al', i) /\ (i \in placed => Gen(al', i) = Gen(al, i))
    BY <1>7, <1>8, <2>2
  <2>4. QED
    BY <1>1, <1>2, <1>3, <1>7, <2>1, <2>3, ReplayKept
<1>14. QuiescentReplayAccepted'
  BY <1>1, <1>2 DEF QuiescentReplayAccepted
<1>15. QED
  BY <1>4, <1>7, <1>9, <1>10, <1>11, <1>12, <1>13, <1>14 DEF IInv

LEMMA HandlesAreHandles ==
  ASSUME NEW es \in Seq(IssuedHandles)
  PROVE  es \in Seq(Handles)
<1>1. Len(es) \in Nat /\ DOMAIN es = 1 .. Len(es) /\ \A k \in 1 .. Len(es) : es[k] \in Handles
  BY HandleIs
<1>2. QED
  BY <1>1

(* The one spawn that leaves the index space, from the full allocator with  *)
(* nothing free.                                                           *)
LEMMA TxSpawnEnds ==
  ASSUME IInv, NEW t \in Txs, TxSpawn(t), Alloc(al).handle[1] = REMOVED
  PROVE  EndInv'
<1> DEFINE r == Alloc(al)
           popped == Pop(al.free)
<1>1. /\ UNCHANGED <<placed, leaked, committed, loaded, dropStage, orphans, has_items,
                     saved, saves, log, replay, rejected>>
      /\ stage = "op" /\ stage' = "ended" /\ al' = r.al
      /\ allocated' = [allocated EXCEPT ![t] = Append(@, r.handle)]
      /\ issued' = issued \cup {r.handle}
  BY DEF TxSpawn, queueVars, diskVars, recoveryVars
<1>2. /\ AllocOK(al) /\ Owned(al, placed, leaked, allocated, orphans) /\ TypesInv /\ StageInv
      /\ SavedInv /\ LogInv /\ FreshInv
  BY DEF IInv
<1>3. Running /\ Slots(al) = al.next_reserved /\ rejected = FALSE
  BY <1>1, <1>2 DEF StageInv, TypesInv
<1>4. /\ SavedInv' /\ LogInv' /\ Running' /\ \A n, e : Spawns(n, e)' <=> Spawns(n, e)
  BY <1>1, <1>2, <1>3, DiskKept
<1>5. /\ REMOVED \in Nat /\ MaxGen \in Nat \ {0} /\ Slots(al) \in Nat /\ Slots(al) <= REMOVED
      /\ al.generations \in Seq(0 .. MaxGen) /\ Sound(al.free)
      /\ Free(al.free) \subseteq 0 .. REMOVED - 1
  BY <1>2, AllocFacts, EntityAllocatorAssumption DEF AllocOK
<1>6. Materialize(al) = al
  BY <1>2, <1>3, MaterializeIs
<1>7. Sound(popped.list) /\ (popped.index # None => popped.index \in Free(al.free))
  BY <1>5, PopIs
<1>8. r = IF popped.index # None
          THEN [handle |-> <<popped.index, GenOf(al, popped.index)>>,
                al |-> [al EXCEPT !.free = popped.list]]
          ELSE [handle |-> <<Slots(al), 0>>,
                al |-> [generations |-> Append(al.generations, 0),
                        free |-> ReserveTotal(popped.list, Slots(al) + 1),
                        next_reserved |-> NextIndex(Slots(al))]]
  BY <1>6 DEF Alloc
<1> HIDE DEF popped
<1>9. popped.index = None
  <2>1. ASSUME popped.index # None PROVE FALSE
    <3>1. r.handle[1] = popped.index
      BY <1>8, <2>1
    <3>2. popped.index \in 0 .. REMOVED - 1
      BY <1>5, <1>7, <2>1
    <3>3. QED
      BY <1>5, <3>1, <3>2
  <2>2. QED
    BY <2>1
<1>10. /\ r.handle = <<Slots(al), 0>>
       /\ r.al = [generations |-> Append(al.generations, 0),
                  free |-> ReserveTotal(popped.list, Slots(al) + 1),
                  next_reserved |-> NextIndex(Slots(al))]
  BY <1>8, <1>9
<1>11. Slots(al) = REMOVED
  BY <1>10
<1> HIDE DEF r
<1>12. /\ al'.generations = Append(al.generations, 0) /\ al'.next_reserved = NextIndex(REMOVED)
       /\ al'.free = ReserveTotal(popped.list, REMOVED + 1)
  BY <1>1, <1>10, <1>11
<1>13. al'.generations \in Seq(0 .. MaxGen) /\ Slots(al') = REMOVED + 1
  BY <1>5, <1>11, <1>12, AppendIs DEF Slots
<1>14. al'.next_reserved = 0 /\ Sound(al'.free)
  BY <1>5, <1>7, <1>12, NextIndexIs, ReserveIs
<1>15. r.handle = <<REMOVED, 0>> /\ r.handle \in Handles
  BY <1>5, <1>10, <1>11 DEF Handles
<1>16. \A es \in Seq(IssuedHandles) : es \in Seq(Handles)
  BY HandlesAreHandles
<1>17. allocated' \in [Txs -> Seq(Handles)]
  <2>1. allocated \in [Txs -> Seq(IssuedHandles)]
    BY <1>2 DEF TypesInv
  <2>2. \A u \in Txs : allocated[u] \in Seq(Handles)
    BY <1>16, <2>1
  <2>3. Append(allocated[t], r.handle) \in Seq(Handles)
    BY <1>15, <2>2
  <2>4. QED
    BY <1>1, <2>1, <2>2, <2>3
<1>18. orphans' \in Seq(Handles)
  BY <1>1, <1>2, <1>16 DEF Owned, Alive
<1>19. /\ placed' \cup leaked' \subseteq Indices /\ issued' \subseteq Handles
  <2>1. placed \cup leaked \subseteq Indices
    BY <1>2, <1>5 DEF Owned, Indices
  <2>2. issued \subseteq Handles
    BY <1>2, HandleIs DEF TypesInv
  <2>3. QED
    BY <1>1, <1>15, <2>1, <2>2
<1>20. \A u \in Txs : loaded'[u] = None
  BY <1>1, <1>2 DEF StageInv
<1>21. /\ dropStage' \in [Txs -> {0, 1}] /\ has_items' \in BOOLEAN
       /\ orphans' # <<>> => has_items' \/ \E u \in Txs : dropStage'[u] # 0
  BY <1>1, <1>2 DEF TypesInv, StageInv
<1>22. DiskInv'
  BY <1>1, <1>2, <1>3, <1>4 DEF DiskInv, FreshInv, TypesInv
<1>23. QED
  BY <1>1, <1>4, <1>13, <1>14, <1>17, <1>18, <1>19, <1>20, <1>21, <1>22 DEF EndInv

(* A record is logged that replay of the log so far would accept.          *)
LEMMA LogAppend ==
  ASSUME SavedInv, LogInv, Running, NEW r, RecordOK(r),
         log' = Append(log, r), UNCHANGED <<saved, replay>>,
         \A j \in 1 .. Len(r.handles) :
           LET e == r.handles[j]
           IN  IF r.op = "spawn"
               THEN ~RowAfter(saved, log, Done, e[1]) /\ GenAfter(saved, log, Done, e[1]) <= e[2]
               ELSE RowAfter(saved, log, Done, e[1]) /\ GenAfter(saved, log, Done, e[1]) = e[2]
  PROVE  /\ SavedInv' /\ LogInv' /\ Running' /\ Done' = Len(log') /\ Len(log') = Len(log) + 1
         /\ \A n \in 1 .. Len(log) : log'[n] = log[n]
         /\ log'[Len(log) + 1] = r
         /\ \A i \in IndicesOf(r.handles) :
              /\ RowAfter(saved', log', Done', i) <=> r.op = "spawn"
              /\ GenAfter(saved', log', Done', i) = IF r.op = "spawn" THEN GenIn(r, i) ELSE GenIn(r, i) + 1
         /\ \A i : i \notin IndicesOf(r.handles) =>
              /\ RowAfter(saved', log', Done', i) <=> RowAfter(saved, log, Done, i)
              /\ GenAfter(saved', log', Done', i) = GenAfter(saved, log, Done, i)
<1> DEFINE N == Len(log)
<1>1. /\ log \in Seq(LogRecords) /\ r \in LogRecords
      /\ \A n \in 1 .. N : RecordOK(log[n]) /\ Accepted(saved, log, n)
  BY DEF LogInv, RecordOK
<1>2. /\ log' \in Seq(LogRecords) /\ N \in Nat /\ Len(log') = N + 1
      /\ \A n \in 1 .. N : log'[n] = log[n]
      /\ log'[N + 1] = r
  BY <1>1, AppendIs
<1>3. Running' /\ Done' = N + 1 /\ Done = N
  BY <1>2 DEF Running, Done
<1>4. SavedInv'
  BY DEF SavedInv
<1>5. ASSUME NEW n \in 0 .. N, NEW i
      PROVE  /\ RowAfter(saved, log', n, i) <=> RowAfter(saved, log, n, i)
             /\ GenAfter(saved, log', n, i) = GenAfter(saved, log, n, i)
  <2> DEFINE recs == log'
  <2>1. n \in Nat /\ \A k \in 1 .. n : recs[k] = log[k]
    BY <1>2
  <2> HIDE DEF recs
  <2>2. /\ RowAfter(saved, recs, n, i) <=> RowAfter(saved, log, n, i)
        /\ GenAfter(saved, recs, n, i) = GenAfter(saved, log, n, i)
    BY <2>1, AfterSame
  <2>3. QED
    BY <2>2 DEF recs
<1>6. ASSUME NEW n \in 1 .. N + 1
      PROVE  RecordOK(log'[n]) /\ Accepted(saved, log', n)
  <2>1. CASE n = N + 1
    <3>1. log'[n] = r /\ n - 1 = N /\ N \in 0 .. N
      BY <1>2, <2>1
    <3>2. \A i : /\ RowAfter(saved, log', n - 1, i) <=> RowAfter(saved, log, Done, i)
                 /\ GenAfter(saved, log', n - 1, i) = GenAfter(saved, log, Done, i)
      BY <1>3, <1>5, <3>1
    <3>3. QED
      BY <3>1, <3>2 DEF Accepted
  <2>2. CASE n \in 1 .. N
    <3>1. log'[n] = log[n] /\ n - 1 \in 0 .. N /\ RecordOK(log[n]) /\ Accepted(saved, log, n)
      BY <1>1, <1>2, <2>2
    <3>2. \A i : /\ RowAfter(saved, log', n - 1, i) <=> RowAfter(saved, log, n - 1, i)
                 /\ GenAfter(saved, log', n - 1, i) = GenAfter(saved, log, n - 1, i)
      BY <1>5, <3>1
    <3>3. QED
      BY <3>1, <3>2 DEF Accepted
  <2>3. QED
    BY <1>2, <2>1, <2>2
<1>7. LogInv'
  <2>1. saved' = saved
    OBVIOUS
  <2>2. QED
    BY <1>2, <1>3, <1>6, <2>1 DEF LogInv
<1>8. ASSUME NEW i
      PROVE  /\ i \in IndicesOf(r.handles) =>
                  /\ RowAfter(saved, log', N + 1, i) <=> r.op = "spawn"
                  /\ GenAfter(saved, log', N + 1, i) = IF r.op = "spawn" THEN GenIn(r, i) ELSE GenIn(r, i) + 1
             /\ i \notin IndicesOf(r.handles) =>
                  /\ RowAfter(saved, log', N + 1, i) <=> RowAfter(saved, log', N, i)
                  /\ GenAfter(saved, log', N + 1, i) = GenAfter(saved, log', N, i)
  <2> DEFINE recs == log'
  <2>1. recs[N + 1] = r /\ N \in Nat
    BY <1>2
  <2> HIDE DEF recs, N
  <2>2. /\ i \in IndicesOf(recs[N + 1].handles) =>
              /\ RowAfter(saved, recs, N + 1, i) <=> recs[N + 1].op = "spawn"
              /\ GenAfter(saved, recs, N + 1, i) = IF recs[N + 1].op = "spawn" THEN GenIn(recs[N + 1], i)
                                                   ELSE GenIn(recs[N + 1], i) + 1
        /\ i \notin IndicesOf(recs[N + 1].handles) =>
              /\ RowAfter(saved, recs, N + 1, i) <=> RowAfter(saved, recs, N, i)
              /\ GenAfter(saved, recs, N + 1, i) = GenAfter(saved, recs, N, i)
    BY <2>1, AfterStep
  <2>3. QED
    BY <2>1, <2>2 DEF recs
<1>9. N \in 0 .. N /\ saved' = saved
  BY <1>2
<1>10. ASSUME NEW i \in IndicesOf(r.handles)
       PROVE  /\ RowAfter(saved', log', Done', i) <=> r.op = "spawn"
              /\ GenAfter(saved', log', Done', i) = IF r.op = "spawn" THEN GenIn(r, i) ELSE GenIn(r, i) + 1
  BY <1>3, <1>8, <1>9
<1>11. ASSUME NEW i, i \notin IndicesOf(r.handles)
       PROVE  /\ RowAfter(saved', log', Done', i) <=> RowAfter(saved, log, Done, i)
              /\ GenAfter(saved', log', Done', i) = GenAfter(saved, log, Done, i)
  BY <1>3, <1>5, <1>8, <1>9, <1>11
<1>12. QED
  BY <1>2, <1>3, <1>4, <1>7, <1>10, <1>11

LEMMA CommitKeeps ==
  ASSUME IInv, NEW t \in Txs, Commit(t)
  PROVE  IInv'
<1> DEFINE es == allocated[t]
           r == [op |-> "spawn", handles |-> es]
<1>1. /\ UNCHANGED <<issued, leaked, loaded, dropStage, orphans, has_items, stage, saved, saves,
                     replay, rejected>>
      /\ Running /\ stage = "idle" /\ al' = Materialize(al) /\ placed' = placed \cup IndicesOf(es)
      /\ log' = Append(log, r) /\ committed' = committed \cup Range(es)
      /\ allocated' = [allocated EXCEPT ![t] = <<>>]
      /\ \A u \in Txs : loaded[u] = None
  BY DEF Commit, queueVars, recoveryVars, NoMutBorrow, NoSharedBorrow
<1>2. /\ AllocOK(al) /\ Owned(al, placed, leaked, allocated, orphans) /\ TypesInv /\ StageInv
      /\ SavedInv /\ LogInv /\ FreshInv /\ ReplayInv /\ QuiescentReplayAccepted
      /\ allocated \in [Txs -> Seq(IssuedHandles)] /\ ~rejected
  BY <1>1 DEF IInv, TypesInv, StageInv
<1>3. /\ AllocOK(al') /\ Slots(al') = al.next_reserved /\ al'.next_reserved = al.next_reserved
      /\ Free(al'.free) = Free(al.free) /\ \A i \in Nat : Gen(al', i) = Gen(al, i)
  BY <1>1, <1>2, MaterializeIs
<1>4. /\ Slots(al) \in Nat /\ al.next_reserved \in Nat /\ Slots(al) <= al.next_reserved
      /\ MaxGen \in Nat /\ \A i \in Nat : Gen(al, i) \in 0 .. MaxGen
  BY <1>2, AllocFacts DEF AllocOK
<1>5. /\ allocated' \in [Txs -> Seq(IssuedHandles)]
      /\ Owned(al', placed', leaked', allocated', orphans')
  <2>1. Slots(al) <= Slots(al') /\ Slots(al') = al'.next_reserved
    BY <1>3, <1>4
  <2>2. Owned(al', placed, leaked, allocated, orphans)
    BY <1>2, <1>3, <2>1, OwnedSame
  <2>3. LET given == [allocated EXCEPT ![t] = <<>>]
        IN  /\ given \in [Txs -> Seq(IssuedHandles)]
            /\ Owned(al', placed \cup IndicesOf(allocated[t]), leaked, given, orphans)
    BY <1>2, <1>3, <2>1, <2>2, OwnedRows
  <2>4. QED
    BY <1>1, <2>3
<1>6. /\ es \in Seq(IssuedHandles) /\ OneEach(es) /\ Len(es) \in Nat
      /\ IndicesOf(es) = {es[k][1] : k \in 1 .. Len(es)} /\ DOMAIN es = 1 .. Len(es)
      /\ \A k \in 1 .. Len(es) : /\ es[k] \in IssuedHandles /\ es[k][1] \in Nat /\ es[k][1] \in Indices
                                 /\ es[k][1] < al.next_reserved
                                 /\ Gen(al, es[k][1]) = es[k][2] /\ es[k][1] \notin placed
                                 /\ es[k][1] \notin Free(al.free)
  <2>1. /\ es \in Seq(IssuedHandles) /\ OneEach(es)
        /\ \A k \in 1 .. Len(es) : es[k][1] < al.next_reserved /\ Gen(al, es[k][1]) = es[k][2]
    BY <1>2 DEF Owned, Alive
  <2>2. /\ IndicesOf(es) = {es[k][1] : k \in 1 .. Len(es)} /\ Len(es) \in Nat /\ DOMAIN es = 1 .. Len(es)
        /\ \A k \in 1 .. Len(es) : es[k] \in IssuedHandles /\ es[k][1] \in IndicesOf(es)
    BY <2>1, IndicesIs
  <2>3. \A i \in IndicesOf(es) : i \notin placed /\ i \notin Free(al.free)
    BY <1>2 DEF Owned, Disjoint
  <2>4. \A k \in 1 .. Len(es) : es[k][1] \in Nat /\ es[k][1] \in Indices
    BY <2>2, HandleIs DEF Indices
  <2>5. QED
    BY <2>1, <2>2, <2>3, <2>4
<1>7. r.op = "spawn" /\ r.handles = es /\ RecordOK(r)
  <2>1. es \in Seq(Handles)
    <3>1. \A k \in 1 .. Len(es) : es[k] \in Handles
      BY <1>6, HandleIs
    <3>2. QED
      BY <1>6, <3>1
  <2>2. QED
    BY <1>6, <2>1 DEF RecordOK, LogRecords
<1>8. Done \in 0 .. Len(log) /\ Done = Len(log) /\ Len(log) \in Nat
  BY <1>1, <1>2, DoneIs
<1>9. ASSUME NEW i \in Indices
      PROVE  /\ GenAfter(saved, log, Done, i) \in Nat
             /\ i \in placed <=> RowAfter(saved, log, Done, i)
             /\ GenAfter(saved, log, Done, i) <= Gen(al, i)
             /\ i \in placed => GenAfter(saved, log, Done, i) = Gen(al, i)
  BY <1>2, <1>8, GenAfterType DEF ReplayInv
<1> HIDE DEF r, es
<1>10. \A j \in 1 .. Len(r.handles) :
         LET e == r.handles[j]
         IN  IF r.op = "spawn"
             THEN ~RowAfter(saved, log, Done, e[1]) /\ GenAfter(saved, log, Done, e[1]) <= e[2]
             ELSE RowAfter(saved, log, Done, e[1]) /\ GenAfter(saved, log, Done, e[1]) = e[2]
  BY <1>6, <1>7, <1>9
<1>11. /\ SavedInv' /\ LogInv' /\ Running' /\ Done' = Len(log') /\ Len(log') = Len(log) + 1
       /\ \A n \in 1 .. Len(log) : log'[n] = log[n]
       /\ log'[Len(log) + 1] = r
       /\ \A i \in IndicesOf(r.handles) :
            /\ RowAfter(saved', log', Done', i) <=> r.op = "spawn"
            /\ GenAfter(saved', log', Done', i) = IF r.op = "spawn" THEN GenIn(r, i) ELSE GenIn(r, i) + 1
       /\ \A i : i \notin IndicesOf(r.handles) =>
            /\ RowAfter(saved', log', Done', i) <=> RowAfter(saved, log, Done, i)
            /\ GenAfter(saved', log', Done', i) = GenAfter(saved, log, Done, i)
  BY <1>1, <1>2, <1>7, <1>10, LogAppend
<1>12. TypesInv'
  <2>1. Range(es) \subseteq IssuedHandles
    BY <1>6 DEF Range
  <2>2. QED
    BY <1>1, <1>2, <1>5, <2>1 DEF TypesInv
<1>13. StageInv'
  BY <1>1, <1>2, <1>11 DEF StageInv
<1>14. ASSUME NEW e \in IssuedHandles, Stale(al, e) PROVE Stale(al', e)
  <2>1. e[1] \in Nat
    BY HandleIs
  <2>2. Gen(al, e[1]) <= Gen(al', e[1]) /\ al.next_reserved <= al'.next_reserved
    BY <1>3, <1>4, <2>1
  <2>3. QED
    BY <1>2, <1>3, <1>14, <2>2, StaleStays
<1>15. ASSUME NEW k \in 1 .. Len(es) PROVE Stale(al', es[k]) /\ es[k][1] < Slots(al')
  <2>1. es[k][2] \in Nat
    BY <1>6, HandleIs
  <2>2. QED
    BY <1>3, <1>6, <2>1 DEF Stale
<1>16. FreshInv'
  <2>1. ASSUME NEW e \in committed'
        PROVE  Stale(Base(saved'), e) \/ \E n \in 1 .. Len(log') : Spawns(n, e)'
    <3>1. CASE e \in committed
      <4>1. Stale(Base(saved), e) \/ \E n \in 1 .. Len(log) : Spawns(n, e)
        BY <1>2, <3>1 DEF FreshInv
      <4>2. ASSUME NEW n \in 1 .. Len(log), Spawns(n, e)
            PROVE  n \in 1 .. Len(log') /\ Spawns(n, e)'
        BY <1>8, <1>11, <4>2 DEF Spawns
      <4>3. QED
        BY <1>1, <4>1, <4>2
    <3>2. CASE e \in Range(es)
      <4>1. PICK k \in 1 .. Len(es) : e = es[k]
        BY <1>6, <3>2 DEF Range
      <4>2. PICK n \in Nat : n = Len(log) + 1
        BY <1>8
      <4>3. n \in 1 .. Len(log') /\ log'[n] = r
        BY <1>8, <1>11, <4>2
      <4>4. Spawns(n, e)'
        BY <1>7, <4>1, <4>3 DEF Spawns
      <4>5. QED
        BY <4>3, <4>4
    <3>3. QED
      BY <1>1, <3>1, <3>2
  <2>2. ASSUME NEW e \in issued' \cup committed' PROVE Stale(al', e)
    <3>1. CASE e \in issued \cup committed
      <4>1. Stale(al, e) \/ \E n \in Done + 1 .. Len(log) : Spawns(n, e)
        BY <1>2, <3>1 DEF FreshInv
      <4>2. Done + 1 .. Len(log) = {}
        BY <1>8
      <4>3. e \in IssuedHandles
        BY <1>2, <3>1 DEF TypesInv
      <4>4. QED
        BY <1>14, <4>1, <4>2, <4>3
    <3>2. CASE e \in Range(es)
      BY <1>6, <1>15, <3>2 DEF Range
    <3>3. QED
      BY <1>1, <3>1, <3>2
  <2>3. ASSUME NEW e \in committed' PROVE e[1] < Slots(al')
    <3>1. e \in IssuedHandles
      BY <1>12 DEF TypesInv
    <3>2. Stale(al', e)
      BY <2>2
    <3>3. QED
      BY <1>3, <3>2 DEF Stale
  <2>4. QED
    BY <2>1, <2>2, <2>3 DEF FreshInv
<1>17. ReplayInv'
  <2> SUFFICES ASSUME NEW i \in Indices
               PROVE  /\ i \in placed' <=> RowAfter(saved', log', Done', i)
                      /\ GenAfter(saved', log', Done', i) <= Gen(al', i)
                      /\ i \in placed' => GenAfter(saved', log', Done', i) = Gen(al', i)
    BY <1>11 DEF ReplayInv
  <2>1. i \in Nat
    BY FreeListAssumption DEF Indices
  <2>2. Gen(al', i) = Gen(al, i) /\ Gen(al, i) \in Nat
    BY <1>3, <1>4, <2>1
  <2>3. CASE i \in IndicesOf(es)
    <3>1. PICK k \in 1 .. Len(es) : i = es[k][1]
      BY <1>6, <2>3
    <3>2. GenIn(r, i) = es[k][2]
      BY <1>7, <3>1, GenInIs
    <3>3. QED
      BY <1>1, <1>6, <1>7, <1>11, <2>2, <2>3, <3>1, <3>2
  <2>4. CASE i \notin IndicesOf(es)
    BY <1>1, <1>7, <1>9, <1>11, <2>2, <2>4
  <2>5. QED
    BY <2>3, <2>4
<1>18. QuiescentReplayAccepted'
  BY <1>1, <1>2 DEF QuiescentReplayAccepted
<1>19. QED
  BY <1>3, <1>5, <1>11, <1>12, <1>13, <1>16, <1>17, <1>18 DEF IInv

LEMMA DespawnKeeps ==
  ASSUME IInv, NEW e \in issued, Despawn(e)
  PROVE  IInv' /\ al'.free.cap = al.free.cap
<1> DEFINE r == [op |-> "despawn", handles |-> <<e>>]
<1>1. /\ UNCHANGED <<issued, leaked, committed, allocated, loaded, dropStage, orphans, has_items,
                     saved, saves, replay, rejected>>
      /\ stage = "op" /\ stage' = "idle" /\ IsAlive(al, e) /\ e[1] \in placed
      /\ al' = Dealloc(al, e) /\ placed' = placed \ {e[1]} /\ log' = Append(log, r)
  BY DEF Despawn, txVars, queueVars, recoveryVars
<1>2. /\ AllocOK(al) /\ Owned(al, placed, leaked, allocated, orphans) /\ TypesInv /\ StageInv
      /\ SavedInv /\ LogInv /\ FreshInv /\ ReplayInv /\ QuiescentReplayAccepted
  BY DEF IInv
<1>3. Running /\ Slots(al) = al.next_reserved /\ ~rejected
  BY <1>1, <1>2 DEF StageInv
<1>4. /\ e \in IssuedHandles /\ e[1] \in Nat /\ e[2] \in 0 .. MaxGen - 1 /\ e[2] \in Nat
      /\ e[1] \in Indices /\ e \in Handles
  <2>1. e \in IssuedHandles
    BY <1>2 DEF TypesInv
  <2>2. QED
    BY <2>1, HandleIs DEF Indices
<1>5. /\ Slots(al) \in Nat /\ al.next_reserved \in Nat /\ MaxGen \in Nat
      /\ \A i \in Nat : Gen(al, i) \in 0 .. MaxGen
  BY <1>2, AllocFacts
<1>6. e[1] \notin Free(al.free) /\ Gen(al, e[1]) = e[2]
  <2>1. e[1] \notin Free(al.free)
    BY <1>1, <1>2 DEF Owned, Disjoint
  <2>2. QED
    BY <1>1, <2>1 DEF IsAlive, Gen
<1>7. /\ AllocOK(al') /\ Slots(al') = Slots(al) /\ al'.next_reserved = al.next_reserved
      /\ Free(al'.free) = Free(al.free) \cup {e[1]} /\ al'.free.cap = al.free.cap
      /\ Gen(al', e[1]) = e[2] + 1
      /\ \A i \in Nat : i # e[1] => Gen(al', i) = Gen(al, i)
  BY <1>1, <1>2, <1>4, <1>6, DeallocIs
<1>8. Owned(al', placed', leaked', allocated', orphans')
  <2> DEFINE F == {e[1]}
  <2>1. /\ Free(al'.free) = Free(al.free) \cup F /\ F \subseteq placed /\ placed' = placed \ F
        /\ \A i \in Nat : i \notin F => Gen(al', i) = Gen(al, i)
    BY <1>1, <1>7
  <2> HIDE DEF F
  <2>2. Owned(al', placed', leaked, allocated, orphans)
    BY <1>2, <1>7, <2>1, OwnedFreed
  <2>3. QED
    BY <1>1, <2>2
<1>9. r.op = "despawn" /\ r.handles = <<e>> /\ Len(r.handles) = 1 /\ r.handles[1] = e /\ RecordOK(r)
  <2>1. <<e>> \in Seq(Handles) /\ <<e>> \in Seq(IssuedHandles) /\ Len(<<e>>) = 1 /\ <<e>>[1] = e
    BY <1>4
  <2>2. OneEach(<<e>>)
    BY <2>1 DEF OneEach
  <2>3. QED
    BY <2>1, <2>2 DEF RecordOK, LogRecords
<1>10. IndicesOf(r.handles) = {e[1]} /\ GenIn(r, e[1]) = e[2]
  <2>1. r.handles \in Seq(IssuedHandles) /\ 1 \in 1 .. Len(r.handles)
    BY <1>9 DEF RecordOK
  <2>2. IndicesOf(r.handles) = {r.handles[k][1] : k \in 1 .. Len(r.handles)}
    BY <2>1, IndicesIs
  <2>3. GenIn(r, r.handles[1][1]) = r.handles[1][2]
    BY <1>9, <2>1, GenInIs
  <2> HIDE DEF r
  <2>4. QED
    BY <1>9, <2>2, <2>3
<1> HIDE DEF r
<1>11. Done \in 0 .. Len(log) /\ Done = Len(log) /\ Len(log) \in Nat
  BY <1>2, <1>3, DoneIs
<1>12. ASSUME NEW i \in Indices
       PROVE  /\ GenAfter(saved, log, Done, i) \in Nat
              /\ i \in placed <=> RowAfter(saved, log, Done, i)
              /\ GenAfter(saved, log, Done, i) <= Gen(al, i)
              /\ i \in placed => GenAfter(saved, log, Done, i) = Gen(al, i)
  BY <1>2, <1>3, <1>11, GenAfterType DEF ReplayInv
<1>13. \A j \in 1 .. Len(r.handles) :
         LET h == r.handles[j]
         IN  IF r.op = "spawn"
             THEN ~RowAfter(saved, log, Done, h[1]) /\ GenAfter(saved, log, Done, h[1]) <= h[2]
             ELSE RowAfter(saved, log, Done, h[1]) /\ GenAfter(saved, log, Done, h[1]) = h[2]
  <2>1. RowAfter(saved, log, Done, e[1]) /\ GenAfter(saved, log, Done, e[1]) = e[2]
    BY <1>1, <1>4, <1>6, <1>12
  <2>2. \A j \in 1 .. Len(r.handles) : r.handles[j] = e
    BY <1>9
  <2>3. QED
    BY <1>9, <2>1, <2>2
<1>14. /\ SavedInv' /\ LogInv' /\ Running' /\ Done' = Len(log') /\ Len(log') = Len(log) + 1
       /\ \A n \in 1 .. Len(log) : log'[n] = log[n]
       /\ \A i \in IndicesOf(r.handles) :
            /\ RowAfter(saved', log', Done', i) <=> r.op = "spawn"
            /\ GenAfter(saved', log', Done', i) = IF r.op = "spawn" THEN GenIn(r, i) ELSE GenIn(r, i) + 1
       /\ \A i : i \notin IndicesOf(r.handles) =>
            /\ RowAfter(saved', log', Done', i) <=> RowAfter(saved, log, Done, i)
            /\ GenAfter(saved', log', Done', i) = GenAfter(saved, log, Done, i)
  BY <1>1, <1>2, <1>3, <1>9, <1>13, LogAppend
<1>15. TypesInv'
  BY <1>1, <1>2 DEF TypesInv, CallStages
<1>16. StageInv'
  BY <1>1, <1>2, <1>3, <1>14 DEF StageInv
<1>17. ASSUME NEW x \in IssuedHandles, Stale(al, x) PROVE Stale(al', x)
  <2>1. x[1] \in Nat
    BY HandleIs
  <2>2. /\ Gen(al, x[1]) <= Gen(al', x[1]) /\ al.next_reserved <= al'.next_reserved
        /\ x[1] = e[1] => Gen(al, x[1]) < Gen(al', x[1])
    BY <1>4, <1>5, <1>6, <1>7, <2>1
  <2>3. x[1] \in Free(al'.free) => x[1] \in Free(al.free) \/ Gen(al, x[1]) < Gen(al', x[1])
    BY <1>7, <2>2
  <2>4. QED
    BY <1>2, <1>7, <1>17, <2>2, <2>3, StaleStays
<1>18. FreshInv'
  <2>1. ASSUME NEW x \in committed'
        PROVE  Stale(Base(saved'), x) \/ \E n \in 1 .. Len(log') : Spawns(n, x)'
    <3>1. Stale(Base(saved), x) \/ \E n \in 1 .. Len(log) : Spawns(n, x)
      BY <1>1, <1>2 DEF FreshInv
    <3>2. ASSUME NEW n \in 1 .. Len(log), Spawns(n, x)
          PROVE  n \in 1 .. Len(log') /\ Spawns(n, x)'
      BY <1>11, <1>14, <3>2 DEF Spawns
    <3>3. QED
      BY <1>1, <3>1, <3>2
  <2>2. ASSUME NEW x \in issued' \cup committed' PROVE Stale(al', x)
    <3>1. Stale(al, x) \/ \E n \in Done + 1 .. Len(log) : Spawns(n, x)
      BY <1>1, <1>2, <1>3 DEF FreshInv
    <3>2. Done + 1 .. Len(log) = {}
      BY <1>11
    <3>3. x \in IssuedHandles
      BY <1>1, <1>2 DEF TypesInv
    <3>4. QED
      BY <1>17, <3>1, <3>2, <3>3
  <2>3. ASSUME NEW x \in committed' PROVE x[1] < Slots(al')
    BY <1>1, <1>2, <1>3, <1>7 DEF FreshInv
  <2>4. QED
    BY <2>1, <2>2, <2>3 DEF FreshInv
<1>19. ReplayInv'
  <2> SUFFICES ASSUME NEW i \in Indices
               PROVE  /\ i \in placed' <=> RowAfter(saved', log', Done', i)
                      /\ GenAfter(saved', log', Done', i) <= Gen(al', i)
                      /\ i \in placed' => GenAfter(saved', log', Done', i) = Gen(al', i)
    BY <1>14 DEF ReplayInv
  <2>1. i \in Nat
    BY FreeListAssumption DEF Indices
  <2>2. CASE i = e[1]
    <3>1. i \in IndicesOf(r.handles) /\ i \notin placed'
      BY <1>1, <1>10, <2>2
    <3>2. ~RowAfter(saved', log', Done', i) /\ GenAfter(saved', log', Done', i) = e[2] + 1
      BY <1>9, <1>10, <1>14, <2>2, <3>1
    <3>3. QED
      BY <1>4, <1>7, <2>2, <3>1, <3>2
  <2>3. CASE i # e[1]
    <3>1. i \notin IndicesOf(r.handles) /\ (i \in placed' <=> i \in placed) /\ Gen(al', i) = Gen(al, i)
      BY <1>1, <1>7, <1>10, <2>1, <2>3
    <3>2. QED
      BY <1>12, <1>14, <3>1
  <2>4. QED
    BY <2>2, <2>3
<1>20. QuiescentReplayAccepted'
  BY <1>1, <1>2 DEF QuiescentReplayAccepted
<1>21. QED
  BY <1>7, <1>8, <1>14, <1>15, <1>16, <1>18, <1>19, <1>20 DEF IInv

LEMMA CheckpointKeeps ==
  ASSUME IInv, Checkpoint
  PROVE  IInv'
<1> DEFINE none == [t \in Txs |-> <<>>]
           n == Slots(al)
<1>1. /\ UNCHANGED <<placed, issued, leaked, committed, allocated, loaded, dropStage, orphans,
                     has_items, stage, replay, rejected>>
      /\ Running /\ stage = "idle" /\ saves < MaxSaves /\ saves' = saves + 1 /\ log' = <<>>
      /\ saved' = [generations |-> al.generations, free |-> AsSlice(al.free),
                   placed |-> placed, unplaced |-> Unplaced(al, placed)]
      /\ al' = [al EXCEPT !.free = CacheSlice(al.free)]
  BY DEF Checkpoint, txVars, queueVars, recoveryVars, NoMutBorrow
<1>2. /\ AllocOK(al) /\ Owned(al, placed, leaked, allocated, orphans) /\ TypesInv /\ StageInv
      /\ SavedInv /\ LogInv /\ FreshInv /\ ReplayInv /\ QuiescentReplayAccepted
  BY DEF IInv
<1>3. ~rejected /\ Running' /\ Done = Len(log) /\ Len(log) \in Nat /\ Len(log') = 0 /\ Done' = 0
  <2>1. ~rejected /\ Running'
    BY <1>1, <1>2 DEF StageInv, Running
  <2>2. Done = Len(log) /\ Len(log) \in Nat
    BY <1>1, <1>2, DoneIs
  <2>3. QED
    BY <1>1, <2>1, <2>2 DEF Done, Running
<1>4. /\ n \in Nat /\ REMOVED \in Nat /\ n <= REMOVED /\ MaxGen \in Nat /\ al.next_reserved \in Nat
      /\ \A i \in Nat : Gen(al, i) \in 0 .. MaxGen
  BY <1>2, AllocFacts
<1>5. /\ DOMAIN al = AllocatorFields /\ Sound(al.free) /\ al.generations \in Seq(0 .. MaxGen)
      /\ Free(al.free) \subseteq 0 .. n - 1 /\ n <= al.free.cap
      /\ al.next_reserved \in 0 .. REMOVED /\ n <= al.next_reserved
  BY <1>2 DEF AllocOK
<1>6. /\ AllocOK(al') /\ Slots(al') = n /\ al'.next_reserved = al.next_reserved
      /\ Free(al'.free) = Free(al.free) /\ \A i : Gen(al', i) = Gen(al, i)
  <2>1. Sound(CacheSlice(al.free)) /\ CacheSlice(al.free).slots = al.free.slots
        /\ CacheSlice(al.free).cap = al.free.cap
    BY <1>5, CacheIs
  <2>2. /\ DOMAIN al' = AllocatorFields /\ al'.generations = al.generations
        /\ al'.free = CacheSlice(al.free) /\ al'.next_reserved = al.next_reserved
    BY <1>1, <1>5 DEF AllocatorFields
  <2>3. Free(al'.free) = Free(al.free)
    BY <2>1, <2>2 DEF Free
  <2>4. Slots(al') = n /\ \A i : Gen(al', i) = Gen(al, i)
    BY <2>2 DEF Slots, Gen, GenOf
  <2>5. AllocOK(al')
    BY <1>5, <2>1, <2>2, <2>3, <2>4 DEF AllocOK
  <2>6. QED
    BY <2>2, <2>3, <2>4, <2>5
<1>7. Owned(al', placed', leaked', allocated', orphans')
  <2>1. n <= Slots(al')
    BY <1>4, <1>6
  <2>2. Owned(al', placed, leaked, allocated, orphans)
    BY <1>2, <1>6, <2>1, OwnedSame
  <2>3. QED
    BY <1>1, <2>2
<1>8. /\ saved'.generations = al.generations /\ saved'.free = Live(al.free.slots)
      /\ saved'.placed = placed /\ saved'.unplaced = Unplaced(al, placed)
      /\ AsSlice(al.free) = Live(al.free.slots) /\ Range(Live(al.free.slots)) = Free(al.free)
      /\ Live(al.free.slots) \in Seq(Entries)
  BY <1>1, <1>5, SoundSuffices
<1>9. Unplaced(al, placed) = {i \in 0 .. n - 1 : i \notin placed /\ i \notin Free(al.free)}
  BY <1>8 DEF Unplaced
<1>10. placed \subseteq 0 .. n - 1
  BY <1>2 DEF Owned
<1>11. saved' \in SavedStates /\ saved' # None
  <2>1. placed \subseteq Indices /\ Unplaced(al, placed) \subseteq Indices
    BY <1>4, <1>9, <1>10 DEF Indices
  <2>2. AsSlice(al.free) \in Seq(0 .. REMOVED)
    BY <1>8 DEF Entries
  <2>3. saved' \in SavedStates
    BY <1>1, <1>5, <2>1, <2>2 DEF SavedStates
  <2>4. QED
    BY <2>3, EntityAllocatorAssumption
<1> DEFINE b == Base(saved')
<1>12. /\ AllocOK(b) /\ Slots(b) = n /\ b.next_reserved = n /\ b.generations = al.generations
       /\ Free(b.free) = Free(al.free)
  <2> DEFINE s == saved'
  <2>1. b = Restore(s)
    BY <1>11 DEF Base
  <2>2. s.free \in Seq(Entries) /\ HolesIn(s.free) = {} /\ Distinct(s.free)
    <3>1. al.free.slots \in Seq(Entries) /\ Distinct(al.free.slots)
      BY <1>5 DEF Sound
    <3>2. /\ \A i \in 1 .. Len(Live(al.free.slots)) : Live(al.free.slots)[i] # REMOVED
          /\ Distinct(Live(al.free.slots))
      BY <3>1, LiveIs
    <3>3. HolesIn(Live(al.free.slots)) = {}
      BY <3>2 DEF HolesIn, HolesUpTo
    <3>4. QED
      BY <1>8, <3>2, <3>3
  <2>3. s.generations = al.generations /\ Len(s.generations) = n /\ Range(s.free) = Free(al.free)
    BY <1>8 DEF Slots
  <2> HIDE DEF s, n
  <2>4. /\ s.generations \in Seq(0 .. MaxGen) /\ Len(s.generations) <= REMOVED
        /\ Range(s.free) \subseteq 0 .. Len(s.generations) - 1
    BY <1>4, <1>5, <2>3
  <2>5. /\ AllocOK(Restore(s)) /\ Slots(Restore(s)) = Len(s.generations)
        /\ Restore(s).next_reserved = Slots(Restore(s))
        /\ Restore(s).generations = s.generations /\ Free(Restore(s).free) = Range(s.free)
    BY <2>2, <2>4, RestoreIs
  <2>6. QED
    BY <2>1, <2>3, <2>5
<1>13. BaseRows(saved') = placed /\ BaseLost(saved') = Unplaced(al, placed)
  BY <1>8, <1>11 DEF BaseRows, BaseLost
<1> HIDE DEF b
<1>14. \A i \in Nat : Gen(b, i) = Gen(al, i)
  BY <1>12 DEF Gen, GenOf
<1>15. Owned(b, placed, Unplaced(al, placed), none, <<>>)
  <2>1. \A i \in placed : i \notin Free(al.free)
    BY <1>2 DEF Owned, Disjoint
  <2>2. \A t \in Txs : none[t] = <<>> /\ IndicesOf(none[t]) = {}
    BY NoIndices
  <2>3. Alive(b, <<>>) /\ \A t \in Txs : Alive(b, none[t])
    BY <2>2, EmptyAlive
  <2> HIDE DEF none
  <2>4. Disjoint(b, placed, Unplaced(al, placed), none, <<>>)
    BY <1>9, <1>12, <2>1, <2>2, NoIndices DEF Disjoint
  <2>5. Covered(b, placed, Unplaced(al, placed), none, <<>>)
    BY <1>9, <1>12 DEF Covered
  <2>6. Unplaced(al, placed) \subseteq 0 .. Slots(b) - 1 /\ placed \subseteq 0 .. Slots(b) - 1
    BY <1>9, <1>10, <1>12
  <2>7. QED
    BY <2>3, <2>4, <2>5, <2>6 DEF Owned
<1>16. SavedInv'
  BY <1>11, <1>12, <1>13, <1>15 DEF SavedInv, b
<1>17. LogInv'
  <2>1. log' \in Seq(LogRecords) /\ 1 .. Len(log') = {}
    BY <1>1, <1>3
  <2>2. QED
    BY <1>3, <2>1 DEF LogInv
<1>18. TypesInv'
  <2>1. saves' \in 0 .. MaxSaves
    <3>1. saves \in 0 .. MaxSaves /\ MaxSaves \in Nat
      BY <1>2, EntityAllocatorAssumption DEF TypesInv
    <3>2. QED
      BY <1>1, <3>1
  <2>2. QED
    BY <1>1, <1>2, <2>1 DEF TypesInv
<1>19. StageInv'
  BY <1>1, <1>2, <1>3 DEF StageInv
<1>20. ASSUME NEW e \in issued \cup committed
       PROVE  e[1] \in Nat /\ e[2] \in Nat /\ Stale(al, e) /\ Stale(al', e)
  <2>1. Stale(al, e) \/ \E k \in Done + 1 .. Len(log) : Spawns(k, e)
    BY <1>2, <1>3 DEF FreshInv
  <2>2. Done + 1 .. Len(log) = {}
    BY <1>3
  <2>3. e \in IssuedHandles
    BY <1>2 DEF TypesInv
  <2>4. e[1] \in Nat /\ e[2] \in Nat
    BY <2>3, HandleIs
  <2>5. Stale(al', e)
    BY <1>6, <2>1, <2>2 DEF Stale
  <2>6. QED
    BY <2>1, <2>2, <2>4, <2>5
<1>21. FreshInv'
  <2>1. ASSUME NEW e \in committed PROVE Stale(b, e) /\ e[1] < n
    <3>1. e[1] < n
      BY <1>1, <1>2 DEF FreshInv
    <3>2. Gen(b, e[1]) = Gen(al, e[1])
      BY <1>14, <1>20
    <3>3. Stale(b, e)
      BY <1>12, <1>20, <3>1, <3>2 DEF Stale
    <3>4. QED
      BY <3>1, <3>3
  <2>2. \A e \in committed' : Stale(Base(saved'), e) /\ e[1] < Slots(al')
    BY <1>1, <1>6, <2>1 DEF b
  <2>3. \A e \in issued' \cup committed' : Stale(al', e)
    BY <1>1, <1>20
  <2>4. QED
    BY <2>2, <2>3 DEF FreshInv
<1>22. ReplayInv'
  <2> SUFFICES ASSUME NEW i \in Indices
               PROVE  /\ i \in placed' <=> RowAfter(saved', log', Done', i)
                      /\ GenAfter(saved', log', Done', i) <= Gen(al', i)
                      /\ i \in placed' => GenAfter(saved', log', Done', i) = Gen(al', i)
    BY <1>3 DEF ReplayInv
  <2>1. i \in Nat
    BY FreeListAssumption DEF Indices
  <2>2. /\ RowAfter(saved', log', 0, i) <=> i \in BaseRows(saved')
        /\ GenAfter(saved', log', 0, i) = Gen(Base(saved'), i)
    BY AfterNone
  <2>3. Gen(b, i) = Gen(al', i) /\ Gen(al', i) \in Nat
    BY <1>4, <1>6, <1>14, <2>1
  <2>4. QED
    BY <1>1, <1>3, <1>13, <2>2, <2>3 DEF b
<1>23. QuiescentReplayAccepted'
  BY <1>1, <1>3 DEF QuiescentReplayAccepted
<1>24. QED
  BY <1>6, <1>7, <1>16, <1>17, <1>18, <1>19, <1>21, <1>22, <1>23 DEF IInv

LEMMA CrashKeeps ==
  ASSUME DiskInv, Crash
  PROVE  IInv'
<1> DEFINE none == [t \in Txs |-> <<>>]
<1>1. /\ UNCHANGED <<committed, saved, saves, log, rejected>>
      /\ Running /\ issued' = committed /\ allocated' = none
      /\ loaded' = [t \in Txs |-> None] /\ dropStage' = [t \in Txs |-> 0]
      /\ orphans' = <<>> /\ has_items' = FALSE /\ stage' = "idle" /\ replay' = log
  BY DEF Crash, diskVars
<1>2. al' = Base(saved) /\ placed' = BaseRows(saved) /\ leaked' = BaseLost(saved)
  BY DEF Crash, Base, BaseRows, BaseLost
<1>3. /\ committed \subseteq IssuedHandles /\ saves \in 0 .. MaxSaves /\ rejected = FALSE
      /\ SavedInv /\ LogInv
  BY DEF DiskInv
<1>4. ~rejected /\ ~Running' /\ Len(log) \in Nat /\ log \in Seq(LogRecords) /\ Done' = 0
  <2>1. ~rejected
    BY <1>3
  <2>2. log \in Seq(LogRecords) /\ Len(log) \in Nat
    BY <1>3, DoneIs DEF LogInv
  <2>3. log # None
    BY <2>2, EntityAllocatorAssumption
  <2>4. QED
    BY <1>1, <2>1, <2>2, <2>3 DEF Running, Done
<1>5. /\ AllocOK(al') /\ Slots(al') = al'.next_reserved
      /\ Owned(al', placed', leaked', allocated', orphans')
  BY <1>1, <1>2, <1>3 DEF SavedInv
<1>6. SavedInv'
  BY <1>1, <1>3 DEF SavedInv
<1>7. LogInv'
  <2>1. /\ replay' \in Seq(LogRecords) /\ Len(replay') <= Len(log')
        /\ \A k \in 1 .. Len(replay') : replay'[k] = log'[Done' + k]
    BY <1>1, <1>4
  <2>2. QED
    BY <1>1, <1>3, <2>1 DEF LogInv
<1>8. TypesInv'
  <2>1. allocated' \in [Txs -> Seq(IssuedHandles)]
    BY <1>1, NoIndices
  <2>2. /\ loaded' \in [Txs -> Indices \cup {None}] /\ dropStage' \in [Txs -> {0, 1}]
    BY <1>1
  <2>3. QED
    BY <1>1, <1>3, <2>1, <2>2 DEF TypesInv, CallStages
<1>9. StageInv'
  BY <1>1, <1>4, <1>5 DEF StageInv
<1>10. FreshInv'
  <2>1. \A n, e : Spawns(n, e)' <=> Spawns(n, e)
    BY <1>1 DEF Spawns
  <2>2. ASSUME NEW e \in committed
        PROVE  Stale(Base(saved), e) \/ \E n \in 1 .. Len(log) : Spawns(n, e)
    BY DEF DiskInv
  <2>3. Done' + 1 .. Len(log') = 1 .. Len(log)
    BY <1>1, <1>4
  <2>4. QED
    BY <1>1, <1>2, <1>4, <2>1, <2>2, <2>3 DEF FreshInv
<1>11. ReplayInv'
  <2>1. leaked' \subseteq BaseLost(saved')
    BY <1>1, <1>2
  <2>2. ASSUME NEW i \in Indices
        PROVE  /\ i \in placed' <=> RowAfter(saved', log', Done', i)
               /\ GenAfter(saved', log', Done', i) <= Gen(al', i)
               /\ GenAfter(saved', log', Done', i) = Gen(al', i)
    <3>1. i \in Nat
      BY FreeListAssumption DEF Indices
    <3>2. /\ RowAfter(saved', log', 0, i) <=> i \in BaseRows(saved')
          /\ GenAfter(saved', log', 0, i) = Gen(Base(saved'), i)
      BY AfterNone
    <3>3. MaxGen \in Nat /\ Gen(al', i) \in 0 .. MaxGen
      BY <1>5, <3>1, AllocFacts
    <3>4. QED
      BY <1>1, <1>2, <1>4, <3>2, <3>3
  <2>3. QED
    BY <2>1, <2>2 DEF ReplayInv
<1>12. QuiescentReplayAccepted'
  BY <1>1, <1>4 DEF QuiescentReplayAccepted
<1>13. QED
  BY <1>5, <1>6, <1>7, <1>8, <1>9, <1>10, <1>11, <1>12 DEF IInv

(* Replay moves to the next record of the log.                             *)
LEMMA ReplayAdvances ==
  ASSUME SavedInv, LogInv, ~Running, replay # <<>>, replay' = Tail(replay), UNCHANGED <<saved, log>>
  PROVE  /\ SavedInv' /\ LogInv' /\ ~Running' /\ Done' = Done + 1
         /\ Done \in Nat /\ Len(log) \in Nat /\ Done + 1 \in 1 .. Len(log) /\ Head(replay) = log[Done + 1]
         /\ RecordOK(log[Done + 1]) /\ Accepted(saved, log, Done + 1)
<1>1. /\ replay \in Seq(LogRecords) /\ Len(replay) <= Len(log) /\ Len(log) \in Nat
      /\ \A k \in 1 .. Len(replay) : replay[k] = log[Done + k]
      /\ Done = Len(log) - Len(replay)
  BY DEF LogInv, Done, Running
<1>2. /\ Len(replay) \in Nat /\ Len(replay) # 0 /\ Head(replay) = replay[1]
      /\ replay' \in Seq(LogRecords) /\ Len(replay') = Len(replay) - 1
      /\ \A k \in 1 .. Len(replay) - 1 : replay'[k] = replay[k + 1]
  BY <1>1
<1>3. ~Running'
  BY <1>2, EntityAllocatorAssumption DEF Running
<1>4. Done' = Len(log) - (Len(replay) - 1)
  BY <1>2, <1>3 DEF Done, Running
<1>5. /\ Done' = Done + 1 /\ Done \in Nat /\ Done + 1 \in 1 .. Len(log) /\ Head(replay) = log[Done + 1]
  BY <1>1, <1>2, <1>4
<1>6. SavedInv'
  BY DEF SavedInv
<1>7. ASSUME NEW k \in 1 .. Len(replay')
      PROVE  replay'[k] = log'[Done' + k]
  <2>1. k + 1 \in 1 .. Len(replay) /\ replay'[k] = replay[k + 1] /\ k \in Nat
    BY <1>2
  <2>2. Done + (k + 1) = Done' + k
    BY <1>5, <2>1
  <2>3. replay[k + 1] = log[Done + (k + 1)]
    BY <1>1, <2>1
  <2>4. QED
    BY <2>1, <2>2, <2>3
<1>8. /\ log \in Seq(LogRecords)
      /\ \A n \in 1 .. Len(log) : RecordOK(log[n]) /\ Accepted(saved, log, n)
  BY DEF LogInv
<1>9. LogInv'
  <2>1. replay' \in Seq(LogRecords) /\ Len(replay') <= Len(log')
    BY <1>1, <1>2
  <2>2. QED
    BY <1>7, <1>8, <2>1 DEF LogInv
<1>10. QED
  BY <1>1, <1>3, <1>5, <1>6, <1>8, <1>9

LEMMA RecoveredKeeps ==
  ASSUME IInv, Recovered
  PROVE  IInv'
<1>1. /\ UNCHANGED <<al, placed, issued, leaked, committed, allocated, loaded, dropStage, orphans,
                     has_items, stage, saved, saves, log, rejected>>
      /\ replay = <<>> /\ ~rejected /\ replay' = None
  BY DEF Recovered, worldVars, txVars, queueVars, diskVars
<1>2. /\ AllocOK(al) /\ Owned(al, placed, leaked, allocated, orphans) /\ TypesInv /\ StageInv
      /\ SavedInv /\ LogInv /\ FreshInv /\ ReplayInv /\ QuiescentReplayAccepted
  BY DEF IInv
<1>3. ~Running /\ Running' /\ Len(log) \in Nat
  <2>1. <<>> \in Seq(LogRecords)
    OBVIOUS
  <2>2. replay # None
    BY <1>1, <2>1, EntityAllocatorAssumption
  <2>3. QED
    BY <1>1, <1>2, <2>2, DoneIs DEF Running
<1>4. Done = Len(log) /\ Done' = Len(log)
  BY <1>1, <1>3 DEF Done, Running
<1>5. AllocOK(al') /\ Owned(al', placed', leaked', allocated', orphans')
  BY <1>1, <1>2
<1>6. TypesInv'
  BY <1>1, <1>2 DEF TypesInv
<1>7. StageInv'
  <2>1. /\ stage = "idle" /\ orphans = <<>> /\ \A t \in Txs : loaded[t] = None
    BY <1>2, <1>3 DEF StageInv
  <2>2. QED
    BY <1>1, <1>3, <2>1 DEF StageInv
<1>8. SavedInv'
  BY <1>1, <1>2 DEF SavedInv
<1>9. LogInv'
  BY <1>1, <1>2, <1>3 DEF LogInv
<1>10. FreshInv'
  <2>1. \A n, e : Spawns(n, e)' <=> Spawns(n, e)
    BY <1>1 DEF Spawns
  <2>2. \A e \in issued \cup committed : Stale(al, e)
    <3>1. Done + 1 .. Len(log) = {}
      BY <1>3, <1>4
    <3>2. QED
      BY <1>1, <1>2, <3>1 DEF FreshInv
  <2>3. Slots(al) = al.next_reserved
    BY <1>2, <1>3 DEF StageInv
  <2>4. \A e \in committed : e[1] < Slots(al)
    BY <2>2, <2>3 DEF Stale
  <2>5. \A e \in committed : Stale(Base(saved), e) \/ \E n \in 1 .. Len(log) : Spawns(n, e)
    BY <1>2 DEF FreshInv
  <2>6. QED
    BY <1>1, <2>1, <2>2, <2>4, <2>5 DEF FreshInv
<1>11. ReplayInv'
  BY <1>1, <1>2, <1>3, <1>4 DEF ReplayInv
<1>12. QuiescentReplayAccepted'
  BY <1>1, <1>2 DEF QuiescentReplayAccepted
<1>13. QED
  BY <1>5, <1>6, <1>7, <1>8, <1>9, <1>10, <1>11, <1>12 DEF IInv

LEMMA ReplayDespawnKeeps ==
  ASSUME IInv, ReplayDespawn
  PROVE  IInv'
<1> DEFINE d == Done
           r == log[d + 1]
           e == r.handles[1]
<1>1. /\ UNCHANGED <<issued, leaked, committed, allocated, loaded, dropStage, orphans, has_items,
                     stage, saved, saves, log>>
      /\ ~Running /\ ~rejected /\ replay # <<>> /\ Head(replay).op = "despawn"
      /\ replay' = Tail(replay)
  BY DEF ReplayDespawn, txVars, queueVars, diskVars
<1>2. /\ AllocOK(al) /\ Owned(al, placed, leaked, allocated, orphans) /\ TypesInv /\ StageInv
      /\ SavedInv /\ LogInv /\ FreshInv /\ ReplayInv /\ QuiescentReplayAccepted
  BY DEF IInv
<1>3. /\ SavedInv' /\ LogInv' /\ ~Running' /\ Done' = d + 1
      /\ d \in Nat /\ Len(log) \in Nat /\ d + 1 \in 1 .. Len(log) /\ Head(replay) = r
      /\ RecordOK(r) /\ Accepted(saved, log, d + 1)
  BY <1>1, <1>2, ReplayAdvances
<1>4. /\ r.op = "despawn" /\ Len(r.handles) = 1 /\ r.handles \in Seq(IssuedHandles)
      /\ Head(r.handles) = e /\ e \in IssuedHandles
  <2>1. r.op = "despawn" /\ Len(r.handles) = 1 /\ r.handles \in Seq(IssuedHandles)
    BY <1>1, <1>3 DEF RecordOK
  <2> HIDE DEF r
  <2>2. QED
    BY <2>1
<1>5. Slots(al) = al.next_reserved
  BY <1>1, <1>2 DEF StageInv
<1>6. /\ e[1] \in Nat /\ e[2] \in 0 .. MaxGen - 1 /\ e[2] \in Nat /\ e[1] \in Indices
  <2> HIDE DEF e
  <2>1. QED
    BY <1>4, HandleIs DEF Indices
<1>7. RowAfter(saved, log, d, e[1]) /\ GenAfter(saved, log, d, e[1]) = e[2]
  <2>1. 1 \in 1 .. Len(r.handles) /\ (d + 1) - 1 = d
    BY <1>3, <1>4
  <2>2. RowAfter(saved, log, (d + 1) - 1, e[1]) /\ GenAfter(saved, log, (d + 1) - 1, e[1]) = e[2]
    <3> HIDE DEF d
    <3>1. QED
      BY <1>3, <1>4, <2>1 DEF Accepted
  <2>3. QED
    BY <2>1, <2>2
<1>8. ASSUME NEW i \in Indices
      PROVE  /\ i \in placed <=> RowAfter(saved, log, d, i)
             /\ GenAfter(saved, log, d, i) = Gen(al, i)
  BY <1>1, <1>2 DEF ReplayInv
<1>9. /\ Slots(al) \in Nat /\ al.next_reserved \in Nat /\ MaxGen \in Nat
      /\ \A i \in Nat : Gen(al, i) \in 0 .. MaxGen
  BY <1>2, AllocFacts
<1>10. /\ e[1] \in placed /\ IsAlive(al, e) /\ Gen(al, e[1]) = e[2] /\ e[1] \notin Free(al.free)
  <2> HIDE DEF d, e
  <2>1. e[1] \in placed /\ Gen(al, e[1]) = e[2]
    BY <1>6, <1>7, <1>8
  <2>2. e[1] \notin Free(al.free) /\ e[1] < Slots(al)
    BY <1>2, <1>9, <2>1 DEF Owned, Disjoint
  <2>3. QED
    BY <2>1, <2>2 DEF IsAlive, Gen
<1>11. al' = Dealloc(al, e) /\ placed' = placed \ {e[1]} /\ rejected' = rejected
  <2>1. Head(Head(replay).handles) = e
    BY <1>3, <1>4
  <2> HIDE DEF e
  <2>2. QED
    BY <1>10, <2>1 DEF ReplayDespawn
<1>12. IndicesOf(r.handles) = {e[1]} /\ GenIn(r, e[1]) = e[2]
  <2>1. 1 \in 1 .. Len(r.handles)
    BY <1>4
  <2>2. IndicesOf(r.handles) = {r.handles[k][1] : k \in 1 .. Len(r.handles)}
    BY <1>4, IndicesIs
  <2>3. GenIn(r, r.handles[1][1]) = r.handles[1][2]
    BY <1>3, <2>1, GenInIs
  <2> HIDE DEF r
  <2>4. QED
    BY <1>4, <2>2, <2>3
<1>13. /\ RowAfter(saved, log, d + 1, e[1]) <=> FALSE
       /\ GenAfter(saved, log, d + 1, e[1]) = e[2] + 1
       /\ \A i : i # e[1] => /\ RowAfter(saved, log, d + 1, i) <=> RowAfter(saved, log, d, i)
                             /\ GenAfter(saved, log, d + 1, i) = GenAfter(saved, log, d, i)
  <2>1. \A i : /\ i \in IndicesOf(r.handles) =>
                    /\ RowAfter(saved, log, d + 1, i) <=> r.op = "spawn"
                    /\ GenAfter(saved, log, d + 1, i) = IF r.op = "spawn" THEN GenIn(r, i) ELSE GenIn(r, i) + 1
               /\ i \notin IndicesOf(r.handles) =>
                    /\ RowAfter(saved, log, d + 1, i) <=> RowAfter(saved, log, d, i)
                    /\ GenAfter(saved, log, d + 1, i) = GenAfter(saved, log, d, i)
    BY <1>3, AfterStep
  <2> HIDE DEF d, r, e
  <2>2. QED
    BY <1>4, <1>12, <2>1
<1> HIDE DEF d, r, e
<1>14. /\ AllocOK(al') /\ Slots(al') = Slots(al) /\ al'.next_reserved = al.next_reserved
       /\ Free(al'.free) = Free(al.free) \cup {e[1]}
       /\ Gen(al', e[1]) = e[2] + 1
       /\ \A i \in Nat : i # e[1] => Gen(al', i) = Gen(al, i)
  BY <1>2, <1>6, <1>10, <1>11, DeallocIs
<1>15. Owned(al', placed', leaked', allocated', orphans')
  <2> DEFINE F == {e[1]}
  <2>1. /\ Free(al'.free) = Free(al.free) \cup F /\ F \subseteq placed /\ placed' = placed \ F
        /\ \A i \in Nat : i \notin F => Gen(al', i) = Gen(al, i)
    BY <1>10, <1>11, <1>14
  <2> HIDE DEF F
  <2>2. Owned(al', placed', leaked, allocated, orphans)
    BY <1>2, <1>14, <2>1, OwnedFreed
  <2>3. QED
    BY <1>1, <2>2
<1>16. TypesInv'
  BY <1>1, <1>2, <1>11 DEF TypesInv
<1>17. StageInv'
  BY <1>1, <1>2, <1>3, <1>5, <1>11, <1>14 DEF StageInv
<1>18. ASSUME NEW x \in IssuedHandles, Stale(al, x) PROVE Stale(al', x)
  <2>1. x[1] \in Nat
    BY HandleIs
  <2>2. /\ Gen(al, x[1]) <= Gen(al', x[1]) /\ al.next_reserved <= al'.next_reserved
        /\ x[1] = e[1] => Gen(al, x[1]) < Gen(al', x[1])
    BY <1>6, <1>9, <1>10, <1>14, <2>1
  <2>3. x[1] \in Free(al'.free) => x[1] \in Free(al.free) \/ Gen(al, x[1]) < Gen(al', x[1])
    BY <1>14, <2>2
  <2>4. QED
    BY <1>2, <1>14, <1>18, <2>2, <2>3, StaleStays
<1>19. FreshInv'
  <2>1. \A n, x : Spawns(n, x)' <=> Spawns(n, x)
    BY <1>1 DEF Spawns
  <2>2. ASSUME NEW x \in issued \cup committed
        PROVE  Stale(al', x) \/ \E n \in Done' + 1 .. Len(log) : Spawns(n, x)
    <3>1. Stale(al, x) \/ \E n \in d + 1 .. Len(log) : Spawns(n, x)
      BY <1>1, <1>2 DEF FreshInv, d
    <3>2. x \in IssuedHandles
      BY <1>2 DEF TypesInv
    <3>3. ASSUME NEW n \in d + 1 .. Len(log), Spawns(n, x)
          PROVE  n \in Done' + 1 .. Len(log)
      <4>1. n # d + 1
        BY <1>4, <3>3 DEF Spawns, r
      <4>2. QED
        BY <1>3, <4>1
    <3>4. QED
      BY <1>18, <3>1, <3>2, <3>3
  <2>3. \A x \in committed : Stale(Base(saved), x) \/ \E n \in 1 .. Len(log) : Spawns(n, x)
    BY <1>2 DEF FreshInv
  <2>4. QED
    BY <1>1, <1>3, <2>1, <2>2, <2>3 DEF FreshInv
<1>20. ReplayInv'
  <2>1. leaked' \subseteq BaseLost(saved')
    BY <1>1, <1>2 DEF ReplayInv
  <2>2. ASSUME NEW i \in Indices
        PROVE  /\ i \in placed' <=> RowAfter(saved', log', Done', i)
               /\ GenAfter(saved', log', Done', i) <= Gen(al', i)
               /\ GenAfter(saved', log', Done', i) = Gen(al', i)
    <3>1. i \in Nat
      BY FreeListAssumption DEF Indices
    <3>2. Gen(al', i) \in 0 .. MaxGen
      BY <1>14, <3>1, AllocFacts
    <3>3. /\ i \in placed' <=> RowAfter(saved, log, d + 1, i)
          /\ GenAfter(saved, log, d + 1, i) = Gen(al', i)
      BY <1>8, <1>11, <1>13, <1>14, <3>1
    <3>4. QED
      BY <1>1, <1>3, <1>9, <3>2, <3>3
  <2>3. QED
    BY <2>1, <2>2 DEF ReplayInv
<1>21. QuiescentReplayAccepted'
  BY <1>1, <1>2, <1>11 DEF QuiescentReplayAccepted
<1>22. QED
  BY <1>3, <1>14, <1>15, <1>16, <1>17, <1>19, <1>20, <1>21 DEF IInv

LEMMA ReplaySpawnKeeps ==
  ASSUME IInv, ReplaySpawn
  PROVE  IInv'
<1> DEFINE d == Done
           r == log[d + 1]
           es == r.handles
           start == [ok |-> TRUE, al |-> al, placed |-> placed]
           w == Adopts(start, es)[Len(es)]
<1>1. /\ UNCHANGED <<issued, committed, allocated, loaded, dropStage, orphans, has_items,
                     stage, saved, saves, log>>
      /\ ~Running /\ ~rejected /\ replay # <<>> /\ Head(replay).op = "spawn"
      /\ replay' = Tail(replay)
  BY DEF ReplaySpawn, txVars, queueVars, diskVars
<1>2. /\ AllocOK(al) /\ Owned(al, placed, leaked, allocated, orphans) /\ TypesInv /\ StageInv
      /\ SavedInv /\ LogInv /\ FreshInv /\ ReplayInv /\ QuiescentReplayAccepted
  BY DEF IInv
<1>3. /\ SavedInv' /\ LogInv' /\ ~Running' /\ Done' = d + 1
      /\ d \in Nat /\ Len(log) \in Nat /\ d + 1 \in 1 .. Len(log) /\ Head(replay) = r
      /\ RecordOK(r) /\ Accepted(saved, log, d + 1)
  BY <1>1, <1>2, ReplayAdvances
<1>4. r.op = "spawn" /\ es \in Seq(IssuedHandles) /\ OneEach(es) /\ Len(es) \in Nat
  BY <1>1, <1>3 DEF RecordOK
<1>5. Slots(al) = al.next_reserved /\ Materialize(al) = al
  BY <1>1, <1>2, MaterializeIs DEF StageInv
<1>6. al' = w.al /\ placed' = w.placed /\ leaked' = leaked \ w.placed /\ rejected' = ~w.ok
  BY <1>3, <1>5 DEF ReplaySpawn
<1>7. /\ orphans = <<>> /\ \A t \in Txs : allocated[t] = <<>>
  BY <1>1, <1>2 DEF StageInv
<1>8. /\ Slots(al) \in Nat /\ al.next_reserved \in Nat /\ MaxGen \in Nat
      /\ \A i \in Nat : Gen(al, i) \in 0 .. MaxGen
  BY <1>2, AllocFacts
<1>9. ReplayWorld(start, leaked) /\ start.ok = TRUE /\ start.al = al /\ start.placed = placed
  <2>1. /\ DOMAIN start = {"ok", "al", "placed"} /\ start.ok = TRUE /\ start.al = al
        /\ start.placed = placed
    OBVIOUS
  <2> HIDE DEF start
  <2>2. \A i \in 0 .. Slots(al) - 1 : i \in Free(al.free) \/ i \in placed \/ i \in leaked
    BY <1>2, <1>5, <1>7, NoIndices DEF Owned, Covered
  <2>3. /\ placed \subseteq 0 .. Slots(al) - 1 /\ leaked \subseteq 0 .. Slots(al) - 1
        /\ \A i \in placed : i \notin Free(al.free)
        /\ \A i \in leaked : i \notin Free(al.free)
    BY <1>2 DEF Owned, Disjoint
  <2>4. QED
    BY <1>2, <1>5, <2>1, <2>2, <2>3 DEF ReplayWorld
<1> HIDE DEF start
<1>10. /\ ReplayWorld(w, leaked)
       /\ \A x \in IssuedHandles : Stale(al, x) => Stale(w.al, x)
       /\ w.ok => /\ w.placed = placed \cup IndicesOf(es)
                  /\ \A k \in 1 .. Len(es) : Gen(w.al, es[k][1]) = es[k][2] /\ Stale(w.al, es[k])
                  /\ \A i \in Nat : i \notin IndicesOf(es) => Gen(w.al, i) = Gen(al, i)
       /\ (\A k \in 1 .. Len(es) : /\ es[k][1] \notin placed /\ es[k][1] \notin leaked
                                   /\ Gen(al, es[k][1]) <= es[k][2])
          => w.ok
  <2> HIDE DEF es
  <2>1. LET v == Adopts(start, es)[Len(es)]
        IN  /\ ReplayWorld(v, leaked)
            /\ \A x \in IssuedHandles : Stale(start.al, x) => Stale(v.al, x)
            /\ v.ok => /\ v.placed = start.placed \cup IndicesOf(es)
                       /\ \A k \in 1 .. Len(es) : Gen(v.al, es[k][1]) = es[k][2] /\ Stale(v.al, es[k])
                       /\ \A i \in Nat : i \notin IndicesOf(es) => Gen(v.al, i) = Gen(start.al, i)
            /\ (\A k \in 1 .. Len(es) : /\ es[k][1] \notin start.placed /\ es[k][1] \notin leaked
                                        /\ Gen(start.al, es[k][1]) <= es[k][2])
               => v.ok
    BY <1>4, <1>9, AdoptsIs
  <2>2. QED
    BY <1>9, <2>1
<1> HIDE DEF w
<1>11. w.ok \in BOOLEAN /\ AllocOK(al') /\ Slots(al') = al'.next_reserved
  BY <1>6, <1>10 DEF ReplayWorld
<1>12. Owned(al', placed', leaked', allocated', orphans')
  <2>1. /\ placed' \subseteq 0 .. Slots(al') - 1 /\ leaked' \subseteq 0 .. Slots(al') - 1
        /\ \A i \in placed' : i \notin Free(al'.free) /\ i \notin leaked'
        /\ \A i \in leaked' : i \notin Free(al'.free)
        /\ \A i \in 0 .. Slots(al') - 1 : i \in Free(al'.free) \/ i \in placed' \/ i \in leaked'
    BY <1>6, <1>10 DEF ReplayWorld
  <2>2. Alive(al', orphans') /\ \A t \in Txs : Alive(al', allocated'[t])
    BY <1>1, <1>7, EmptyAlive
  <2>3. IndicesOf(orphans') = {} /\ \A t \in Txs : IndicesOf(allocated'[t]) = {}
    BY <1>1, <1>7, NoIndices
  <2>4. Disjoint(al', placed', leaked', allocated', orphans')
    BY <2>1, <2>3 DEF Disjoint
  <2>5. Covered(al', placed', leaked', allocated', orphans')
    BY <1>11, <2>1 DEF Covered
  <2>6. QED
    BY <2>1, <2>2, <2>4, <2>5 DEF Owned
<1>13. TypesInv'
  BY <1>1, <1>2, <1>6, <1>11 DEF TypesInv
<1>14. StageInv'
  BY <1>1, <1>2, <1>3, <1>11 DEF StageInv
<1>15. FreshInv'
  <2>1. \A n, x : Spawns(n, x)' <=> Spawns(n, x)
    BY <1>1 DEF Spawns
  <2>2. ASSUME ~rejected', NEW x \in issued \cup committed
        PROVE  Stale(al', x) \/ \E n \in Done' + 1 .. Len(log) : Spawns(n, x)
    <3>1. Stale(al, x) \/ \E n \in d + 1 .. Len(log) : Spawns(n, x)
      BY <1>1, <1>2 DEF FreshInv, d
    <3>2. x \in IssuedHandles
      BY <1>2 DEF TypesInv
    <3>3. Stale(al, x) => Stale(al', x)
      BY <1>6, <1>10, <3>2
    <3>4. ASSUME NEW n \in d + 1 .. Len(log), Spawns(n, x)
          PROVE  Stale(al', x) \/ n \in Done' + 1 .. Len(log)
      <4>1. CASE n = d + 1
        <5>1. PICK j \in 1 .. Len(es) : es[j] = x
          BY <3>4, <4>1 DEF Spawns, es, r
        <5>2. QED
          BY <1>6, <1>10, <1>11, <2>2, <5>1
      <4>2. CASE n # d + 1
        BY <1>3, <4>2
      <4>3. QED
        BY <4>1, <4>2
    <3>5. QED
      BY <3>1, <3>3, <3>4
  <2>3. \A x \in committed : Stale(Base(saved), x) \/ \E n \in 1 .. Len(log) : Spawns(n, x)
    BY <1>2 DEF FreshInv
  <2>4. QED
    BY <1>1, <1>3, <2>1, <2>2, <2>3 DEF FreshInv
<1>16. \A i : /\ i \in IndicesOf(es) =>
                   RowAfter(saved, log, d + 1, i) /\ GenAfter(saved, log, d + 1, i) = GenIn(r, i)
              /\ i \notin IndicesOf(es) =>
                   /\ RowAfter(saved, log, d + 1, i) <=> RowAfter(saved, log, d, i)
                   /\ GenAfter(saved, log, d + 1, i) = GenAfter(saved, log, d, i)
  <2>1. \A i : /\ i \in IndicesOf(r.handles) =>
                    /\ RowAfter(saved, log, d + 1, i) <=> r.op = "spawn"
                    /\ GenAfter(saved, log, d + 1, i) = IF r.op = "spawn" THEN GenIn(r, i) ELSE GenIn(r, i) + 1
               /\ i \notin IndicesOf(r.handles) =>
                    /\ RowAfter(saved, log, d + 1, i) <=> RowAfter(saved, log, d, i)
                    /\ GenAfter(saved, log, d + 1, i) = GenAfter(saved, log, d, i)
    BY <1>3, AfterStep
  <2> HIDE DEF d, r
  <2>2. QED
    BY <1>4, <2>1
<1>17. \A k \in 1 .. Len(es) : GenIn(r, es[k][1]) = es[k][2]
  BY <1>3, GenInIs
<1>18. IndicesOf(es) = {es[k][1] : k \in 1 .. Len(es)} /\ \A k \in 1 .. Len(es) : es[k] \in IssuedHandles
  <2> HIDE DEF es
  <2>1. QED
    BY <1>4, IndicesIs
<1>19. \A k \in 1 .. Len(es) : /\ ~RowAfter(saved, log, d, es[k][1])
                               /\ GenAfter(saved, log, d, es[k][1]) <= es[k][2]
  <2>1. (d + 1) - 1 = d
    BY <1>3
  <2>2. \A k \in 1 .. Len(es) : /\ ~RowAfter(saved, log, (d + 1) - 1, es[k][1])
                                /\ GenAfter(saved, log, (d + 1) - 1, es[k][1]) <= es[k][2]
    <3> HIDE DEF d
    <3>1. QED
      BY <1>3, <1>4 DEF Accepted
  <2>3. QED
    BY <2>1, <2>2
<1>20. ASSUME NEW i \in Indices
       PROVE  /\ i \in placed <=> RowAfter(saved, log, d, i)
              /\ GenAfter(saved, log, d, i) = Gen(al, i)
  BY <1>1, <1>2 DEF ReplayInv
<1> HIDE DEF d, r, es
<1>21. ReplayInv'
  <2> SUFFICES ASSUME ~rejected' PROVE ReplayInv'
    BY DEF ReplayInv
  <2>0. w.ok
    BY <1>6, <1>11
  <2>1. leaked' \subseteq BaseLost(saved')
    BY <1>1, <1>2, <1>6 DEF ReplayInv
  <2>2. ASSUME NEW i \in Indices
        PROVE  /\ i \in placed' <=> RowAfter(saved', log', Done', i)
               /\ GenAfter(saved', log', Done', i) <= Gen(al', i)
               /\ GenAfter(saved', log', Done', i) = Gen(al', i)
    <3>1. i \in Nat
      BY FreeListAssumption DEF Indices
    <3>2. Gen(al', i) \in 0 .. MaxGen
      BY <1>11, <3>1, AllocFacts
    <3>3. CASE i \in IndicesOf(es)
      <4>1. PICK k \in 1 .. Len(es) : i = es[k][1]
        BY <1>18, <3>3
      <4>2. i \in placed' /\ Gen(al', i) = es[k][2]
        BY <1>6, <1>10, <2>0, <3>3, <4>1
      <4>3. RowAfter(saved, log, d + 1, i) /\ GenAfter(saved, log, d + 1, i) = es[k][2]
        BY <1>16, <1>17, <3>3, <4>1
      <4>4. /\ i \in placed' <=> RowAfter(saved, log, d + 1, i)
            /\ GenAfter(saved, log, d + 1, i) = Gen(al', i)
        BY <4>2, <4>3
      <4>5. QED
        BY <1>1, <1>3, <1>8, <3>2, <4>4
    <3>4. CASE i \notin IndicesOf(es)
      <4>1. (i \in placed' <=> i \in placed) /\ Gen(al', i) = Gen(al, i)
        BY <1>6, <1>10, <2>0, <3>1, <3>4
      <4>2. /\ i \in placed <=> RowAfter(saved, log, d + 1, i)
            /\ GenAfter(saved, log, d + 1, i) = Gen(al, i)
        BY <1>16, <1>20, <3>4
      <4>3. QED
        BY <1>1, <1>3, <1>8, <3>2, <4>1, <4>2
    <3>5. QED
      BY <3>3, <3>4
  <2>3. QED
    BY <2>1, <2>2 DEF ReplayInv
<1>22. QuiescentReplayAccepted'
  <2> SUFFICES ASSUME BaseLost(saved) = {} PROVE w.ok
    BY <1>1, <1>6, <1>11 DEF QuiescentReplayAccepted, BaseLost
  <2>1. leaked = {}
    BY <1>1, <1>2 DEF ReplayInv
  <2>2. ASSUME NEW k \in 1 .. Len(es)
        PROVE  es[k][1] \notin placed /\ es[k][1] \notin leaked /\ Gen(al, es[k][1]) <= es[k][2]
    <3>1. es[k][1] \in Indices
      BY <1>18, HandleIs DEF Indices
    <3>2. QED
      BY <1>19, <1>20, <2>1, <3>1
  <2>3. QED
    BY <1>10, <2>2
<1>23. QED
  BY <1>3, <1>11, <1>12, <1>13, <1>14, <1>15, <1>21, <1>22 DEF IInv

-----------------------------------------------------------------------------
(* The invariant holds.                                                    *)

LEMMA InitKeeps ==
  ASSUME Init
  PROVE  IInv
<1> DEFINE none == [t \in Txs |-> <<>>]
<1>1. /\ al = EmptyAllocator /\ placed = {} /\ leaked = {} /\ allocated = none /\ orphans = <<>>
      /\ issued = {} /\ committed = {} /\ saved = None /\ log = <<>> /\ replay = None
      /\ loaded = [t \in Txs |-> None] /\ dropStage = [t \in Txs |-> 0] /\ has_items = FALSE
      /\ stage = "idle" /\ saves = 0 /\ rejected = FALSE
  BY DEF Init
<1>2. /\ DOMAIN EmptyAllocator = AllocatorFields /\ EmptyAllocator.generations = <<>>
      /\ EmptyAllocator.next_reserved = 0 /\ EmptyAllocator.free = EmptyFreeList
      /\ Slots(EmptyAllocator) = 0
  BY DEF EmptyAllocator, AllocatorFields, Slots
<1>3. AllocOK(EmptyAllocator)
  <2>1. Sound(EmptyFreeList) /\ Free(EmptyFreeList) = {} /\ EmptyFreeList.cap = 0
    BY EmptyIs
  <2>2. REMOVED \in Nat /\ <<>> \in Seq(0 .. MaxGen)
    BY FreeListAssumption
  <2>3. QED
    BY <1>2, <2>1, <2>2 DEF AllocOK
<1>4. Owned(EmptyAllocator, {}, {}, none, <<>>)
  <2>1. \A t \in Txs : none[t] = <<>>
    OBVIOUS
  <2> HIDE DEF none
  <2>2. Alive(EmptyAllocator, <<>>) /\ \A t \in Txs : Alive(EmptyAllocator, none[t])
    BY <2>1, EmptyAlive
  <2>3. IndicesOf(<<>>) = {} /\ \A t \in Txs : IndicesOf(none[t]) = {}
    BY <2>1, NoIndices
  <2>4. Disjoint(EmptyAllocator, {}, {}, none, <<>>)
    BY <2>3 DEF Disjoint
  <2>5. Covered(EmptyAllocator, {}, {}, none, <<>>)
    BY <1>2 DEF Covered
  <2>6. QED
    BY <2>2, <2>4, <2>5 DEF Owned
<1>5. Base(saved) = EmptyAllocator /\ BaseRows(saved) = {} /\ BaseLost(saved) = {}
  BY <1>1 DEF Base, BaseRows, BaseLost
<1>6. SavedInv
  BY <1>1, <1>2, <1>3, <1>4, <1>5 DEF SavedInv
<1>7. Running /\ Len(log) = 0 /\ Done = 0 /\ log \in Seq(LogRecords)
  BY <1>1 DEF Running, Done
<1>8. LogInv
  BY <1>7 DEF LogInv
<1>9. FreshInv
  BY <1>1 DEF FreshInv
<1>10. TypesInv
  <2>1. allocated \in [Txs -> Seq(IssuedHandles)]
    BY <1>1, NoIndices
  <2>2. loaded \in [Txs -> Indices \cup {None}] /\ dropStage \in [Txs -> {0, 1}]
    BY <1>1
  <2>3. saves \in 0 .. MaxSaves
    BY <1>1, EntityAllocatorAssumption
  <2>4. QED
    BY <1>1, <2>1, <2>2, <2>3 DEF TypesInv, CallStages
<1>11. StageInv
  BY <1>1, <1>7 DEF StageInv
<1>12. ReplayInv
  <2>1. ASSUME NEW i \in Indices
        PROVE  /\ i \in placed <=> RowAfter(saved, log, Done, i)
               /\ GenAfter(saved, log, Done, i) = Gen(al, i) /\ Gen(al, i) \in Nat
    <3>1. /\ RowAfter(saved, log, 0, i) <=> i \in BaseRows(saved)
          /\ GenAfter(saved, log, 0, i) = Gen(Base(saved), i)
      BY AfterNone
    <3>2. i \in Nat
      BY FreeListAssumption DEF Indices
    <3>3. Gen(EmptyAllocator, i) \in Nat
      BY <1>2, <3>2 DEF Gen
    <3>4. QED
      BY <1>1, <1>5, <1>7, <3>1, <3>3
  <2>2. QED
    BY <1>7, <2>1 DEF ReplayInv
<1>13. QuiescentReplayAccepted
  BY <1>1 DEF QuiescentReplayAccepted
<1>14. QED
  BY <1>1, <1>3, <1>4, <1>6, <1>8, <1>9, <1>10, <1>11, <1>12, <1>13 DEF IInv

LEMMA StutterKeeps ==
  ASSUME IInv, UNCHANGED vars
  PROVE  IInv'
<1>1. UNCHANGED <<al, placed, issued, leaked, committed, saved, saves, log, replay, rejected>>
  BY DEF vars, worldVars, diskVars, recoveryVars
<1>2. UNCHANGED <<allocated, loaded, dropStage, orphans, has_items, stage>>
  BY DEF vars, txVars, queueVars
<1>3. /\ AllocOK(al') /\ SavedInv' /\ LogInv' /\ FreshInv' /\ ReplayInv' /\ QuiescentReplayAccepted'
      /\ (Running' <=> Running)
  BY <1>1, WorldKept
<1>4. Owned(al', placed', leaked', allocated', orphans') /\ TypesInv' /\ StageInv'
  BY <1>1, <1>2, <1>3 DEF IInv, TypesInv, StageInv
<1>5. QED
  BY <1>3, <1>4 DEF IInv

(* The steps at the end of the index space: transactions are dropped.       *)
LEMMA DropStepEnds ==
  ASSUME EndInv, NEW t \in Txs, DropStep(t)
  PROVE  EndInv'
<1>1. UNCHANGED <<al, placed, issued, leaked, committed, loaded, stage, saved, saves, log, replay, rejected>>
  BY DEF DropStep, worldVars, diskVars, recoveryVars
<1>2. /\ dropStage \in [Txs -> {0, 1}] /\ allocated \in [Txs -> Seq(Handles)]
      /\ orphans \in Seq(Handles) /\ has_items \in BOOLEAN /\ DiskInv
      /\ orphans # <<>> => has_items \/ \E u \in Txs : dropStage[u] # 0
  BY DEF EndInv
<1>3. DiskInv' /\ Running'
  <2>1. SavedInv' /\ LogInv' /\ (Running' <=> Running) /\ \A n, e : Spawns(n, e)' <=> Spawns(n, e)
    BY <1>1, <1>2, DiskKept DEF DiskInv
  <2>2. QED
    BY <1>1, <1>2, <2>1 DEF DiskInv, EndInv
<1>4. CASE dropStage[t] = 0
  <2>1. DropOrder[dropStage[t] + 1] = "push"
    BY <1>4 DEF DropOrder
  <2>2. /\ orphans' = orphans \o allocated[t] /\ has_items' = has_items
        /\ allocated' = [allocated EXCEPT ![t] = <<>>]
    BY <1>4, <2>1 DEF DropStep
  <2>3. dropStage' = [dropStage EXCEPT ![t] = 1]
    <3>1. Len(DropOrder) = 2 /\ (0 + 1) % 2 = 1
      BY DEF DropOrder
    <3>2. dropStage' = [dropStage EXCEPT ![t] = (dropStage[t] + 1) % Len(DropOrder)]
      BY DEF DropStep
    <3>3. QED
      BY <1>4, <3>1, <3>2
  <2>4. orphans' \in Seq(Handles) /\ allocated' \in [Txs -> Seq(Handles)]
    BY <1>2, <2>2
  <2>5. dropStage' \in [Txs -> {0, 1}] /\ dropStage'[t] # 0
    BY <1>2, <2>3
  <2>6. QED
    BY <1>1, <1>2, <1>3, <2>2, <2>4, <2>5 DEF EndInv
<1>5. CASE dropStage[t] = 1
  <2>1. DropOrder[dropStage[t] + 1] = "flag"
    BY <1>5 DEF DropOrder
  <2>2. orphans' = orphans /\ allocated' = allocated /\ has_items' = TRUE
    BY <1>5, <2>1 DEF DropStep
  <2>3. dropStage' = [dropStage EXCEPT ![t] = 0]
    <3>1. Len(DropOrder) = 2 /\ (1 + 1) % 2 = 0
      BY DEF DropOrder
    <3>2. dropStage' = [dropStage EXCEPT ![t] = (dropStage[t] + 1) % Len(DropOrder)]
      BY DEF DropStep
    <3>3. QED
      BY <1>5, <3>1, <3>2
  <2>4. dropStage' \in [Txs -> {0, 1}]
    BY <1>2, <2>3
  <2>5. QED
    BY <1>1, <1>2, <1>3, <2>2, <2>4 DEF EndInv
<1>6. QED
  BY <1>2, <1>4, <1>5

LEMMA StutterEnds ==
  ASSUME EndInv, UNCHANGED vars
  PROVE  EndInv'
<1>1. UNCHANGED <<al, placed, issued, leaked, committed, saved, saves, log, replay, rejected>>
  BY DEF vars, worldVars, diskVars, recoveryVars
<1>2. UNCHANGED <<allocated, loaded, dropStage, orphans, has_items, stage>>
  BY DEF vars, txVars, queueVars
<1>3. SavedInv' /\ LogInv' /\ (Running' <=> Running) /\ \A n, e : Spawns(n, e)' <=> Spawns(n, e)
  BY <1>1, DiskKept DEF EndInv, DiskInv
<1>4. DiskInv'
  BY <1>1, <1>3 DEF EndInv, DiskInv
<1>5. QED
  BY <1>1, <1>2, <1>3, <1>4 DEF EndInv

(* While the index space lasts, a step keeps the invariant or leaves it.    *)
LEMMA StepKeeps ==
  ASSUME IInv, [Next]_vars
  PROVE  IInv' \/ EndInv'
<1>1. CASE EnterWorld
  BY <1>1, EnterWorldKeeps
<1>2. CASE CheckFlag \/ ClearFlag \/ OtherCall
  BY <1>2, CallStepsKeep
<1>3. CASE DrainQueue
  BY <1>3, DrainQueueKeeps
<1>4. CASE Checkpoint
  BY <1>4, CheckpointKeeps
<1>5. CASE Crash
  <2>1. rejected = FALSE
    BY <1>5 DEF IInv, StageInv, TypesInv, Crash
  <2>2. DiskInv
    BY <2>1 DEF DiskInv, IInv, TypesInv, FreshInv
  <2>3. QED
    BY <1>5, <2>2, CrashKeeps
<1>6. CASE ReplaySpawn
  BY <1>6, ReplaySpawnKeeps
<1>7. CASE ReplayDespawn
  BY <1>7, ReplayDespawnKeeps
<1>8. CASE Recovered
  BY <1>8, RecoveredKeeps
<1>9. ASSUME NEW e \in issued, Despawn(e) PROVE IInv'
  BY <1>9, DespawnKeeps
<1>10. ASSUME NEW t \in Txs, ReserveLoad(t) PROVE IInv'
  BY <1>10, ReserveLoadKeeps
<1>11. ASSUME NEW t \in Txs, ReserveCas(t) PROVE IInv'
  BY <1>11, ReserveCasKeeps
<1>12. ASSUME NEW t \in Txs, TxSpawn(t) PROVE IInv' \/ EndInv'
  BY <1>12, TxSpawnKeeps, TxSpawnEnds
<1>13. ASSUME NEW t \in Txs, Commit(t) PROVE IInv'
  BY <1>13, CommitKeeps
<1>14. ASSUME NEW t \in Txs, DropStep(t) PROVE IInv'
  BY <1>14, DropStepKeeps
<1>15. CASE UNCHANGED vars
  BY <1>15, StutterKeeps
<1>16. QED
  BY <1>1, <1>2, <1>3, <1>4, <1>5, <1>6, <1>7, <1>8, <1>9, <1>10, <1>11, <1>12, <1>13, <1>14,
     <1>15 DEF Next

(* At its end only drops and a crash are left.                             *)
LEMMA StepEnds ==
  ASSUME EndInv, [Next]_vars
  PROVE  IInv' \/ EndInv'
<1>1. /\ stage = "ended" /\ replay = None /\ <<>> # None /\ \A t \in Txs : loaded[t] = None
  <2>1. <<>> \in Seq(LogRecords)
    OBVIOUS
  <2>2. <<>> # None
    BY <2>1, EntityAllocatorAssumption
  <2>3. QED
    BY <2>2 DEF EndInv, Running
<1>2. CASE Crash
  BY <1>2, CrashKeeps DEF EndInv
<1>3. ASSUME NEW t \in Txs, DropStep(t) PROVE EndInv'
  BY <1>3, DropStepEnds
<1>4. CASE UNCHANGED vars
  BY <1>4, StutterEnds
<1>5. ~EnterWorld /\ ~CheckFlag /\ ~DrainQueue /\ ~ClearFlag /\ ~OtherCall /\ ~Checkpoint
  BY <1>1 DEF EnterWorld, CheckFlag, DrainQueue, ClearFlag, OtherCall, Checkpoint, NoMutBorrow
<1>6. ~ReplaySpawn /\ ~ReplayDespawn /\ ~Recovered
  BY <1>1 DEF ReplaySpawn, ReplayDespawn, Recovered, Running
<1>7. ASSUME NEW e PROVE ~Despawn(e)
  BY <1>1 DEF Despawn
<1>8. ASSUME NEW t \in Txs PROVE ~ReserveLoad(t) /\ ~ReserveCas(t) /\ ~TxSpawn(t) /\ ~Commit(t)
  BY <1>1 DEF ReserveLoad, ReserveCas, TxSpawn, Commit, NoMutBorrow
<1>9. QED
  BY <1>2, <1>3, <1>4, <1>5, <1>6, <1>7, <1>8 DEF Next

(* The invariant of handles and slots: what one owner, fresh handles and   *)
(* an accepted replay rest on, in every reachable state up to the call of  *)
(* alloc that opens slot u32::MAX; and what is left behind that call.      *)
THEOREM Invariance == Spec => [](IInv \/ EndInv)
<1>1. Init => IInv
  BY InitKeeps
<1>2. (IInv \/ EndInv) /\ [Next]_vars => (IInv \/ EndInv)'
  BY StepKeeps, StepEnds
<1>3. QED
  BY <1>1, <1>2, PTL DEF Spec

-----------------------------------------------------------------------------
(* What follows from it.                                                   *)

LEMMA TypeOKFollows ==
  ASSUME IInv
  PROVE  TypeOK
<1>0. stage # "ended"
  BY DEF IInv, TypesInv, CallStages
<1>1. /\ AllocOK(al) /\ Owned(al, placed, leaked, allocated, orphans) /\ TypesInv
      /\ SavedInv /\ LogInv
  BY DEF IInv
<1>2. /\ Slots(al) \in Nat /\ Slots(al) <= REMOVED /\ REMOVED \in Nat
  BY <1>1, AllocFacts
<1>3. Range(al.free.slots) \subseteq Indices \cup {REMOVED}
  <2>1. al.free.slots \in Seq(Entries)
    BY <1>1 DEF AllocOK, Sound
  <2>2. Range(al.free.slots) \subseteq Entries
    BY <2>1, Positions
  <2>3. QED
    BY <1>2, <2>2 DEF Entries, Indices
<1>4. placed \subseteq Indices /\ leaked \subseteq Indices
  BY <1>1, <1>2 DEF Owned, Indices
<1>5. issued \subseteq Handles
  BY <1>1, HandleIs DEF TypesInv
<1>6. /\ orphans \in Seq(Handles) /\ \A t \in Txs : allocated[t] \in Seq(Handles)
  BY <1>1, HandlesAreHandles DEF Owned, Alive
<1>7. replay \in Seq(LogRecords) \cup {None} /\ log \in Seq(LogRecords)
  BY <1>1 DEF LogInv, Running
<1>8. saved \in SavedStates \cup {None}
  BY <1>1 DEF SavedInv
<1>9. /\ has_items \in BOOLEAN /\ rejected \in BOOLEAN /\ stage \in CallStages /\ saves \in 0 .. MaxSaves
      /\ \A t \in Txs : loaded[t] \in Indices \cup {None} /\ dropStage[t] \in {0, 1}
  BY <1>1 DEF TypesInv
<1>10. /\ al.generations \in Seq(0 .. MaxGen) /\ al.next_reserved \in 0 .. REMOVED
       /\ Slots(al) <= al.next_reserved
  BY <1>1 DEF AllocOK
<1>11. \A e \in issued : e[1] \in Indices
  BY <1>1, HandleIs DEF TypesInv, Indices
<1>12. QED
  BY <1>0, <1>3, <1>4, <1>5, <1>6, <1>7, <1>8, <1>9, <1>10, <1>11 DEF TypeOK, WorldStages, CallStages

(* Behind the end every index is still a u32, and next_reserved.            *)
LEMMA TypeOKAtTheEnd ==
  ASSUME EndInv
  PROVE  TypeOK
<1>1. REMOVED \in Nat
  BY FreeListAssumption
<1>2. Range(al.free.slots) \subseteq Indices \cup {REMOVED}
  <2>1. al.free.slots \in Seq(Entries)
    BY DEF EndInv, Sound
  <2>2. Range(al.free.slots) \subseteq Entries
    BY <2>1, Positions
  <2>3. QED
    BY <1>1, <2>2 DEF Entries, Indices
<1>3. /\ replay = None /\ log \in Seq(LogRecords) /\ saved \in SavedStates \cup {None}
      /\ saves \in 0 .. MaxSaves /\ rejected \in BOOLEAN
  BY DEF EndInv, DiskInv, LogInv, SavedInv, Running
<1>4. al.next_reserved \in 0 .. REMOVED
  BY <1>1 DEF EndInv
<1>5. QED
  BY <1>2, <1>3, <1>4 DEF TypeOK, EndInv, WorldStages

LEMMA OwnersIs ==
  ASSUME IInv, NEW i \in 0 .. al.next_reserved - 1
  PROVE  \E x : OwnersOf(i) = {x}
<1> DEFINE slots == al.free.slots
<1>1. /\ AllocOK(al) /\ Owned(al, placed, leaked, allocated, orphans)
  BY DEF IInv
<1>2. al.next_reserved \in 0 .. REMOVED /\ REMOVED \in Nat /\ i # REMOVED
  <2>1. al.next_reserved \in 0 .. REMOVED /\ REMOVED \in Nat
    BY <1>1, FreeListAssumption DEF AllocOK
  <2>2. QED
    BY <2>1
<1>3. slots \in Seq(Entries) /\ Distinct(slots)
  BY <1>1 DEF AllocOK, Sound
<1>4. DOMAIN slots = 1 .. Len(slots) /\ (i \in Free(al.free) <=> \E p \in 1 .. Len(slots) : slots[p] = i)
  BY <1>2, <1>3, Positions DEF Free
<1>5. \A p, q \in 1 .. Len(slots) : slots[p] = i /\ slots[q] = i => p = q
  BY <1>2, <1>3 DEF Distinct
<1>6. /\ orphans \in Seq(IssuedHandles) /\ OneEach(orphans)
      /\ \A t \in Txs : allocated[t] \in Seq(IssuedHandles) /\ OneEach(allocated[t])
  BY <1>1 DEF Owned, Alive
<1>7. /\ DOMAIN orphans = 1 .. Len(orphans)
      /\ i \in IndicesOf(orphans) <=> \E k \in 1 .. Len(orphans) : orphans[k][1] = i
  BY <1>6 DEF IndicesOf
<1>8. ASSUME NEW t \in Txs
      PROVE  /\ DOMAIN allocated[t] = 1 .. Len(allocated[t])
             /\ i \in IndicesOf(allocated[t]) <=> \E k \in 1 .. Len(allocated[t]) : allocated[t][k][1] = i
  BY <1>6 DEF IndicesOf
<1> DEFINE IsFree(x) == \E p \in 1 .. Len(slots) : slots[p] = i /\ x = <<"free", p>>
           IsRow(x) == i \in placed /\ x = <<"row", i>>
           IsLost(x) == i \in leaked /\ x = <<"leaked", i>>
           IsHeld(x) == \E t \in Txs : \E k \in 1 .. Len(allocated[t]) : allocated[t][k][1] = i /\ x = <<t, k>>
           IsQueued(x) == \E k \in 1 .. Len(orphans) : orphans[k][1] = i /\ x = <<"orphan", k>>
<1>9. ASSUME NEW x
      PROVE  x \in OwnersOf(i) <=> IsFree(x) \/ IsRow(x) \/ IsLost(x) \/ IsHeld(x) \/ IsQueued(x)
  <2>1. x \in {<<"free", p>> : p \in {p \in DOMAIN slots : slots[p] = i}} <=> IsFree(x)
    BY <1>4
  <2>2. x \in {<<"row", j>> : j \in placed \cap {i}} <=> IsRow(x)
    OBVIOUS
  <2>3. x \in {<<"leaked", j>> : j \in leaked \cap {i}} <=> IsLost(x)
    OBVIOUS
  <2>4. x \in UNION {{<<t, k>> : k \in {k \in DOMAIN allocated[t] : allocated[t][k][1] = i}} : t \in Txs}
        <=> IsHeld(x)
    BY <1>8
  <2>5. x \in {<<"orphan", k>> : k \in {k \in DOMAIN orphans : orphans[k][1] = i}} <=> IsQueued(x)
    BY <1>7
  <2> HIDE DEF IsFree, IsRow, IsLost, IsHeld, IsQueued, slots
  <2>6. QED
    BY <2>1, <2>2, <2>3, <2>4, <2>5 DEF OwnersOf, slots
<1>10. /\ i \in Free(al.free) \/ i \in placed \/ i \in leaked \/ i \in IndicesOf(orphans)
          \/ \E t \in Txs : i \in IndicesOf(allocated[t])
       /\ Disjoint(al, placed, leaked, allocated, orphans)
  BY <1>1 DEF Owned, Covered
<1> HIDE DEF slots
<1>11. /\ (\E x : IsFree(x)) <=> i \in Free(al.free)
       /\ (\E x : IsRow(x)) <=> i \in placed
       /\ (\E x : IsLost(x)) <=> i \in leaked
       /\ (\E x : IsHeld(x)) <=> \E t \in Txs : i \in IndicesOf(allocated[t])
       /\ (\E x : IsQueued(x)) <=> i \in IndicesOf(orphans)
  <2>1. (\E x : IsHeld(x)) <=> \E t \in Txs : i \in IndicesOf(allocated[t])
    BY <1>8
  <2>2. (\E x : IsFree(x)) <=> i \in Free(al.free)
    BY <1>4
  <2>3. (\E x : IsQueued(x)) <=> i \in IndicesOf(orphans)
    BY <1>7
  <2>4. QED
    BY <2>1, <2>2, <2>3
<1>12. /\ \A x, y : IsFree(x) /\ IsFree(y) => x = y
       /\ \A x, y : IsRow(x) /\ IsRow(y) => x = y
       /\ \A x, y : IsLost(x) /\ IsLost(y) => x = y
       /\ \A x, y : IsQueued(x) /\ IsQueued(y) => x = y
  BY <1>5, <1>6 DEF OneEach
<1>13. ASSUME NEW x, NEW y, IsHeld(x), IsHeld(y) PROVE x = y
  <2>1. PICK t \in Txs : \E k \in 1 .. Len(allocated[t]) : allocated[t][k][1] = i /\ x = <<t, k>>
    BY <1>13
  <2>2. PICK u \in Txs : \E k \in 1 .. Len(allocated[u]) : allocated[u][k][1] = i /\ y = <<u, k>>
    BY <1>13
  <2>3. t = u
    <3>1. i \in IndicesOf(allocated[t]) /\ i \in IndicesOf(allocated[u])
      BY <1>8, <2>1, <2>2
    <3>2. QED
      BY <1>10, <3>1 DEF Disjoint
  <2>4. QED
    BY <1>6, <2>1, <2>2, <2>3 DEF OneEach
<1> HIDE DEF IsFree, IsRow, IsLost, IsHeld, IsQueued
<1>14. /\ i \in Free(al.free) => ~(i \in placed \/ i \in leaked \/ i \in IndicesOf(orphans)
                                   \/ \E t \in Txs : i \in IndicesOf(allocated[t]))
       /\ i \in placed => ~(i \in leaked \/ i \in IndicesOf(orphans)
                            \/ \E t \in Txs : i \in IndicesOf(allocated[t]))
       /\ i \in leaked => ~(i \in IndicesOf(orphans) \/ \E t \in Txs : i \in IndicesOf(allocated[t]))
       /\ i \in IndicesOf(orphans) => ~\E t \in Txs : i \in IndicesOf(allocated[t])
  BY <1>10 DEF Disjoint
<1>15. \E x : x \in OwnersOf(i)
  BY <1>9, <1>10, <1>11
<1>16. \A x, y \in OwnersOf(i) : x = y
  <2>1. ASSUME NEW x \in OwnersOf(i), NEW y \in OwnersOf(i) PROVE x = y
    <3>1. /\ IsFree(x) \/ IsRow(x) \/ IsLost(x) \/ IsHeld(x) \/ IsQueued(x)
          /\ IsFree(y) \/ IsRow(y) \/ IsLost(y) \/ IsHeld(y) \/ IsQueued(y)
      BY <1>9
    <3>2. QED
      BY <1>11, <1>12, <1>13, <1>14, <3>1
  <2>2. QED
    BY <2>1
<1>17. QED
  BY <1>15, <1>16

LEMMA OneOwnerFollows ==
  ASSUME IInv
  PROVE  EverySlotHasOneOwner
<1> DEFINE m == Materialize(al)
<1>1. /\ AllocOK(al) /\ Owned(al, placed, leaked, allocated, orphans)
  BY DEF IInv
<1>2. /\ AllocOK(m) /\ Slots(m) = al.next_reserved /\ \A i \in Nat : Gen(m, i) = Gen(al, i)
  BY <1>1, MaterializeIs
<1> HIDE DEF m
<1>3. ASSUME NEW i \in 0 .. Slots(m) - 1
      PROVE  Cardinality(OwnersOf(i)) = 1
  <2>1. \E x : OwnersOf(i) = {x}
    BY <1>2, OwnersIs
  <2>2. QED
    BY <2>1, FS_Singleton
<1>4. ASSUME NEW es, Alive(al, es), NEW k \in 1 .. Len(es)
      PROVE  IsAlive(m, es[k])
  <2>1. es[k] \in IssuedHandles /\ es[k][1] < al.next_reserved /\ Gen(al, es[k][1]) = es[k][2]
    BY <1>4 DEF Alive
  <2>2. es[k][1] \in Nat
    BY <2>1, HandleIs
  <2>3. QED
    BY <1>2, <2>1, <2>2 DEF IsAlive, Gen
<1>5. /\ Alive(al, orphans) /\ DOMAIN orphans = 1 .. Len(orphans)
      /\ \A t \in Txs : Alive(al, allocated[t]) /\ DOMAIN allocated[t] = 1 .. Len(allocated[t])
  BY <1>1 DEF Owned, Alive
<1>6. QED
  BY <1>3, <1>4, <1>5 DEF EverySlotHasOneOwner, m

LEMMA FreshFollows ==
  ASSUME IInv
  PROVE  NextHandleIsFresh
<1> SUFFICES ASSUME Running, NEW e \in issued
             PROVE  /\ e[1] \in Range(al.free.slots) => e[2] < GenOf(al, e[1])
                    /\ e[1] < al.next_reserved
  BY DEF NextHandleIsFresh
<1>1. AllocOK(al) /\ TypesInv /\ StageInv /\ LogInv /\ FreshInv
  BY DEF IInv
<1>2. Stale(al, e)
  <2>1. Done + 1 .. Len(log) = {}
    BY <1>1, DoneIs
  <2>2. QED
    BY <1>1, <2>1 DEF FreshInv, StageInv
<1>4. e \in IssuedHandles
  BY <1>1 DEF TypesInv
<1>5. e[1] \in 0 .. REMOVED - 1
  BY <1>4, HandleIs
<1>6. e[1] \in Range(al.free.slots) => e[1] \in Free(al.free)
  BY <1>5, FreeListAssumption DEF Free
<1>7. e[1] \in Free(al.free) => Gen(al, e[1]) = GenOf(al, e[1])
  BY <1>1, AllocFacts DEF AllocOK
<1>8. QED
  BY <1>2, <1>6, <1>7 DEF Stale

(* The variables hold what their comments say for any number of slots and  *)
(* transactions: every index handed out is in the index space, and         *)
(* next_reserved keeps ahead of the slots, until alloc opens slot u32::MAX, *)
(* which nothing in it prevents; no call opens a slot behind that one.     *)
THEOREM TypeCorrectness == Spec => []TypeOK
<1>1. IInv \/ EndInv => TypeOK
  BY TypeOKFollows, TypeOKAtTheEnd
<1>2. QED
  BY <1>1, Invariance, PTL

(* The tombstoned free list with its lazy index and cached slice stays     *)
(* sound under every sequence of push, pop, remove and compaction that     *)
(* transactions, drains, crashes and replays make.                         *)
THEOREM FreeListStaysSound == Spec => []FreeListIsSound
<1>1. IInv \/ EndInv => FreeListIsSound
  BY SoundSuffices DEF IInv, EndInv, AllocOK, FreeListIsSound
<1>2. QED
  BY <1>1, Invariance, PTL

(* Every slot the allocator has cut has exactly one owner: the free list,  *)
(* a row, one handle of one Tx, one orphan, or nobody since a checkpoint   *)
(* caught it; and a handle that a Tx or the orphan queue holds is alive.   *)
THEOREM OneOwner == Spec => []EverySlotHasOneOwner
<1>1. IInv \/ EndInv => EverySlotHasOneOwner
  BY OneOwnerFollows DEF EndInv, EverySlotHasOneOwner
<1>2. QED
  BY <1>1, Invariance, PTL

(* alloc and reserve never hand a handle out twice, before a crash or after *)
(* recovery: a stale handle stays stale.                                   *)
THEOREM HandlesAreFresh == Spec => []NextHandleIsFresh
<1>1. IInv \/ EndInv => NextHandleIsFresh
  BY FreshFollows DEF EndInv, NextHandleIsFresh
<1>2. QED
  BY <1>1, Invariance, PTL

(* The queue's flag is never lost to a drain_orphans that runs while a Tx  *)
(* is being dropped.                                                       *)
THEOREM OrphansStayAnnounced == Spec => []OrphansAnnounced
<1>1. IInv \/ EndInv => OrphansAnnounced
  BY DEF IInv, EndInv, StageInv, OrphansAnnounced
<1>2. QED
  BY <1>1, Invariance, PTL

(* would_adopt answers in every reachable state, for every handle, what    *)
(* adopt then does: a batch that try_reserve admits is not refused by the  *)
(* allocator half way.                                                     *)
THEOREM PreflightIsExact == Spec => []WouldAdoptMirrorsAdopt
<1>1. IInv \/ EndInv => WouldAdoptMirrorsAdopt
  <2> SUFFICES ASSUME IInv, NEW e \in Handles
               PROVE  WouldAdopt(al, e) = Adopt(al, e).ok
    BY DEF WouldAdoptMirrorsAdopt, EndInv
  <2>1. AllocOK(al)
    BY DEF IInv
  <2>2. e[1] \in 0 .. REMOVED /\ e[2] \in 0 .. MaxGen
    BY DEF Handles
  <2>3. QED
    BY <2>1, <2>2, WouldAdoptIs
<1>2. QED
  BY <1>1, Invariance, PTL

(* Recovery accepts every record of the log, in order, when the checkpoint *)
(* was taken with no handle outstanding: replay rebuilds exactly the rows  *)
(* and generations the committed records describe.                         *)
THEOREM QuiescentRecovery == Spec => []QuiescentReplayAccepted
<1>1. IInv \/ EndInv => QuiescentReplayAccepted
  BY DEF IInv, EndInv, DiskInv, QuiescentReplayAccepted
<1>2. QED
  BY <1>1, Invariance, PTL

(* B3: dealloc and the drain of orphans never grow the free list, so they  *)
(* never ask the memory pool for more.                                     *)
THEOREM FreeingNeverAllocates == Spec => DeallocNeverGrows
<1>1. (IInv \/ EndInv) /\ [Next]_vars =>
        [(DrainQueue \/ \E e \in issued : Despawn(e)) => al'.free.cap = al.free.cap]_vars
  <2>1. ~(EndInv /\ (DrainQueue \/ \E e \in issued : Despawn(e)))
    BY DEF EndInv, DrainQueue, Despawn
  <2>2. QED
    BY <2>1, DrainQueueKeeps, DespawnKeeps
<1>2. QED
  BY <1>1, Invariance, PTL DEF Spec, DeallocNeverGrows
=============================================================================

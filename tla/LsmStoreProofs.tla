-------------------------- MODULE LsmStoreProofs --------------------------
(***************************************************************************)
(* Theorems of LsmStore: the manifest in memory is the one its log replays *)
(* to, and the runs it tracks are on disk.                                 *)
(*                                                                         *)
(* The argument is about names.  A run is named after the operations it    *)
(* covers, and its upper end is that of one flush; flushes have different  *)
(* ones, and a compaction passes the newest of its inputs on.  So no two   *)
(* tracked runs have the same upper end, on whatever levels, and what is   *)
(* deleted after a compaction is tracked nowhere else.                     *)
(***************************************************************************)
EXTENDS LsmStore, FiniteSetTheorems, FiniteSetsExt, WellFoundedInduction, TLAPS

-----------------------------------------------------------------------------
(* Induction on natural numbers: the set of the numbers that have a        *)
(* property takes the place of the property.                               *)

(* A set of natural numbers that is not empty has a least element.         *)
LEMMA LeastElement ==
  ASSUME NEW T, T \subseteq Nat, T # {}
  PROVE  \E n \in T : \A m \in T : n <= m
<1> DEFINE R == OpToRel(<, Nat)
<1>1. IsWellFoundedOn(R, Nat)
  BY NatLessThanWellFounded
<1>2. \A m, n \in Nat : m < n => <<m, n>> \in R
  BY DEF OpToRel
<1> HIDE DEF R
<1>3. PICK n \in T : \A m \in T : ~(<<m, n>> \in R)
  BY <1>1, WFMin
<1>4. \A m \in T : ~(m < n)
  BY <1>2, <1>3
<1>5. QED
  BY <1>4

(* A set that holds 0 and, up to N, the successor of each number in it,    *)
(* holds 0 .. N.                                                           *)
LEMMA UpTo ==
  ASSUME NEW N \in Nat, NEW S,
         0 \in S,
         \A n \in 1 .. N : n - 1 \in S => n \in S
  PROVE  \A n \in 0 .. N : n \in S
<1> SUFFICES ASSUME NEW k \in 0 .. N, k \notin S
             PROVE  FALSE
  OBVIOUS
<1> DEFINE T == {n \in 0 .. N : n \notin S}
<1>1. PICK n \in T : \A m \in T : n <= m
  <2>1. T \subseteq Nat /\ T # {}
    OBVIOUS
  <2> HIDE DEF T
  <2>2. QED
    BY <2>1, LeastElement
<1>2. n \in 1 .. N
  OBVIOUS
<1>3. n - 1 \in 0 .. N /\ n - 1 \notin T
  BY <1>1, <1>2
<1>4. QED
  BY <1>2, <1>3

(* A set of natural numbers that is not empty and is bounded has a         *)
(* greatest element.                                                       *)
LEMMA GreatestElement ==
  ASSUME NEW T, T \subseteq Nat, T # {}, NEW N \in Nat, \A m \in T : m <= N
  PROVE  \E n \in T : \A m \in T : m <= n
<1> DEFINE D == {N - m : m \in T}
<1>1. \A m \in T : m \in Nat /\ N - m \in Nat
  OBVIOUS
<1>2. D \subseteq Nat /\ D # {}
  BY <1>1
<1>3. PICK d \in D : \A e \in D : d <= e
  <2> HIDE DEF D
  <2>1. QED
    BY <1>2, LeastElement
<1>4. PICK n \in T : d = N - n
  OBVIOUS
<1>5. \A m \in T : N - n <= N - m
  BY <1>3, <1>4
<1>6. QED
  BY <1>1, <1>4, <1>5

(* What Min of the library chooses.                                        *)
LEMMA MinIs ==
  ASSUME NEW S, S \subseteq Nat, S # {}
  PROVE  Min(S) \in S /\ \A m \in S : Min(S) <= m
<1>1. \E x \in S : \A y \in S : x <= y
  BY LeastElement
<1>2. QED
  BY <1>1 DEF Min

-----------------------------------------------------------------------------


Name == [lo : Nat, hi : Nat, compact : BOOLEAN]
Level == 0 .. (Levels - 1)
Entry == [output : Name, level : Level, inputs : SUBSET Name]
Shapes == [Level -> Seq(Name)]

-----------------------------------------------------------------------------
(* Sequences.                                                              *)

LEMMA AppendIs ==
  ASSUME NEW X, NEW s \in Seq(X), NEW x \in X
  PROVE  /\ Append(s, x) \in Seq(X) /\ Len(s) \in Nat /\ Len(Append(s, x)) = Len(s) + 1
         /\ \A i \in 1 .. Len(s) : Append(s, x)[i] = s[i]
         /\ Append(s, x)[Len(s) + 1] = x
  OBVIOUS

LEMMA ToSetOfConcat ==
  ASSUME NEW X, NEW s \in Seq(X), NEW t \in Seq(X)
  PROVE  s \o t \in Seq(X) /\ ToSet(s \o t) = ToSet(s) \cup ToSet(t)
<1>1. s \o t \in Seq(X) /\ Len(s \o t) = Len(s) + Len(t) /\ Len(s) \in Nat /\ Len(t) \in Nat
  OBVIOUS
<1>2. \A i \in 1 .. Len(s) : (s \o t)[i] = s[i]
  OBVIOUS
<1>3. \A i \in 1 .. Len(t) : (s \o t)[Len(s) + i] = t[i]
  OBVIOUS
<1>4. DOMAIN s = 1 .. Len(s) /\ DOMAIN t = 1 .. Len(t) /\ DOMAIN (s \o t) = 1 .. Len(s \o t)
  BY <1>1
<1>5. ASSUME NEW i \in DOMAIN (s \o t) PROVE (s \o t)[i] \in ToSet(s) \cup ToSet(t)
  <2>1. CASE i <= Len(s)
    BY <1>1, <1>2, <1>4, <2>1 DEF ToSet
  <2>2. CASE i > Len(s)
    <3>1. i - Len(s) \in 1 .. Len(t) /\ i = Len(s) + (i - Len(s))
      BY <1>1, <1>4, <2>2
    <3>2. (s \o t)[i] = t[i - Len(s)]
      BY <1>3, <3>1
    <3>3. QED
      BY <1>4, <3>1, <3>2 DEF ToSet
  <2>3. QED
    BY <1>1, <1>4, <2>1, <2>2
<1>6. ASSUME NEW i \in DOMAIN s PROVE s[i] \in ToSet(s \o t)
  <2>1. i \in DOMAIN (s \o t) /\ (s \o t)[i] = s[i]
    BY <1>1, <1>2, <1>4
  <2>2. QED
    BY <2>1 DEF ToSet
<1>7. ASSUME NEW i \in DOMAIN t PROVE t[i] \in ToSet(s \o t)
  <2>1. Len(s) + i \in DOMAIN (s \o t) /\ (s \o t)[Len(s) + i] = t[i]
    BY <1>1, <1>3, <1>4
  <2>2. QED
    BY <2>1 DEF ToSet
<1>8. QED
  BY <1>1, <1>5, <1>6, <1>7 DEF ToSet

LEMMA ToSetOfAppend ==
  ASSUME NEW X, NEW s \in Seq(X), NEW x \in X
  PROVE  Append(s, x) \in Seq(X) /\ ToSet(Append(s, x)) = ToSet(s) \cup {x}
<1>1. DOMAIN s = 1 .. Len(s) /\ DOMAIN Append(s, x) = 1 .. Len(s) + 1 /\ Len(s) \in Nat
  OBVIOUS
<1>2. \A i \in 1 .. Len(s) : Append(s, x)[i] = s[i]
  BY AppendIs
<1>3. Append(s, x)[Len(s) + 1] = x
  BY AppendIs
<1>4. \A i \in 1 .. Len(s) + 1 : i \in 1 .. Len(s) \/ i = Len(s) + 1
  BY <1>1
<1>5. Len(s) + 1 \in 1 .. Len(s) + 1 /\ \A i \in 1 .. Len(s) : i \in 1 .. Len(s) + 1
  BY <1>1
<1>6. QED
  BY <1>1, <1>2, <1>3, <1>4, <1>5 DEF ToSet

LEMMA ToSetOfOne ==
  ASSUME NEW X, NEW x \in X
  PROVE  <<x>> \in Seq(X) /\ ToSet(<<x>>) = {x} /\ << >> \in Seq(X) /\ ToSet(<< >>) = {}
  BY DEF ToSet

-----------------------------------------------------------------------------
(* What the recursive functions compute.  Such a function exists (by       *)
(* induction on how far it goes), so the one that is chosen is one.        *)

LEMMA KeptUnfolds ==
  ASSUME NEW s, NEW A, Len(s) \in Nat
  PROVE  /\ KeptTo(s, A)[0] = << >>
         /\ \A n \in 1 .. Len(s) :
              KeptTo(s, A)[n] = IF s[n] \in A THEN Append(KeptTo(s, A)[n - 1], s[n])
                                ELSE KeptTo(s, A)[n - 1]
<1> DEFINE base == << >>
           StepOf(v, n) == IF s[n] \in A THEN Append(v, s[n]) ELSE v
           Solves(f, k) == f = [n \in 0 .. k |-> IF n = 0 THEN base ELSE StepOf(f[n - 1], n)]
           S == {k \in 0 .. Len(s) : \E f : Solves(f, k)}
<1>1. KeptTo(s, A) = CHOOSE f : Solves(f, Len(s))
  BY DEF KeptTo
<1> HIDE DEF base, StepOf
<1>2. 0 \in S
  <2> DEFINE f0 == [n \in 0 .. 0 |-> base]
  <2>1. Solves(f0, 0)
    OBVIOUS
  <2> HIDE DEF f0, Solves
  <2>2. QED
    BY <2>1
<1>3. ASSUME NEW k \in 1 .. Len(s), k - 1 \in S
      PROVE  k \in S
  <2>1. PICK f : Solves(f, k - 1)
    BY <1>3
  <2> DEFINE g == [n \in 0 .. k |-> IF n = k THEN StepOf(f[k - 1], k) ELSE f[n]]
  <2>2. \A n \in 0 .. k - 1 : g[n] = f[n]
    OBVIOUS
  <2>3. \A n \in 0 .. k - 1 : f[n] = IF n = 0 THEN base ELSE StepOf(f[n - 1], n)
    BY <2>1
  <2>4. \A n \in 0 .. k : g[n] = IF n = 0 THEN base ELSE StepOf(g[n - 1], n)
    <3> SUFFICES ASSUME NEW n \in 0 .. k
                 PROVE  g[n] = IF n = 0 THEN base ELSE StepOf(g[n - 1], n)
      OBVIOUS
    <3>1. CASE n = k
      <4>1. g[n] = StepOf(f[n - 1], n) /\ g[n - 1] = f[n - 1] /\ n # 0
        BY <2>2, <3>1
      <4>2. QED
        BY <4>1
    <3>2. CASE n # k
      <4>1. n \in 0 .. k - 1 /\ (n # 0 => n - 1 \in 0 .. k - 1)
        BY <3>2
      <4>2. QED
        BY <4>1, <2>2, <2>3
    <3>3. QED
      BY <3>1, <3>2
  <2>5. g = [n \in 0 .. k |-> g[n]]
    OBVIOUS
  <2> HIDE DEF g
  <2>6. Solves(g, k)
    BY <2>4, <2>5
  <2>7. QED
    BY <2>6
<1> HIDE DEF S
<1>4. Len(s) \in S
  <2>1. \A k \in 1 .. Len(s) : k - 1 \in S => k \in S
    BY <1>3
  <2>2. \A k \in 0 .. Len(s) : k \in S
    BY <1>2, <2>1, UpTo
  <2>3. QED
    BY <2>2
<1>5. \E f : Solves(f, Len(s))
  BY <1>4 DEF S
<1> DEFINE h == KeptTo(s, A)
<1>6. Solves(h, Len(s))
  BY <1>1, <1>5
<1> HIDE DEF h
<1>7. h[0] = base /\ \A n \in 1 .. Len(s) : h[n] = StepOf(h[n - 1], n)
  BY <1>6
<1>8. QED
  BY <1>7 DEF h, base, StepOf

LEMMA ReplayUnfolds ==
  ASSUME NEW entries, Len(entries) \in Nat
  PROVE  /\ ReplayedTo(entries)[0] = [mf |-> NoRuns, ok |-> TRUE]
         /\ \A n \in 1 .. Len(entries) :
              ReplayedTo(entries)[n] = IF ReplayedTo(entries)[n - 1].ok /\ Replays(ReplayedTo(entries)[n - 1].mf, entries[n])
              THEN [mf |-> AppliedEntry(ReplayedTo(entries)[n - 1].mf, entries[n]), ok |-> TRUE]
              ELSE [mf |-> ReplayedTo(entries)[n - 1].mf, ok |-> FALSE]
<1> DEFINE base == [mf |-> NoRuns, ok |-> TRUE]
           StepOf(v, n) == IF v.ok /\ Replays(v.mf, entries[n])
                           THEN [mf |-> AppliedEntry(v.mf, entries[n]), ok |-> TRUE]
                           ELSE [mf |-> v.mf, ok |-> FALSE]
           Solves(f, k) == f = [n \in 0 .. k |-> IF n = 0 THEN base ELSE StepOf(f[n - 1], n)]
           S == {k \in 0 .. Len(entries) : \E f : Solves(f, k)}
<1>1. ReplayedTo(entries) = CHOOSE f : Solves(f, Len(entries))
  BY DEF ReplayedTo
<1> HIDE DEF base, StepOf
<1>2. 0 \in S
  <2> DEFINE f0 == [n \in 0 .. 0 |-> base]
  <2>1. Solves(f0, 0)
    OBVIOUS
  <2> HIDE DEF f0, Solves
  <2>2. QED
    BY <2>1
<1>3. ASSUME NEW k \in 1 .. Len(entries), k - 1 \in S
      PROVE  k \in S
  <2>1. PICK f : Solves(f, k - 1)
    BY <1>3
  <2> DEFINE g == [n \in 0 .. k |-> IF n = k THEN StepOf(f[k - 1], k) ELSE f[n]]
  <2>2. \A n \in 0 .. k - 1 : g[n] = f[n]
    OBVIOUS
  <2>3. \A n \in 0 .. k - 1 : f[n] = IF n = 0 THEN base ELSE StepOf(f[n - 1], n)
    BY <2>1
  <2>4. \A n \in 0 .. k : g[n] = IF n = 0 THEN base ELSE StepOf(g[n - 1], n)
    <3> SUFFICES ASSUME NEW n \in 0 .. k
                 PROVE  g[n] = IF n = 0 THEN base ELSE StepOf(g[n - 1], n)
      OBVIOUS
    <3>1. CASE n = k
      <4>1. g[n] = StepOf(f[n - 1], n) /\ g[n - 1] = f[n - 1] /\ n # 0
        BY <2>2, <3>1
      <4>2. QED
        BY <4>1
    <3>2. CASE n # k
      <4>1. n \in 0 .. k - 1 /\ (n # 0 => n - 1 \in 0 .. k - 1)
        BY <3>2
      <4>2. QED
        BY <4>1, <2>2, <2>3
    <3>3. QED
      BY <3>1, <3>2
  <2>5. g = [n \in 0 .. k |-> g[n]]
    OBVIOUS
  <2> HIDE DEF g
  <2>6. Solves(g, k)
    BY <2>4, <2>5
  <2>7. QED
    BY <2>6
<1> HIDE DEF S
<1>4. Len(entries) \in S
  <2>1. \A k \in 1 .. Len(entries) : k - 1 \in S => k \in S
    BY <1>3
  <2>2. \A k \in 0 .. Len(entries) : k \in S
    BY <1>2, <2>1, UpTo
  <2>3. QED
    BY <2>2
<1>5. \E f : Solves(f, Len(entries))
  BY <1>4 DEF S
<1> DEFINE h == ReplayedTo(entries)
<1>6. Solves(h, Len(entries))
  BY <1>1, <1>5
<1> HIDE DEF h
<1>7. h[0] = base /\ \A n \in 1 .. Len(entries) : h[n] = StepOf(h[n - 1], n)
  BY <1>6
<1>8. QED
  BY <1>7 DEF h, base, StepOf

(* Kept is a sequence of the members of s that are in A.                   *)
LEMMA KeptIs ==
  ASSUME NEW X, NEW s \in Seq(X), NEW A
  PROVE  Kept(s, A) \in Seq(X) /\ ToSet(Kept(s, A)) = ToSet(s) \cap A
<1> DEFINE K == KeptTo(s, A)
           Good(n) == K[n] \in Seq(X) /\ ToSet(K[n]) = {s[i] : i \in 1 .. n} \cap A
           S == {n \in 0 .. Len(s) : Good(n)}
<1>1. Len(s) \in Nat /\ DOMAIN s = 1 .. Len(s) /\ \A n \in 1 .. Len(s) : s[n] \in X
  OBVIOUS
<1>2. /\ K[0] = << >>
      /\ \A n \in 1 .. Len(s) : K[n] = IF s[n] \in A THEN Append(K[n - 1], s[n]) ELSE K[n - 1]
  BY <1>1, KeptUnfolds
<1> HIDE DEF K
<1>3. 0 \in S
  <2>1. << >> \in Seq(X) /\ ToSet(<< >>) = {} /\ 1 .. 0 = {} /\ 0 \in 0 .. Len(s)
    BY <1>1 DEF ToSet
  <2>2. {s[i] : i \in 1 .. 0} = {}
    BY <2>1
  <2>3. Good(0)
    BY <1>2, <2>1, <2>2
  <2>4. QED
    BY <2>1, <2>3
<1>4. ASSUME NEW n \in 1 .. Len(s), n - 1 \in S PROVE n \in S
  <2>1. K[n - 1] \in Seq(X) /\ ToSet(K[n - 1]) = {s[i] : i \in 1 .. n - 1} \cap A
    BY <1>4
  <2>2. Append(K[n - 1], s[n]) \in Seq(X)
        /\ ToSet(Append(K[n - 1], s[n])) = ToSet(K[n - 1]) \cup {s[n]}
    BY <1>1, <2>1, ToSetOfAppend
  <2>3. {s[i] : i \in 1 .. n} = {s[i] : i \in 1 .. n - 1} \cup {s[n]}
    <3>1. \A i \in 1 .. n : i \in 1 .. n - 1 \/ i = n
      BY <1>1
    <3>2. n \in 1 .. n /\ \A i \in 1 .. n - 1 : i \in 1 .. n
      BY <1>1
    <3>3. QED
      BY <3>1, <3>2
  <2>4. K[n] \in Seq(X) /\ ToSet(K[n]) = {s[i] : i \in 1 .. n} \cap A
    BY <1>2, <2>1, <2>2, <2>3
  <2>5. QED
    BY <2>4
<1>5. Len(s) \in S
  <2> HIDE DEF S
  <2>1. \A n \in 1 .. Len(s) : n - 1 \in S => n \in S
    BY <1>4
  <2>2. \A n \in 0 .. Len(s) : n \in S
    BY <1>1, <1>3, <2>1, UpTo
  <2>3. QED
    BY <1>1, <2>2
<1>6. Good(Len(s))
  BY <1>5
<1>7. QED
  BY <1>1, <1>6 DEF Kept, K, ToSet

-----------------------------------------------------------------------------
(* Replay of the manifest log.                                             *)

(* What replay has in hand at the end of the entries.                      *)
End(entries) == ReplayedTo(entries)[Len(entries)]

LEMMA ReplayOfNone == End(<< >>).mf = NoRuns /\ End(<< >>).ok = TRUE
<1>1. Len(<< >>) = 0
  OBVIOUS
<1>2. ReplayedTo(<< >>)[0] = [mf |-> NoRuns, ok |-> TRUE]
  BY <1>1, ReplayUnfolds
<1>3. QED
  BY <1>1, <1>2 DEF End

(* One more entry is replayed on top of the others, or ends the replay.    *)
LEMMA ReplayOfAppend ==
  ASSUME NEW X, NEW s \in Seq(X), NEW e \in X
  PROVE  /\ End(s).ok /\ Replays(End(s).mf, e) =>
              /\ End(Append(s, e)).mf = AppliedEntry(End(s).mf, e)
              /\ End(Append(s, e)).ok = TRUE
<1> DEFINE A == Append(s, e)
           F == ReplayedTo(s)
           G == ReplayedTo(A)
           StepOf(v, x) == IF v.ok /\ Replays(v.mf, x)
                           THEN [mf |-> AppliedEntry(v.mf, x), ok |-> TRUE]
                           ELSE [mf |-> v.mf, ok |-> FALSE]
           S == {n \in 0 .. Len(s) : F[n] = G[n]}
<1>1. Len(s) \in Nat /\ Len(A) = Len(s) + 1 /\ \A i \in 1 .. Len(s) : A[i] = s[i]
  BY AppendIs
<1>2. A[Len(s) + 1] = e
  BY AppendIs
<1> HIDE DEF A
<1>3. F[0] = [mf |-> NoRuns, ok |-> TRUE] /\ \A n \in 1 .. Len(s) : F[n] = StepOf(F[n - 1], s[n])
  BY <1>1, ReplayUnfolds
<1>4. G[0] = [mf |-> NoRuns, ok |-> TRUE] /\ \A n \in 1 .. Len(A) : G[n] = StepOf(G[n - 1], A[n])
  <2>1. Len(A) \in Nat
    BY <1>1
  <2>2. QED
    BY <2>1, ReplayUnfolds, ZenonT(40)
<1> HIDE DEF F, G, StepOf
<1>5. 0 \in S
  BY <1>1, <1>3, <1>4
<1>6. ASSUME NEW n \in 1 .. Len(s), n - 1 \in S PROVE n \in S
  <2>1. F[n - 1] = G[n - 1] /\ n \in 1 .. Len(A) /\ A[n] = s[n]
    BY <1>1, <1>6
  <2>2. F[n] = G[n]
    BY <1>3, <1>4, <2>1
  <2>3. QED
    BY <1>1, <2>2
<1>7. F[Len(s)] = G[Len(s)]
  <2> HIDE DEF S
  <2>1. \A n \in 1 .. Len(s) : n - 1 \in S => n \in S
    BY <1>6
  <2>2. \A n \in 0 .. Len(s) : n \in S
    BY <1>1, <1>5, <2>1, UpTo
  <2>3. Len(s) \in S
    BY <1>1, <2>2
  <2>4. QED
    BY <2>3 DEF S
<1>8. G[Len(A)] = StepOf(F[Len(s)], e)
  <2>1. Len(A) \in 1 .. Len(A) /\ Len(A) - 1 = Len(s) /\ A[Len(A)] = e
    BY <1>1, <1>2
  <2>2. QED
    BY <1>4, <1>7, <2>1
<1>9. QED
  BY <1>8 DEF End, StepOf, F, G, A

(* The runs an entry leaves on each level.                                 *)
LEMMA AppliedIs ==
  ASSUME NEW mf \in Shapes, NEW e \in Entry
  PROVE  /\ AppliedEntry(mf, e) \in Shapes
         /\ \A l \in Level : ToSet(AppliedEntry(mf, e)[l]) =
              (IF l = e.level - 1 THEN ToSet(mf[l]) \ e.inputs ELSE ToSet(mf[l]))
                \cup (IF l = e.level THEN {e.output} ELSE {})
<1> DEFINE Left(l) == IF l = e.level - 1 THEN Without(mf[l], e.inputs) ELSE mf[l]
           New(l) == IF l = e.level THEN <<e.output>> ELSE << >>
<1>1. DOMAIN mf = Level /\ \A l \in Level : mf[l] \in Seq(Name)
  BY DEF Shapes
<1>2. e.output \in Name
  BY DEF Entry
<1>3. ASSUME NEW l \in Level
      PROVE  /\ Left(l) \in Seq(Name)
             /\ ToSet(Left(l)) = IF l = e.level - 1 THEN ToSet(mf[l]) \ e.inputs ELSE ToSet(mf[l])
  <2>1. Without(mf[l], e.inputs) \in Seq(Name)
        /\ ToSet(Without(mf[l], e.inputs)) = ToSet(mf[l]) \cap (ToSet(mf[l]) \ e.inputs)
    BY <1>1, KeptIs DEF Without
  <2>2. QED
    BY <1>1, <2>1
<1>4. \A l \in Level : New(l) \in Seq(Name) /\ ToSet(New(l)) = IF l = e.level THEN {e.output} ELSE {}
  BY <1>2, ToSetOfOne
<1>5. AppliedEntry(mf, e) = [l \in Level |-> Left(l) \o New(l)]
  BY <1>1 DEF AppliedEntry
<1> HIDE DEF Left, New
<1>6. ASSUME NEW l \in Level
      PROVE  Left(l) \o New(l) \in Seq(Name) /\ ToSet(Left(l) \o New(l)) = ToSet(Left(l)) \cup ToSet(New(l))
  BY <1>3, <1>4, ToSetOfConcat
<1>7. AppliedEntry(mf, e) \in Shapes
  BY <1>5, <1>6 DEF Shapes
<1>8. QED
  BY <1>3, <1>4, <1>5, <1>6, <1>7

-----------------------------------------------------------------------------
(* The inductive invariant.                                                *)

Jobs == [at : {"idle", "written", "renamed", "recorded", "compacting", "merged", "deleting", "down"},
         hi : Nat, entry : Entry, todo : Seq(Name)]

TypesInv ==
  /\ \E X : wal \in Seq(X)
  /\ acked \in Nat
  /\ log \in Seq(Entry)
  /\ job \in Jobs

(* No two runs have the same upper end, and none is newer than top.        *)
Distinct(mf, top) ==
  /\ \A l \in Level : \A n \in ToSet(mf[l]) : n.hi <= top
  /\ \A l, m \in Level : \A n \in ToSet(mf[l]), o \in ToSet(mf[m]) :
       n.hi = o.hi => l = m /\ n = o

(* The entry can be applied to the runs of mf, and the upper end of its    *)
(* output is new or that of an input.                                      *)
Fits(mf, e, top) ==
  /\ Replays(mf, e) /\ e.output.hi <= top
  /\ e.level = 0 => e.inputs = {}
  /\ \A l \in Level : \A n \in ToSet(mf[l]) :
       n.hi = e.output.hi => l = e.level - 1 /\ n \in e.inputs

(* The log replays to its end, and to distinct runs.                       *)
LogInv == End(log).ok = TRUE /\ End(log).mf \in Shapes /\ Distinct(End(log).mf, job.hi)

(* A frame behind the end of the log is one that would have been right.    *)
GhostInv ==
  \/ ghost = << >>
  \/ \E e \in Entry : /\ ghost = <<e>> /\ Fits(End(log).mf, e, job.hi)
                      /\ e.output \in DOMAIN files

(* Where the handler is.                                                   *)
JobInv ==
  /\ job.at # "down" => manifest = End(log).mf
  /\ job.at \in {"written", "renamed", "merged"} => Fits(End(log).mf, job.entry, job.hi)
  /\ job.at \in {"renamed", "merged"} => job.entry.output \in DOMAIN files
  /\ job.at = "merged" => job.entry.level # 0 /\ job.entry.inputs # {}
  /\ job.at = "deleting" =>
       /\ ghost = << >>
       /\ ~NameReused => ToSet(job.todo) \cap Tracked(End(log).mf) = {}

DiskInv == ~NameReused => Tracked(End(log).mf) \subseteq DOMAIN files

IInv == TypesInv /\ LogInv /\ GhostInv /\ JobInv /\ DiskInv

-----------------------------------------------------------------------------
(* What an entry that fits does to the runs tracked.                       *)

LEMMA TrackedIs ==
  ASSUME NEW mf \in Shapes
  PROVE  \A x : x \in Tracked(mf) <=> \E l \in Level : x \in ToSet(mf[l])
<1>1. DOMAIN mf = Level
  BY DEF Shapes
<1>2. QED
  BY <1>1 DEF Tracked

LEMMA AppliedKeepsDistinct ==
  ASSUME NEW mf \in Shapes, NEW e \in Entry, NEW top \in Nat, Distinct(mf, top), Fits(mf, e, top)
  PROVE  Distinct(AppliedEntry(mf, e), top)
<1> DEFINE af == AppliedEntry(mf, e)
<1>1. ASSUME NEW l \in Level, NEW n \in ToSet(af[l])
      PROVE  \/ n \in ToSet(mf[l]) /\ ~(l = e.level - 1 /\ n \in e.inputs)
             \/ l = e.level /\ n = e.output
  BY <1>1, AppliedIs
<1> HIDE DEF af
<1>2. ASSUME NEW l \in Level, NEW n \in ToSet(af[l])
      PROVE  n.hi <= top
  BY <1>1, <1>2 DEF Distinct, Fits
<1>3. ASSUME NEW l \in Level, NEW m \in Level, NEW n \in ToSet(af[l]), NEW o \in ToSet(af[m]),
             n.hi = o.hi
      PROVE  l = m /\ n = o
  <2>1. CASE n \in ToSet(mf[l]) /\ o \in ToSet(mf[m])
    BY <1>3, <2>1 DEF Distinct
  <2>2. CASE l = e.level /\ n = e.output /\ m = e.level /\ o = e.output
    BY <2>2
  <2>3. CASE l = e.level /\ n = e.output /\ o \in ToSet(mf[m]) /\ ~(m = e.level - 1 /\ o \in e.inputs)
    BY <1>3, <2>3 DEF Fits
  <2>4. CASE m = e.level /\ o = e.output /\ n \in ToSet(mf[l]) /\ ~(l = e.level - 1 /\ n \in e.inputs)
    BY <1>3, <2>4 DEF Fits
  <2>5. QED
    BY <1>1, <1>3, <2>1, <2>2, <2>3, <2>4
<1>4. QED
  BY <1>2, <1>3 DEF Distinct, af

LEMMA AppliedTracks ==
  ASSUME NEW mf \in Shapes, NEW e \in Entry
  PROVE  Tracked(AppliedEntry(mf, e)) \subseteq Tracked(mf) \cup {e.output}
<1> SUFFICES ASSUME NEW x \in Tracked(AppliedEntry(mf, e))
             PROVE  x \in Tracked(mf) \cup {e.output}
  OBVIOUS
<1>1. AppliedEntry(mf, e) \in Shapes
  BY AppliedIs
<1>2. PICK l \in Level : x \in ToSet(AppliedEntry(mf, e)[l])
  BY <1>1, TrackedIs
<1>3. x \in ToSet(mf[l]) \/ x = e.output
  BY <1>2, AppliedIs
<1>4. QED
  BY <1>3, TrackedIs

(* The inputs are tracked no more, unless the output has the name of one.  *)
LEMMA InputsAreGone ==
  ASSUME NEW mf \in Shapes, NEW e \in Entry, NEW top \in Nat, Distinct(mf, top), Fits(mf, e, top),
         e.output \notin e.inputs
  PROVE  e.inputs \cap Tracked(AppliedEntry(mf, e)) = {}
<1> SUFFICES ASSUME NEW x \in e.inputs, x \in Tracked(AppliedEntry(mf, e))
             PROVE  FALSE
  OBVIOUS
<1>1. AppliedEntry(mf, e) \in Shapes
  BY AppliedIs
<1>2. PICK l \in Level : x \in ToSet(AppliedEntry(mf, e)[l])
  BY <1>1, TrackedIs
<1>3. x \in ToSet(mf[l]) /\ l # e.level - 1
  BY <1>2, AppliedIs
<1>4. e.inputs \subseteq ToSet(mf[e.level - 1]) /\ e.level - 1 \in Level
  <2>1. e.inputs \subseteq ToSet(mf[e.level - 1]) /\ e.level # 0 /\ e.level \in Level
    BY DEF Fits, Replays, Entry
  <2>2. Levels \in Nat
    BY LsmAssumption
  <2>3. QED
    BY <2>1, <2>2 DEF Level
<1>5. x \in ToSet(mf[e.level - 1])
  BY <1>4
<1>6. l = e.level - 1
  BY <1>2, <1>3, <1>4, <1>5 DEF Distinct
<1>7. QED
  BY <1>3, <1>6

-----------------------------------------------------------------------------
(* The picker.                                                             *)

(* The runs that share a signature are runs of the level; a candidate has  *)
(* some.                                                                   *)
LEMMA SharingIs ==
  ASSUME NEW mf \in Shapes, NEW c \in Candidates(mf)
  PROVE  /\ c[1] \in Level /\ c[1] + 1 \in Level
         /\ Sharing(mf, c[1], c[2]) \in Seq(Name)
         /\ ToSet(Sharing(mf, c[1], c[2])) \subseteq ToSet(mf[c[1]])
         /\ \A n \in ToSet(Sharing(mf, c[1], c[2])) : c[2] \in Signatures(files[n])
         /\ ToSet(Sharing(mf, c[1], c[2])) # {}
<1> DEFINE l == c[1]
           sig == c[2]
           A == {name \in ToSet(mf[l]) : sig \in Signatures(files[name])}
<1>1. c \in (0 .. (Levels - 2)) \X Range(Archetypes) /\ Cardinality(Occurrences(mf, l, sig)) >= Trigger
  BY DEF Candidates
<1>2. Levels \in Nat \ {0} /\ Trigger \in Nat \ {0}
  BY LsmAssumption
<1>3. l \in Level /\ l + 1 \in Level
  <2>1. l \in 0 .. (Levels - 2)
    BY <1>1
  <2> HIDE DEF l
  <2>2. QED
    BY <1>2, <2>1 DEF Level
<1>4. mf[l] \in Seq(Name)
  BY <1>3 DEF Shapes
<1>5. Occurrences(mf, l, sig) # {}
  <2>1. Cardinality({}) = 0
    BY FS_EmptySet
  <2>2. QED
    BY <1>1, <1>2, <2>1
<1>6. PICK at \in Occurrences(mf, l, sig) : TRUE
  BY <1>5
<1>7. at[1] \in ToSet(mf[l]) /\ at[2] \in ArchIds(files[at[1]]) /\ Signature(files[at[1]], at[2]) = sig
  BY <1>6 DEF Occurrences
<1>8. sig \in Signatures(files[at[1]])
  BY <1>7 DEF Signatures
<1> HIDE DEF l, sig
<1>9. at[1] \in A
  BY <1>7, <1>8
<1>10. Sharing(mf, l, sig) = Kept(mf[l], A)
  BY DEF Sharing
<1> HIDE DEF A
<1>11. Kept(mf[l], A) \in Seq(Name) /\ ToSet(Kept(mf[l], A)) = ToSet(mf[l]) \cap A
  BY <1>4, KeptIs
<1>12. QED
  BY <1>3, <1>7, <1>9, <1>10, <1>11 DEF A, l, sig

(* There is a first candidate.                                             *)
LEMMA CandidateIs ==
  ASSUME NEW mf \in Shapes, Candidates(mf) # {}
  PROVE  Candidate(mf) \in Candidates(mf)
<1> DEFINE C == Candidates(mf)
           First(x) == Sharing(mf, x[1], x[2])[1]
           Pos(x) == CHOOSE i \in DOMAIN mf[x[1]] : mf[x[1]][i] = First(x)
           FA(x) == FirstArch(First(x), x[2])
<1>1. ASSUME NEW x \in C PROVE First(x) \in ToSet(Sharing(mf, x[1], x[2]))
  <2>1. Sharing(mf, x[1], x[2]) \in Seq(Name) /\ ToSet(Sharing(mf, x[1], x[2])) # {}
    BY SharingIs
  <2> DEFINE sh == Sharing(mf, x[1], x[2])
  <2> HIDE DEF sh
  <2>2. sh \in Seq(Name) /\ ToSet(sh) # {}
    BY <2>1 DEF sh
  <2>3. 1 \in DOMAIN sh
    BY <2>2 DEF ToSet
  <2>4. sh[1] \in ToSet(sh)
    BY <2>3 DEF ToSet
  <2>5. QED
    BY <2>4 DEF sh
<1>2. ASSUME NEW x \in C PROVE x[1] \in Nat /\ First(x) \in ToSet(mf[x[1]]) /\ x[2] \in Signatures(files[First(x)])
  <2>1. x[1] \in Level
    BY SharingIs
  <2>2. x[1] \in Nat
    BY <2>1, LsmAssumption DEF Level
  <2>3. First(x) \in ToSet(mf[x[1]]) /\ x[2] \in Signatures(files[First(x)])
    BY <1>1, SharingIs
  <2>4. QED
    BY <2>2, <2>3
<1>3. ASSUME NEW x \in C PROVE Pos(x) \in Nat
  <2> HIDE DEF First
  <2>1. mf[x[1]] \in Seq(Name)
    BY SharingIs DEF Shapes
  <2>2. \E i \in DOMAIN mf[x[1]] : mf[x[1]][i] = First(x)
    BY <1>2 DEF ToSet
  <2>3. Pos(x) \in DOMAIN mf[x[1]]
    BY <2>2
  <2>4. DOMAIN mf[x[1]] \subseteq Nat
    BY <2>1
  <2>5. QED
    BY <2>3, <2>4
<1>4. ASSUME NEW x \in C PROVE FA(x) \in Nat
  <2> DEFINE N == {n \in ArchIds(files[First(x)]) : Signature(files[First(x)], n) = x[2]}
  <2>1. N # {}
    BY <1>2 DEF Signatures
  <2>2. Arch \subseteq Nat
    BY LsmAssumption DEF Arch
  <2>3. N \subseteq Nat
    BY <2>2 DEF ArchIds
  <2>4. FA(x) = Min(N)
    BY DEF FirstArch
  <2> HIDE DEF N
  <2>5. Min(N) \in N
    BY <2>1, <2>3, MinIs
  <2>6. QED
    BY <2>3, <2>4, <2>5
<1>5. \A c, d \in C : Earlier(mf, c, d) <=>
        \/ c[1] < d[1]
        \/ c[1] = d[1] /\ Pos(c) < Pos(d)
        \/ c[1] = d[1] /\ Pos(c) = Pos(d) /\ FA(c) <= FA(d)
  BY DEF Earlier
<1>6. C # {}
  OBVIOUS
<1>7. Candidate(mf) = CHOOSE c \in C : \A d \in C : Earlier(mf, c, d)
  BY DEF Candidate
<1> HIDE DEF C, Pos, FA
<1>8. PICK a \in C : \A d \in C : a[1] <= d[1]
  <2> DEFINE T == {x[1] : x \in C}
  <2>1. T \subseteq Nat /\ T # {}
    BY <1>2, <1>6
  <2> HIDE DEF T
  <2>2. PICK t \in T : \A u \in T : t <= u
    BY <2>1, LeastElement
  <2>3. QED
    BY <2>2 DEF T
<1>9. PICK b \in C : b[1] = a[1] /\ \A d \in C : d[1] = a[1] => Pos(b) <= Pos(d)
  <2> DEFINE B == {x \in C : x[1] = a[1]}
             T == {Pos(x) : x \in B}
  <2>1. T \subseteq Nat /\ T # {}
    BY <1>3, <1>8
  <2> HIDE DEF T
  <2>2. PICK t \in T : \A u \in T : t <= u
    BY <2>1, LeastElement
  <2>3. QED
    BY <2>2 DEF T
<1>10. PICK c \in C : /\ c[1] = a[1] /\ Pos(c) = Pos(b)
                      /\ \A d \in C : d[1] = a[1] /\ Pos(d) = Pos(b) => FA(c) <= FA(d)
  <2> DEFINE B == {x \in C : x[1] = a[1] /\ Pos(x) = Pos(b)}
             T == {FA(x) : x \in B}
  <2>1. T \subseteq Nat /\ T # {}
    BY <1>4, <1>9
  <2> HIDE DEF T
  <2>2. PICK t \in T : \A u \in T : t <= u
    BY <2>1, LeastElement
  <2>3. QED
    BY <2>2 DEF T
<1>11. ASSUME NEW d \in C PROVE Earlier(mf, c, d)
  <2>1. a[1] \in Nat /\ d[1] \in Nat /\ Pos(b) \in Nat /\ Pos(d) \in Nat
    BY <1>2, <1>3
  <2>2. a[1] < d[1] \/ (a[1] = d[1] /\ Pos(b) < Pos(d)) \/ (a[1] = d[1] /\ Pos(b) = Pos(d))
    BY <1>8, <1>9, <2>1
  <2>3. QED
    BY <1>5, <1>10, <2>2
<1>12. QED
  BY <1>7, <1>11 DEF C

(* The span of some runs ends where the newest of them does.               *)
LEMMA SpanIs ==
  ASSUME NEW inputs, inputs \subseteq Name, inputs # {}, NEW top \in Nat, \A n \in inputs : n.hi <= top
  PROVE  SpanOf(inputs) \in Name /\ \E n \in inputs : SpanOf(inputs).hi = n.hi
<1>1. \A n \in inputs : n.lo \in Nat /\ n.hi \in Nat
  BY DEF Name
<1>2. \E n \in inputs : \A o \in inputs : o.hi <= n.hi
  <2> DEFINE T == {n.hi : n \in inputs}
  <2>1. T \subseteq Nat /\ T # {} /\ \A m \in T : m <= top
    BY <1>1
  <2> HIDE DEF T
  <2>2. PICK t \in T : \A m \in T : m <= t
    BY <2>1, GreatestElement
  <2>3. QED
    BY <2>2 DEF T
<1>3. NewestOf(inputs) \in inputs
  BY <1>2 DEF NewestOf
<1>4. Min({n.lo : n \in inputs}) \in Nat
  <2> DEFINE T == {n.lo : n \in inputs}
  <2>1. T \subseteq Nat /\ T # {}
    BY <1>1
  <2> HIDE DEF T
  <2>2. Min(T) \in T
    BY <2>1, MinIs
  <2>3. QED
    BY <2>1, <2>2 DEF T
<1>5. QED
  BY <1>1, <1>3, <1>4 DEF SpanOf, Name

(* What a compaction asks for fits.                                        *)
LEMMA CompactionFits ==
  ASSUME NEW mf \in Shapes, NEW top \in Nat, Distinct(mf, top), NEW c \in Candidates(mf),
         NEW inputs, inputs = ToSet(Sharing(mf, c[1], c[2])),
         NEW e, e = [output |-> SpanOf(inputs), level |-> c[1] + 1, inputs |-> inputs]
  PROVE  e \in Entry /\ Fits(mf, e, top) /\ e.level # 0 /\ e.inputs # {}
<1>1. c[1] \in Level /\ c[1] + 1 \in Level /\ inputs \subseteq ToSet(mf[c[1]]) /\ inputs # {}
  BY SharingIs
<1>2. mf[c[1]] \in Seq(Name)
  BY <1>1 DEF Shapes
<1>3. ToSet(mf[c[1]]) \subseteq Name
  BY <1>2 DEF ToSet
<1>4. inputs \subseteq Name /\ \A n \in inputs : n.hi <= top
  BY <1>1, <1>3 DEF Distinct
<1>5. SpanOf(inputs) \in Name
  BY <1>1, <1>4, SpanIs
<1>6. PICK new \in inputs : SpanOf(inputs).hi = new.hi
  BY <1>1, <1>4, SpanIs
<1>7. e \in Entry
  BY <1>1, <1>4, <1>5 DEF Entry
<1>8. e.output = SpanOf(inputs) /\ e.level = c[1] + 1 /\ e.inputs = inputs
  OBVIOUS
<1>9. Levels \in Nat /\ c[1] \in Nat /\ e.level < Levels /\ e.level - 1 = c[1] /\ e.level # 0
  BY <1>1, <1>8, LsmAssumption DEF Level
<1>10. Replays(mf, e)
  BY <1>1, <1>8, <1>9 DEF Replays
<1>11. e.output.hi <= top
  BY <1>4, <1>6, <1>8
<1>12. ASSUME NEW l \in Level, NEW n \in ToSet(mf[l]), n.hi = e.output.hi
       PROVE  l = e.level - 1 /\ n \in e.inputs
  <2>1. new \in ToSet(mf[c[1]]) /\ n.hi = new.hi
    BY <1>1, <1>6, <1>8, <1>12
  <2>2. l = c[1] /\ n = new
    BY <1>1, <2>1 DEF Distinct
  <2>3. QED
    BY <1>6, <1>8, <1>9, <2>2
<1>13. Fits(mf, e, top)
  BY <1>9, <1>10, <1>11, <1>12 DEF Fits
<1>14. QED
  BY <1>1, <1>7, <1>8, <1>9, <1>13

(* So does a flush: nothing tracked is as new.                             *)
LEMMA FlushFits ==
  ASSUME NEW mf \in Shapes, NEW top \in Nat, Distinct(mf, top), NEW lo \in Nat, NEW hi \in Nat, top < hi
  PROVE  /\ AddRun([lo |-> lo, hi |-> hi, compact |-> FALSE]) \in Entry
         /\ Fits(mf, AddRun([lo |-> lo, hi |-> hi, compact |-> FALSE]), hi)
         /\ Distinct(mf, hi)
<1> DEFINE name == [lo |-> lo, hi |-> hi, compact |-> FALSE]
           e == AddRun(name)
<1>1. name \in Name /\ name.hi = hi
  BY DEF Name
<1>2. Levels \in Nat \ {0}
  BY LsmAssumption
<1>3. 0 \in Level /\ 0 < Levels
  BY <1>2 DEF Level
<1> HIDE DEF name
<1>4. e.output = name /\ e.level = 0 /\ e.inputs = {} /\ e \in Entry
  BY <1>1, <1>3 DEF AddRun, Entry
<1> HIDE DEF e
<1>5. Replays(mf, e)
  BY <1>3, <1>4 DEF Replays
<1>6. \A l \in Level : mf[l] \in Seq(Name)
  BY DEF Shapes
<1>7. \A l \in Level : \A n \in ToSet(mf[l]) : n.hi \in Nat
  <2>1. \A l \in Level : ToSet(mf[l]) \subseteq Name
    BY <1>6 DEF ToSet
  <2>2. QED
    BY <2>1 DEF Name
<1>8. \A l \in Level : \A n \in ToSet(mf[l]) : n.hi <= top
  BY DEF Distinct
<1>9. \A l \in Level : \A n \in ToSet(mf[l]) : n.hi < hi
  BY <1>7, <1>8
<1>10. \A l \in Level : \A n \in ToSet(mf[l]) : n.hi <= hi /\ n.hi # e.output.hi
  BY <1>1, <1>4, <1>7, <1>9
<1>11. Fits(mf, e, hi)
  BY <1>1, <1>4, <1>5, <1>10 DEF Fits
<1>12. Distinct(mf, hi)
  BY <1>10 DEF Distinct
<1>13. QED
  BY <1>4, <1>11, <1>12 DEF e, name

(* A later bound is a weaker one.                                          *)
LEMMA FitsLater ==
  ASSUME NEW mf, NEW e \in Entry, NEW top \in Nat, NEW hi \in Nat, top <= hi, Fits(mf, e, top)
  PROVE  Fits(mf, e, hi)
<1>1. e.output.hi \in Nat
  BY DEF Entry, Name
<1>2. QED
  BY <1>1 DEF Fits

-----------------------------------------------------------------------------
(* The initial state, and one lemma for each step.                         *)

LEMMA IdleIs ==
  ASSUME NEW hi \in Nat
  PROVE  Idle(hi) \in Jobs /\ Idle(hi).at = "idle" /\ Idle(hi).hi = hi
<1> DEFINE name == [lo |-> 0, hi |-> 0, compact |-> FALSE]
<1>1. name \in Name
  BY DEF Name
<1>2. 0 \in Level
  BY LsmAssumption DEF Level
<1> HIDE DEF name
<1>3. AddRun(name) \in Entry
  BY <1>1, <1>2 DEF AddRun, Entry
<1>4. Idle(hi) = [at |-> "idle", hi |-> hi, entry |-> AddRun(name), todo |-> << >>]
  BY DEF Idle, name
<1>5. << >> \in Seq(Name)
  OBVIOUS
<1>6. QED
  BY <1>3, <1>4, <1>5 DEF Jobs

LEMMA InitHolds == Init => IInv
<1> SUFFICES ASSUME Init PROVE IInv
  OBVIOUS
<1>1. wal = << >> /\ acked = 0 /\ log = << >> /\ ghost = << >> /\ manifest = NoRuns /\ job = Idle(0)
  BY DEF Init
<1>2. job \in Jobs /\ job.at = "idle" /\ job.hi = 0
  BY <1>1, IdleIs
<1>3. TypesInv
  <2>1. << >> \in Seq({}) /\ << >> \in Seq(Entry) /\ 0 \in Nat
    OBVIOUS
  <2>2. QED
    BY <1>1, <1>2, <2>1 DEF TypesInv
<1>4. End(log).mf = NoRuns /\ End(log).ok = TRUE
  BY <1>1, ReplayOfNone
<1>5. NoRuns \in Shapes /\ \A l \in Level : ToSet(NoRuns[l]) = {}
  <2>1. \A l \in Level : NoRuns[l] = << >>
    BY DEF NoRuns, Level
  <2>2. NoRuns \in Shapes
    BY DEF NoRuns, Shapes, Level
  <2>3. QED
    BY <2>1, <2>2 DEF ToSet
<1>6. LogInv
  BY <1>4, <1>5 DEF LogInv, Distinct
<1>7. Tracked(End(log).mf) = {}
  BY <1>4, <1>5, TrackedIs
<1>8. QED
  BY <1>1, <1>2, <1>3, <1>4, <1>6, <1>7 DEF IInv, GhostInv, JobInv, DiskInv

(* What holds of the variables of a step, for use in the lemmas.           *)
LEMMA Parts ==
  ASSUME IInv
  PROVE  /\ acked \in Nat /\ log \in Seq(Entry) /\ Len(wal) \in Nat
         /\ job \in Jobs /\ job.hi \in Nat /\ job.entry \in Entry /\ job.todo \in Seq(Name)
         /\ End(log).mf \in Shapes /\ End(log).ok = TRUE /\ Distinct(End(log).mf, job.hi)
<1>1. TypesInv /\ LogInv
  BY DEF IInv
<1>2. Len(wal) \in Nat
  BY <1>1 DEF TypesInv
<1>3. job.hi \in Nat /\ job.entry \in Entry /\ job.todo \in Seq(Name)
  BY <1>1 DEF TypesInv, Jobs
<1>4. QED
  BY <1>1, <1>2, <1>3 DEF TypesInv, LogInv

(* A commit is nothing to the store.                                       *)
LEMMA CommitKeeps ==
  ASSUME IInv, NEW op, Commit(op)
  PROVE  IInv'
<1>1. wal' = Append(wal, op) /\ UNCHANGED <<acked, files, log, ghost, manifest, job>>
  BY DEF Commit, lsmVars
<1>2. TypesInv'
  <2>1. PICK X : wal \in Seq(X)
    BY DEF IInv, TypesInv
  <2>2. wal \in Seq(X \cup {op}) /\ op \in X \cup {op}
    BY <2>1
  <2>3. Append(wal, op) \in Seq(X \cup {op})
    BY <2>2
  <2>4. QED
    BY <1>1, <2>3 DEF IInv, TypesInv
<1>3. LogInv' /\ GhostInv' /\ DiskInv'
  BY <1>1 DEF IInv, LogInv, GhostInv, DiskInv, NameReused
<1>4. JobInv'
  BY <1>1 DEF IInv, JobInv, NameReused
<1>5. QED
  BY <1>2, <1>3, <1>4 DEF IInv

(* Neither is a step of the handler that only takes it further.            *)
LEMMA QuietKeeps ==
  ASSUME IInv, UNCHANGED <<files, log, ghost, manifest>>, TypesInv',
         job.at # "down", job'.hi = job.hi, job'.at \in {"idle", "recorded", "compacting"}
  PROVE  IInv'
<1>1. LogInv' /\ GhostInv' /\ DiskInv'
  BY DEF IInv, LogInv, GhostInv, DiskInv, NameReused
<1>2. JobInv'
  BY DEF IInv, JobInv
<1>3. QED
  BY <1>1, <1>2 DEF IInv

LEMMA CheckpointKeeps == ASSUME IInv, Checkpoint PROVE IInv'
<1> DEFINE name == [lo |-> acked, hi |-> Len(wal), compact |-> FALSE]
<1>1. /\ job.at = "idle" /\ job.hi < Len(wal)
      /\ UNCHANGED <<wal, acked, files, log, ghost, manifest>>
      /\ \/ job' = [Idle(Len(wal)) EXCEPT !.at = "recorded"]
         \/ job' = [Idle(Len(wal)) EXCEPT !.at = "written", !.entry = AddRun(name)]
  BY DEF Checkpoint
<1>2. Len(wal) \in Nat /\ acked \in Nat /\ job.hi \in Nat
  BY Parts
<1>3. Idle(Len(wal)) \in Jobs /\ Idle(Len(wal)).hi = Len(wal)
  BY <1>2, IdleIs
<1>4. /\ AddRun(name) \in Entry /\ Fits(End(log).mf, AddRun(name), Len(wal))
      /\ Distinct(End(log).mf, Len(wal))
  BY <1>1, <1>2, Parts, FlushFits
<1> HIDE DEF name
<1>5. /\ job' \in Jobs /\ job'.hi = Len(wal)
      /\ \/ job'.at = "recorded"
         \/ job'.at = "written" /\ job'.entry = AddRun(name)
  BY <1>1, <1>3, <1>4 DEF Jobs
<1>6. TypesInv'
  BY <1>1, <1>5 DEF IInv, TypesInv
<1>7. LogInv' /\ DiskInv'
  BY <1>1, <1>4, <1>5 DEF IInv, LogInv, DiskInv, NameReused
<1>8. GhostInv'
  <2>1. \A e \in Entry : Fits(End(log).mf, e, job.hi) => Fits(End(log).mf, e, Len(wal))
    BY <1>1, <1>2, FitsLater
  <2>2. QED
    BY <1>1, <1>5, <2>1 DEF IInv, GhostInv
<1>9. JobInv'
  BY <1>1, <1>4, <1>5 DEF IInv, JobInv
<1>10. QED
  BY <1>6, <1>7, <1>8, <1>9 DEF IInv

LEMMA FlushRenameKeeps == ASSUME IInv, FlushRename PROVE IInv'
<1>1. /\ job.at = "written" /\ job' = [job EXCEPT !.at = "renamed"]
      /\ DOMAIN files' = DOMAIN files \cup {job.entry.output}
      /\ UNCHANGED <<wal, acked, log, ghost, manifest>>
  BY DEF FlushRename, With
<1>2. /\ job' \in Jobs /\ job'.hi = job.hi /\ job'.entry = job.entry /\ job'.at = "renamed"
  BY <1>1, Parts DEF Jobs
<1>3. TypesInv'
  BY <1>1, <1>2 DEF IInv, TypesInv
<1>4. LogInv' /\ DiskInv' /\ GhostInv'
  BY <1>1, <1>2 DEF IInv, LogInv, DiskInv, GhostInv, NameReused
<1>5. JobInv'
  BY <1>1, <1>2 DEF IInv, JobInv
<1>6. QED
  BY <1>3, <1>4, <1>5 DEF IInv

(* The steps that only take the handler further.                           *)
LEMMA FlushFailsKeeps == ASSUME IInv, FlushFails PROVE IInv'
<1>1. job.at = "written" /\ job' = Idle(job.hi) /\ UNCHANGED <<wal, acked, files, log, ghost, manifest>>
  BY DEF FlushFails
<1>2. job' \in Jobs /\ job'.at = "idle" /\ job'.hi = job.hi
  BY <1>1, Parts, IdleIs
<1>3. TypesInv'
  BY <1>1, <1>2 DEF IInv, TypesInv
<1>4. QED
  BY <1>1, <1>2, <1>3, QuietKeeps

LEMMA ClearDirtyKeeps == ASSUME IInv, ClearDirty PROVE IInv'
<1>1. /\ job.at = "recorded" /\ job' = [job EXCEPT !.at = "compacting"]
      /\ UNCHANGED <<wal, acked, files, log, ghost, manifest>>
  BY DEF ClearDirty, lsmVars
<1>2. job' \in Jobs /\ job'.at = "compacting" /\ job'.hi = job.hi
  BY <1>1, Parts DEF Jobs
<1>3. TypesInv'
  BY <1>1, <1>2 DEF IInv, TypesInv
<1>4. QED
  BY <1>1, <1>2, <1>3, QuietKeeps

LEMMA CompactFailsKeeps == ASSUME IInv, CompactFails PROVE IInv'
<1>1. job.at = "compacting" /\ job' = Idle(job.hi) /\ UNCHANGED <<wal, acked, files, log, ghost, manifest>>
  BY DEF CompactFails, lsmVars
<1>2. job' \in Jobs /\ job'.at = "idle" /\ job'.hi = job.hi
  BY <1>1, Parts, IdleIs
<1>3. TypesInv'
  BY <1>1, <1>2 DEF IInv, TypesInv
<1>4. QED
  BY <1>1, <1>2, <1>3, QuietKeeps

LEMMA CompactDoneKeeps == ASSUME IInv, CompactDone PROVE IInv'
<1>1. /\ job.at = "deleting" /\ job' = [job EXCEPT !.at = "compacting"]
      /\ UNCHANGED <<wal, acked, files, log, ghost, manifest>>
  BY DEF CompactDone, lsmVars
<1>2. job' \in Jobs /\ job'.at = "compacting" /\ job'.hi = job.hi
  BY <1>1, Parts DEF Jobs
<1>3. TypesInv'
  BY <1>1, <1>2 DEF IInv, TypesInv
<1>4. QED
  BY <1>1, <1>2, <1>3, QuietKeeps

LEMMA AcknowledgeKeeps == ASSUME IInv, Acknowledge PROVE IInv'
<1>1. /\ job.at = "compacting" /\ job' = Idle(job.hi)
      /\ acked' \in {job.hi, acked} /\ UNCHANGED <<wal, files, log, ghost, manifest>>
  BY DEF Acknowledge, lsmVars
<1>2. job' \in Jobs /\ job'.at = "idle" /\ job'.hi = job.hi /\ acked' \in Nat
  BY <1>1, Parts, IdleIs
<1>3. TypesInv'
  BY <1>1, <1>2 DEF IInv, TypesInv
<1>4. QED
  BY <1>1, <1>2, <1>3, QuietKeeps

(* A merged run is on disk before the log names it.                        *)
LEMMA CompactWriteKeeps == ASSUME IInv, CompactWrite PROVE IInv'
<1> DEFINE c == Candidate(manifest)
           inputs == Inputs
           e == [output |-> SpanOf(inputs), level |-> c[1] + 1, inputs |-> inputs]
<1>1. /\ job.at = "compacting" /\ Candidates(manifest) # {}
      /\ DOMAIN files' = DOMAIN files \cup {SpanOf(inputs)}
      /\ job' = [job EXCEPT !.at = "merged", !.entry = e]
      /\ UNCHANGED <<wal, acked, log, ghost, manifest>>
  BY DEF CompactWrite, Compacts, CanMerge, With
<1>2. manifest = End(log).mf
  BY <1>1 DEF IInv, JobInv
<1>3. c \in Candidates(manifest)
  BY <1>1, <1>2, Parts, CandidateIs
<1>4. inputs = ToSet(Sharing(manifest, c[1], c[2]))
  BY DEF Inputs
<1> HIDE DEF c, inputs
<1>5. e \in Entry /\ Fits(manifest, e, job.hi) /\ e.level # 0 /\ e.inputs # {} /\ e.output = SpanOf(inputs)
  <2>1. manifest \in Shapes /\ job.hi \in Nat /\ Distinct(manifest, job.hi)
    BY <1>2, Parts
  <2>2. e = [output |-> SpanOf(inputs), level |-> c[1] + 1, inputs |-> inputs] /\ e.output = SpanOf(inputs)
    OBVIOUS
  <2> HIDE DEF e
  <2>3. QED
    BY <1>3, <1>4, <2>1, <2>2, CompactionFits
<1> HIDE DEF e
<1>6. job' \in Jobs /\ job'.at = "merged" /\ job'.hi = job.hi /\ job'.entry = e
  BY <1>1, <1>5, Parts DEF Jobs
<1>7. TypesInv'
  BY <1>1, <1>6 DEF IInv, TypesInv
<1>8. LogInv' /\ DiskInv' /\ GhostInv'
  BY <1>1, <1>6 DEF IInv, LogInv, DiskInv, GhostInv, NameReused
<1>9. JobInv'
  BY <1>1, <1>2, <1>5, <1>6 DEF JobInv
<1>10. QED
  BY <1>7, <1>8, <1>9 DEF IInv

(* An append that succeeds.                                                *)
LEMMA AppendedIs ==
  ASSUME IInv, Appended, job.at \in {"renamed", "merged"}, DOMAIN files' = DOMAIN files, job'.hi = job.hi
  PROVE  /\ log' \in Seq(Entry) /\ ghost' = << >> /\ manifest' = End(log').mf
         /\ LogInv' /\ DiskInv'
         /\ ~NameReused' => job.entry.inputs \cap Tracked(End(log').mf) = {}
<1> DEFINE M == End(log).mf
           e == job.entry
<1>1. /\ log \in Seq(Entry) /\ e \in Entry /\ job.hi \in Nat /\ M \in Shapes
      /\ End(log).ok = TRUE /\ Distinct(M, job.hi)
  BY Parts
<1>2. manifest = M /\ Fits(M, e, job.hi) /\ e.output \in DOMAIN files
  BY DEF IInv, JobInv
<1>3. log' = Append(log, e) /\ ghost' = << >> /\ manifest' = AppliedEntry(manifest, e)
  BY DEF Appended
<1>4. DiskInv
  BY DEF IInv
<1> HIDE DEF e
<1>5. log' \in Seq(Entry)
  BY <1>1, <1>3
<1>6. Replays(M, e)
  BY <1>2 DEF Fits
<1>7. End(log').mf = AppliedEntry(M, e) /\ End(log').ok = TRUE
  <2>1. End(Append(log, e)).mf = AppliedEntry(M, e) /\ End(Append(log, e)).ok = TRUE
    BY <1>1, <1>6, ReplayOfAppend
  <2>2. QED
    BY <1>3, <2>1
<1>8. AppliedEntry(M, e) \in Shapes /\ Distinct(AppliedEntry(M, e), job.hi)
  BY <1>1, <1>2, AppliedIs, AppliedKeepsDistinct
<1>9. LogInv'
  BY <1>7, <1>8 DEF LogInv
<1>10. ~NameReused' => ~NameReused /\ e.output \notin e.inputs
  <2>1. /\ Len(log) \in Nat /\ Len(log') = Len(log) + 1
        /\ \A i \in 1 .. Len(log) : log'[i] = log[i]
    BY <1>1, <1>3, AppendIs
  <2>2. log'[Len(log) + 1] = e
    BY <1>1, <1>3, AppendIs
  <2>3. DOMAIN log = 1 .. Len(log) /\ DOMAIN log' = 1 .. Len(log')
    BY <1>1, <1>5
  <2>4. Len(log) + 1 \in DOMAIN log' /\ \A i \in DOMAIN log : i \in DOMAIN log' /\ log'[i] = log[i]
    BY <2>1, <2>3
  <2>5. QED
    BY <2>2, <2>4 DEF NameReused
<1>11. Tracked(AppliedEntry(M, e)) \subseteq Tracked(M) \cup {e.output}
  BY <1>1, AppliedTracks
<1>12. DiskInv'
  BY <1>2, <1>4, <1>7, <1>10, <1>11 DEF DiskInv
<1>13. e.output \notin e.inputs => e.inputs \cap Tracked(AppliedEntry(M, e)) = {}
  BY <1>1, <1>2, InputsAreGone
<1>14. QED
  BY <1>2, <1>3, <1>5, <1>7, <1>9, <1>10, <1>12, <1>13 DEF e

LEMMA RecordKeeps == ASSUME IInv, Record PROVE IInv'
<1>1. /\ job.at = "renamed" /\ Appended /\ job' = [job EXCEPT !.at = "recorded"]
      /\ UNCHANGED <<wal, acked, files>>
  BY DEF Record
<1>2. job' \in Jobs /\ job'.hi = job.hi /\ job'.at = "recorded"
  BY <1>1, Parts DEF Jobs
<1>3. log' \in Seq(Entry) /\ ghost' = << >> /\ manifest' = End(log').mf /\ LogInv' /\ DiskInv'
  BY <1>1, <1>2, AppendedIs
<1>4. TypesInv'
  BY <1>1, <1>2, <1>3 DEF IInv, TypesInv
<1>5. JobInv' /\ GhostInv'
  BY <1>2, <1>3 DEF JobInv, GhostInv
<1>6. QED
  BY <1>3, <1>4, <1>5 DEF IInv

LEMMA CompactCommitKeeps == ASSUME IInv, CompactCommit PROVE IInv'
<1> DEFINE e == job.entry
           todo == Kept(manifest[e.level - 1], e.inputs)
<1>1. /\ job.at = "merged" /\ Appended /\ job' = [job EXCEPT !.at = "deleting", !.todo = todo]
      /\ UNCHANGED <<wal, acked, files>>
  BY DEF CompactCommit
<1>2. manifest = End(log).mf /\ e.level # 0
  BY <1>1 DEF IInv, JobInv
<1>3. manifest \in Shapes /\ e \in Entry
  BY <1>2, Parts
<1>4. manifest[e.level - 1] \in Seq(Name)
  <2>1. e.level \in Level /\ Levels \in Nat
    BY <1>3, LsmAssumption DEF Entry
  <2>2. e.level - 1 \in Level
    BY <1>2, <2>1 DEF Level
  <2>3. QED
    BY <1>3, <2>2 DEF Shapes
<1>5. todo \in Seq(Name) /\ ToSet(todo) \subseteq e.inputs
  BY <1>4, KeptIs
<1> HIDE DEF todo
<1>6. job' \in Jobs /\ job'.hi = job.hi /\ job'.at = "deleting" /\ job'.todo = todo
  BY <1>1, <1>5, Parts DEF Jobs
<1>7. /\ log' \in Seq(Entry) /\ ghost' = << >> /\ manifest' = End(log').mf /\ LogInv' /\ DiskInv'
      /\ ~NameReused' => job.entry.inputs \cap Tracked(End(log').mf) = {}
  BY <1>1, <1>6, AppendedIs
<1>8. TypesInv'
  BY <1>1, <1>6, <1>7 DEF IInv, TypesInv
<1>9. JobInv' /\ GhostInv'
  BY <1>5, <1>6, <1>7 DEF JobInv, GhostInv
<1>10. QED
  BY <1>7, <1>8, <1>9 DEF IInv

(* An append that fails may leave its frame behind the end.                *)
LEMMA AppendFailsKeeps ==
  ASSUME IInv, job.at \in {"renamed", "merged"}, AppendFails
  PROVE  IInv'
<1>1. /\ ghost' \in {<< >>, <<job.entry>>} /\ job' = Idle(job.hi)
      /\ UNCHANGED <<wal, acked, files, log, manifest>>
  BY DEF AppendFails
<1>2. job' \in Jobs /\ job'.at = "idle" /\ job'.hi = job.hi
  BY <1>1, Parts, IdleIs
<1>3. Fits(End(log).mf, job.entry, job.hi) /\ job.entry.output \in DOMAIN files /\ job.entry \in Entry
  BY Parts DEF IInv, JobInv
<1>4. GhostInv'
  BY <1>1, <1>2, <1>3 DEF GhostInv
<1>5. TypesInv'
  BY <1>1, <1>2 DEF IInv, TypesInv
<1>6. LogInv' /\ DiskInv'
  BY <1>1, <1>2 DEF IInv, LogInv, DiskInv, NameReused
<1>7. JobInv'
  BY <1>1, <1>2 DEF IInv, JobInv
<1>8. QED
  BY <1>4, <1>5, <1>6, <1>7 DEF IInv

LEMMA DeleteInputKeeps == ASSUME IInv, DeleteInput PROVE IInv'
<1>1. /\ job.at = "deleting" /\ job.todo # << >>
      /\ DOMAIN files \ {Head(job.todo)} \subseteq DOMAIN files'
      /\ job' = [job EXCEPT !.todo = Tail(@)]
      /\ UNCHANGED <<wal, acked, log, ghost, manifest>>
  BY DEF DeleteInput
<1>2. job.todo \in Seq(Name)
  BY Parts
<1>3. Tail(job.todo) \in Seq(Name) /\ ToSet(Tail(job.todo)) \subseteq ToSet(job.todo)
  BY <1>1, <1>2 DEF ToSet
<1>4. Head(job.todo) \in ToSet(job.todo)
  BY <1>1, <1>2 DEF ToSet
<1>5. /\ job' \in Jobs /\ job'.hi = job.hi /\ job'.at = "deleting" /\ job'.todo = Tail(job.todo)
  BY <1>1, <1>3, Parts DEF Jobs
<1>6. /\ ghost = << >> /\ manifest = End(log).mf
      /\ ~NameReused => ToSet(job.todo) \cap Tracked(End(log).mf) = {}
  BY <1>1 DEF IInv, JobInv
<1>7. TypesInv'
  BY <1>1, <1>5 DEF IInv, TypesInv
<1>8. LogInv' /\ GhostInv'
  BY <1>1, <1>5, <1>6 DEF IInv, LogInv, GhostInv
<1>9. DiskInv'
  BY <1>1, <1>4, <1>6 DEF IInv, DiskInv, NameReused
<1>10. JobInv'
  BY <1>1, <1>3, <1>5, <1>6 DEF JobInv, NameReused
<1>11. QED
  BY <1>7, <1>8, <1>9, <1>10 DEF IInv

LEMMA CrashKeeps == ASSUME IInv, Crash PROVE IInv'
<1>1. /\ \/ ghost' = << >> \/ ghost' = ghost
         \/ job.at \in {"renamed", "merged"} /\ ghost' = <<job.entry>>
      /\ job' = [Idle(job.hi) EXCEPT !.at = "down"]
      /\ UNCHANGED <<wal, acked, files, log>>
  BY DEF Crash
<1>2. job' \in Jobs /\ job'.at = "down" /\ job'.hi = job.hi
  <2>1. Idle(job.hi) \in Jobs /\ Idle(job.hi).hi = job.hi
    BY Parts, IdleIs
  <2>2. QED
    BY <1>1, <2>1 DEF Jobs
<1>3. job.at \in {"renamed", "merged"} =>
        Fits(End(log).mf, job.entry, job.hi) /\ job.entry.output \in DOMAIN files /\ job.entry \in Entry
  BY Parts DEF IInv, JobInv
<1>4. GhostInv'
  BY <1>1, <1>2, <1>3 DEF IInv, GhostInv
<1>5. TypesInv'
  BY <1>1, <1>2 DEF IInv, TypesInv
<1>6. LogInv' /\ DiskInv'
  BY <1>1, <1>2 DEF IInv, LogInv, DiskInv, NameReused
<1>7. JobInv'
  BY <1>2 DEF JobInv
<1>8. QED
  BY <1>4, <1>5, <1>6, <1>7 DEF IInv

(* What a restart finds.                                                   *)
LEMMA OnDiskIs ==
  ASSUME IInv
  PROVE  /\ log \o ghost \in Seq(Entry)
         /\ End(log \o ghost).ok = TRUE /\ End(log \o ghost).mf \in Shapes
         /\ Distinct(End(log \o ghost).mf, job.hi)
         /\ Tracked(End(log \o ghost).mf) \subseteq Tracked(End(log).mf) \cup DOMAIN files
         /\ \A n \in DOMAIN log : n \in DOMAIN (log \o ghost) /\ (log \o ghost)[n] = log[n]
<1> DEFINE M == End(log).mf
<1>1. /\ log \in Seq(Entry) /\ job.hi \in Nat /\ M \in Shapes
      /\ End(log).ok = TRUE /\ Distinct(M, job.hi)
  BY Parts
<1>2. CASE ghost = << >>
  <2>1. log \o ghost = log
    BY <1>1, <1>2
  <2>2. QED
    BY <1>1, <2>1
<1>3. CASE ghost # << >>
  <2>1. PICK e \in Entry : ghost = <<e>> /\ Fits(M, e, job.hi) /\ e.output \in DOMAIN files
    BY <1>3 DEF IInv, GhostInv
  <2>2. log \o ghost = Append(log, e)
    BY <1>1, <2>1
  <2>3. Replays(M, e)
    BY <2>1 DEF Fits
  <2>4. End(Append(log, e)).mf = AppliedEntry(M, e) /\ End(Append(log, e)).ok = TRUE
    BY <1>1, <2>3, ReplayOfAppend
  <2>5. AppliedEntry(M, e) \in Shapes /\ Distinct(AppliedEntry(M, e), job.hi)
    BY <1>1, <2>1, AppliedIs, AppliedKeepsDistinct
  <2>6. Tracked(AppliedEntry(M, e)) \subseteq Tracked(M) \cup {e.output}
    BY <1>1, AppliedTracks
  <2>7. /\ Append(log, e) \in Seq(Entry)
        /\ \A n \in DOMAIN log : n \in DOMAIN Append(log, e) /\ Append(log, e)[n] = log[n]
    BY <1>1
  <2>8. QED
    BY <2>1, <2>2, <2>4, <2>5, <2>6, <2>7
<1>4. QED
  BY <1>2, <1>3

LEMMA RestartKeeps == ASSUME IInv, Restart PROVE IInv'
<1>1. /\ log' = log \o ghost /\ ghost' = << >> /\ manifest' = OnDisk
      /\ DOMAIN files' = DOMAIN files \cap Tracked(OnDisk)
      /\ job' = [job EXCEPT !.at = "idle"] /\ UNCHANGED <<wal, acked>>
  BY DEF Restart
<1>2. OnDisk = End(log \o ghost).mf
  BY DEF OnDisk, Replayed, End
<1>3. job' \in Jobs /\ job'.at = "idle" /\ job'.hi = job.hi
  BY <1>1, Parts DEF Jobs
<1>4. /\ log' \in Seq(Entry)
      /\ End(log').ok = TRUE /\ End(log').mf \in Shapes /\ Distinct(End(log').mf, job.hi)
      /\ Tracked(End(log').mf) \subseteq Tracked(End(log).mf) \cup DOMAIN files
      /\ \A n \in DOMAIN log : n \in DOMAIN log' /\ log'[n] = log[n]
  BY <1>1, OnDiskIs
<1>5. TypesInv'
  BY <1>1, <1>3, <1>4 DEF IInv, TypesInv
<1>6. LogInv'
  BY <1>3, <1>4 DEF LogInv
<1>7. GhostInv' /\ JobInv'
  BY <1>1, <1>2, <1>3 DEF GhostInv, JobInv
<1>8. DiskInv'
  <2>1. ~NameReused' => ~NameReused
    BY <1>4 DEF NameReused
  <2>2. ~NameReused' => Tracked(End(log').mf) \subseteq DOMAIN files
    BY <1>4, <2>1 DEF IInv, DiskInv
  <2>3. QED
    BY <1>1, <1>2, <2>2 DEF DiskInv
<1>9. QED
  BY <1>5, <1>6, <1>7, <1>8 DEF IInv

(* Nothing else changes: vars stays, or a variable that IInv does not name.*)
LEMMA StutterKeeps == ASSUME IInv, UNCHANGED vars PROVE IInv'
<1>1. UNCHANGED <<wal, acked, files, log, ghost, manifest, job>>
  BY DEF vars
<1>2. TypesInv'
  BY <1>1 DEF IInv, TypesInv
<1>3. LogInv' /\ GhostInv' /\ DiskInv'
  BY <1>1 DEF IInv, LogInv, GhostInv, DiskInv, NameReused
<1>4. JobInv'
  BY <1>1 DEF IInv, JobInv, NameReused
<1>5. QED
  BY <1>2, <1>3, <1>4 DEF IInv

LEMMA NextKeeps == ASSUME IInv, [Next]_vars PROVE IInv'
<1>1. CASE Spawn \/ Despawn \/ Write \/ Migrate \/ Tag
  <2>1. \E op : Commit(op)
    BY <1>1 DEF Spawn, Despawn, Write, Migrate, Tag
  <2>2. QED
    BY <2>1, CommitKeeps
<1>2. CASE Checkpoint
  BY <1>2, CheckpointKeeps
<1>3. CASE FlushRename
  BY <1>3, FlushRenameKeeps
<1>4. CASE FlushFails
  BY <1>4, FlushFailsKeeps
<1>5. CASE Record
  BY <1>5, RecordKeeps
<1>6. CASE RecordFails
  BY <1>6, AppendFailsKeeps DEF RecordFails
<1>7. CASE ClearDirty
  BY <1>7, ClearDirtyKeeps
<1>8. CASE CompactWrite
  BY <1>8, CompactWriteKeeps
<1>9. CASE CompactFails
  BY <1>9, CompactFailsKeeps
<1>10. CASE CompactCommit
  BY <1>10, CompactCommitKeeps
<1>11. CASE CompactCommitFails
  BY <1>11, AppendFailsKeeps DEF CompactCommitFails
<1>12. CASE DeleteInput
  BY <1>12, DeleteInputKeeps
<1>13. CASE CompactDone
  BY <1>13, CompactDoneKeeps
<1>14. CASE Acknowledge
  BY <1>14, AcknowledgeKeeps
<1>15. CASE Crash
  BY <1>15, CrashKeeps
<1>16. CASE Restart
  BY <1>16, RestartKeeps
<1>17. CASE UNCHANGED vars
  BY <1>17, StutterKeeps
<1>18. QED
  BY <1>1, <1>2, <1>3, <1>4, <1>5, <1>6, <1>7, <1>8, <1>9, <1>10, <1>11, <1>12, <1>13, <1>14,
     <1>15, <1>16, <1>17 DEF Next

-----------------------------------------------------------------------------
(* Theorems.                                                               *)

(* The invariant holds of every behaviour, for any archetypes, page size,  *)
(* levels, trigger and number of faults.                                   *)
THEOREM Invariance == Spec => []IInv
<1>1. Init => IInv
  BY InitHolds
<1>2. IInv /\ [Next]_vars => IInv'
  BY NextKeeps
<1>3. QED
  BY <1>1, <1>2, PTL DEF Spec

(* The manifest in memory is the one its log replays to, and the runs that *)
(* a restart may find tracked are on disk, whichever append, flush,        *)
(* compaction or deletion failed or was cut short by a crash, as long as   *)
(* no compaction has written its output over one of its inputs             *)
(* (execute_compaction_observed deletes it then).                          *)
THEOREM ManifestStaysDurable == Spec => []ManifestIsDurable
<1>1. IInv => ManifestIsDurable
  <2> SUFFICES ASSUME IInv PROVE ManifestIsDurable
    OBVIOUS
  <2>1. Replayed(log) = End(log).mf /\ OnDisk = End(log \o ghost).mf
    BY DEF OnDisk, Replayed, End
  <2>2. job.at # "down" => manifest = Replayed(log)
    BY <2>1 DEF IInv, JobInv
  <2>3. ~NameReused => Tracked(Replayed(log)) \subseteq DOMAIN files
    BY <2>1 DEF IInv, DiskInv
  <2>4. ~NameReused => Tracked(OnDisk) \subseteq DOMAIN files
    BY <2>1, <2>3, OnDiskIs
  <2>5. QED
    BY <2>2, <2>3, <2>4 DEF ManifestIsDurable, Manifests
<1>2. QED
  BY <1>1, Invariance, PTL
===========================================================================

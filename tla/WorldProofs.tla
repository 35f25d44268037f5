---------------------------- MODULE WorldProofs ----------------------------
(***************************************************************************)
(* Proofs about the storage of a World: rows, locations and the sparse set *)
(* agree with each other and with what every entity was given, through     *)
(* swap-removes, moves between archetypes, batches and changesets; and no  *)
(* reader of the change ticks misses a change of the key.                  *)
(***************************************************************************)
EXTENDS ChangeDetection, FiniteSetTheorems, WellFoundedInduction, TLAPS

-----------------------------------------------------------------------------
(* Induction on natural numbers: the set of the numbers that have a        *)
(* property takes the place of the property.                               *)

(* A set of natural numbers that is not empty has a least element.         *)
LEMMA LeastElement ==
  ASSUME NEW T, T \subseteq Nat, T # {}
  PROVE  \E n \in T : \A m \in T : n <= m
<1> DEFINE R == OpToRel(<, Nat)
<1>1. IsWellFoundedOn(R, Nat)
  BY NatLessThanWellFounded
<1>2. \A m, n \in Nat : m < n => <<m, n>> \in R
  BY DEF OpToRel
<1> HIDE DEF R
<1>3. PICK n \in T : \A m \in T : ~(<<m, n>> \in R)
  BY <1>1, WFMin
<1>4. \A m \in T : ~(m < n)
  BY <1>2, <1>3
<1>5. QED
  BY <1>4

(* A set that holds 0 and, up to N, the successor of each number in it,    *)
(* holds 0 .. N.                                                           *)
LEMMA UpTo ==
  ASSUME NEW N \in Nat, NEW S,
         0 \in S,
         \A n \in 1 .. N : n - 1 \in S => n \in S
  PROVE  \A n \in 0 .. N : n \in S
<1> SUFFICES ASSUME NEW k \in 0 .. N, k \notin S
             PROVE  FALSE
  OBVIOUS
<1> DEFINE T == {n \in 0 .. N : n \notin S}
<1>1. PICK n \in T : \A m \in T : n <= m
  <2>1. T \subseteq Nat /\ T # {}
    OBVIOUS
  <2> HIDE DEF T
  <2>2. QED
    BY <2>1, LeastElement
<1>2. n \in 1 .. N
  OBVIOUS
<1>3. n - 1 \in 0 .. N /\ n - 1 \notin T
  BY <1>1, <1>2
<1>4. QED
  BY <1>2, <1>3


-----------------------------------------------------------------------------
(* The types of a world.                                                   *)
H == [idx : Slots, gen : Nat]
Place == [arch : Nat, row : Nat]
V == (UNION {Range(b) : b \in Bundles \cup Linked}) \cup Values \cup SparseValues
On(S) == UNION {[D -> S] : D \in SUBSET Components}

RowType == [ent : H, vals : On(V)]
ArchType == [ids : SUBSET Components, rows : Seq(RowType), ticks : On(Nat)]
Worlds == [tick : Nat, gens : [Slots -> Nat], free : SUBSET Slots,
           loc : [Slots -> {None} \cup Place], archs : Seq(ArchType),
           pages : [Slots -> {None} \cup (Nat \ {0})], dense : Seq([ent : H, val : V])]

LEMMA OnIs ==
  ASSUME NEW S, NEW f
  PROVE  f \in On(S) <=> DOMAIN f \subseteq Components /\ f \in [DOMAIN f -> S]
  BY DEF On

LEMMA OverlayOn ==
  ASSUME NEW S, NEW f \in On(S), NEW g \in On(S)
  PROVE  /\ Overlay(f, g) \in On(S)
         /\ DOMAIN Overlay(f, g) = DOMAIN f \cup DOMAIN g
         /\ \A c \in DOMAIN f : Overlay(f, g)[c] = f[c]
         /\ \A c \in DOMAIN g \ DOMAIN f : Overlay(f, g)[c] = g[c]
<1> DEFINE o == Overlay(f, g)
<1>1. /\ DOMAIN o = DOMAIN f \cup DOMAIN g
      /\ \A c \in DOMAIN f : o[c] = f[c]
      /\ \A c \in DOMAIN g \ DOMAIN f : o[c] = g[c]
      /\ o = [c \in DOMAIN o |-> o[c]]
  BY DEF Overlay
<1>2. /\ DOMAIN f \subseteq Components /\ \A c \in DOMAIN f : f[c] \in S
      /\ DOMAIN g \subseteq Components /\ \A c \in DOMAIN g : g[c] \in S
  BY OnIs
<1> HIDE DEF o
<1>3. DOMAIN o \subseteq Components /\ \A c \in DOMAIN o : o[c] \in S
  BY <1>1, <1>2
<1>4. o \in [DOMAIN o -> S]
  BY <1>1, <1>3
<1>5. QED
  BY <1>1, <1>3, <1>4, OnIs DEF o

LEMMA OnlyOn ==
  ASSUME NEW S, NEW f \in On(S), NEW D, D \subseteq DOMAIN f
  PROVE  /\ Only(f, D) \in On(S)
         /\ DOMAIN Only(f, D) = D
         /\ \A c \in D : Only(f, D)[c] = f[c]
<1>1. DOMAIN Only(f, D) = D /\ \A c \in D : Only(f, D)[c] = f[c]
  BY DEF Only
<1>2. DOMAIN f \subseteq Components /\ \A c \in DOMAIN f : f[c] \in S
  BY OnIs
<1>3. Only(f, D) \in [D -> S]
  BY <1>2 DEF Only
<1>4. QED
  BY <1>1, <1>2, <1>3, OnIs

-----------------------------------------------------------------------------
(* Sequences.                                                              *)
LEMMA AppendIs ==
  ASSUME NEW S, NEW s \in Seq(S), NEW x \in S
  PROVE  /\ Append(s, x) \in Seq(S)
         /\ Len(s) \in Nat /\ DOMAIN s = 1 .. Len(s)
         /\ Len(Append(s, x)) = Len(s) + 1
         /\ DOMAIN Append(s, x) = 1 .. Len(s) + 1
         /\ \A i \in 1 .. Len(s) : Append(s, x)[i] = s[i]
         /\ Append(s, x)[Len(s) + 1] = x
  OBVIOUS

LEMMA SeqIs ==
  ASSUME NEW S, NEW s \in Seq(S)
  PROVE  Len(s) \in Nat /\ DOMAIN s = 1 .. Len(s) /\ \A i \in DOMAIN s : s[i] \in S
  OBVIOUS

(* The last element takes the place of the i-th.                           *)
SwappedOut(s, i) == Front(ReplaceAt(s, i, s[Len(s)]))

LEMMA SwapOutIs ==
  ASSUME NEW S, NEW s \in Seq(S), NEW i \in 1 .. Len(s)
  PROVE  /\ SwappedOut(s, i) \in Seq(S)
         /\ Len(s) \in Nat /\ DOMAIN s = 1 .. Len(s)
         /\ Len(SwappedOut(s, i)) = Len(s) - 1 /\ DOMAIN SwappedOut(s, i) = 1 .. Len(s) - 1
         /\ \A j \in 1 .. Len(s) - 1 : j # i => SwappedOut(s, i)[j] = s[j]
         /\ i < Len(s) => SwappedOut(s, i)[i] = s[Len(s)]
<1> DEFINE u == ReplaceAt(s, i, s[Len(s)])
           t == SwappedOut(s, i)
<1>1. /\ u \in Seq(S) /\ Len(u) = Len(s) /\ Len(s) \in Nat /\ Len(s) >= 1
      /\ \A j \in 1 .. Len(s) : u[j] = IF j = i THEN s[Len(s)] ELSE s[j]
  BY DEF ReplaceAt
<1>2. t = Front(u)
  BY DEF SwappedOut
<1> HIDE DEF u, t
<1>3. /\ t \in Seq(S) /\ Len(t) = Len(u) - 1
      /\ \A j \in 1 .. Len(u) - 1 : t[j] = u[j]
  BY <1>1, <1>2 DEF Front
<1>4. DOMAIN t = 1 .. Len(s) - 1 /\ DOMAIN s = 1 .. Len(s)
  BY <1>1, <1>3
<1>5. /\ \A j \in 1 .. Len(s) - 1 : j # i => t[j] = s[j]
      /\ i < Len(s) => t[i] = s[Len(s)]
  BY <1>1, <1>3
<1>6. QED
  BY <1>1, <1>3, <1>4, <1>5 DEF t

-----------------------------------------------------------------------------
(* What the operations on archetypes do to the fields of a world.          *)
LEMMA WorldFields ==
  ASSUME NEW w \in Worlds
  PROVE  /\ w.tick \in Nat /\ w.gens \in [Slots -> Nat] /\ w.free \subseteq Slots
         /\ w.loc \in [Slots -> {None} \cup Place] /\ w.pages \in [Slots -> {None} \cup (Nat \ {0})]
         /\ w.archs \in Seq(ArchType) /\ Len(w.archs) \in Nat /\ DOMAIN w.archs = 1 .. Len(w.archs)
         /\ w.dense \in Seq([ent : H, val : V]) /\ Len(w.dense) \in Nat
         /\ DOMAIN w.dense = 1 .. Len(w.dense)
         /\ \A a \in DOMAIN w.archs :
              /\ w.archs[a] \in ArchType
              /\ w.archs[a].ids \subseteq Components /\ w.archs[a].ticks \in On(Nat)
              /\ w.archs[a].rows \in Seq(RowType) /\ Len(w.archs[a].rows) \in Nat
              /\ DOMAIN w.archs[a].rows = 1 .. Len(w.archs[a].rows)
              /\ \A r \in DOMAIN w.archs[a].rows :
                   /\ w.archs[a].rows[r] \in RowType
                   /\ w.archs[a].rows[r].ent \in H /\ w.archs[a].rows[r].vals \in On(V)
         /\ \A d \in DOMAIN w.dense : w.dense[d].ent \in H /\ w.dense[d].val \in V
<1>1. /\ w.tick \in Nat /\ w.gens \in [Slots -> Nat] /\ w.free \subseteq Slots
      /\ w.loc \in [Slots -> {None} \cup Place] /\ w.pages \in [Slots -> {None} \cup (Nat \ {0})]
      /\ w.archs \in Seq(ArchType) /\ w.dense \in Seq([ent : H, val : V])
  BY DEF Worlds
<1>2. /\ Len(w.archs) \in Nat /\ DOMAIN w.archs = 1 .. Len(w.archs)
      /\ Len(w.dense) \in Nat /\ DOMAIN w.dense = 1 .. Len(w.dense)
      /\ \A a \in DOMAIN w.archs : w.archs[a] \in ArchType
      /\ \A d \in DOMAIN w.dense : w.dense[d] \in [ent : H, val : V]
  <2>1. /\ Len(w.archs) \in Nat /\ DOMAIN w.archs = 1 .. Len(w.archs)
        /\ \A a \in DOMAIN w.archs : w.archs[a] \in ArchType
    BY <1>1, SeqIs
  <2>2. /\ Len(w.dense) \in Nat /\ DOMAIN w.dense = 1 .. Len(w.dense)
        /\ \A d \in DOMAIN w.dense : w.dense[d] \in [ent : H, val : V]
    BY <1>1, SeqIs
  <2>3. QED
    BY <2>1, <2>2
<1>3. ASSUME NEW x \in ArchType
      PROVE  /\ x.ids \subseteq Components /\ x.ticks \in On(Nat)
             /\ x.rows \in Seq(RowType) /\ Len(x.rows) \in Nat
             /\ DOMAIN x.rows = 1 .. Len(x.rows)
             /\ \A r \in DOMAIN x.rows :
                  x.rows[r] \in RowType /\ x.rows[r].ent \in H /\ x.rows[r].vals \in On(V)
  <2>1. x.ids \subseteq Components /\ x.ticks \in On(Nat) /\ x.rows \in Seq(RowType)
    BY DEF ArchType
  <2>2. Len(x.rows) \in Nat /\ DOMAIN x.rows = 1 .. Len(x.rows)
        /\ \A r \in DOMAIN x.rows : x.rows[r] \in RowType
    BY <2>1
  <2>3. \A y \in RowType : y.ent \in H /\ y.vals \in On(V)
    BY DEF RowType
  <2>4. QED
    BY <2>1, <2>2, <2>3
<1>4. QED
  BY <1>1, <1>2, <1>3

(* A world with other archetypes, or other locations.                      *)
LEMMA ArchsReplaced ==
  ASSUME NEW w \in Worlds, NEW x \in Seq(ArchType)
  PROVE  [w EXCEPT !.archs = x] \in Worlds
  BY DEF Worlds

LEMMA LocReplaced ==
  ASSUME NEW w \in Worlds, NEW x \in [Slots -> {None} \cup Place]
  PROVE  [w EXCEPT !.loc = x] \in Worlds
  BY DEF Worlds

LEMMA SparseReplaced ==
  ASSUME NEW w \in Worlds, NEW x \in [Slots -> {None} \cup (Nat \ {0})], NEW y \in Seq([ent : H, val : V])
  PROVE  [w EXCEPT !.pages = x, !.dense = y] \in Worlds
  BY DEF Worlds

(* Two worlds that differ in archetypes and locations alone.               *)
SameRest(w, u) ==
  u.tick = w.tick /\ u.gens = w.gens /\ u.free = w.free /\ u.pages = w.pages /\ u.dense = w.dense

SameArch(x, y) == y.ids = x.ids /\ y.rows = x.rows /\ y.ticks = x.ticks

(* The archetypes with the same columns, and all rows but those of a.       *)
SameArchs(w, u, a) ==
  /\ DOMAIN u.archs = DOMAIN w.archs
  /\ \A b \in DOMAIN w.archs :
       /\ u.archs[b].ids = w.archs[b].ids /\ u.archs[b].ticks = w.archs[b].ticks
       /\ b # a => u.archs[b].rows = w.archs[b].rows

PushedTo(w, u, a, e, vals) ==
  /\ u \in Worlds /\ SameRest(w, u) /\ SameArchs(w, u, a)
  /\ u.loc = [w.loc EXCEPT ![e.idx] = [arch |-> a, row |-> Len(w.archs[a].rows) + 1]]
  /\ u.archs[a].rows = Append(w.archs[a].rows, [ent |-> e, vals |-> vals])

LEMMA PushedIs ==
  ASSUME NEW w \in Worlds, NEW a \in DOMAIN w.archs, NEW e \in H, NEW vals \in On(V)
  PROVE  PushedTo(w, Pushed(w, a, e, vals), a, e, vals)
<1> DEFINE row == [ent |-> e, vals |-> vals]
           arch == [w.archs[a] EXCEPT !.rows = Append(@, row)]
           archs == [w.archs EXCEPT ![a] = arch]
           loc == [w.loc EXCEPT ![e.idx] = [arch |-> a, row |-> Len(w.archs[a].rows) + 1]]
           u == [w EXCEPT !.archs = archs, !.loc = loc]
<1>1. Pushed(w, a, e, vals) = u
  BY DEF Pushed
<1>2. row \in RowType
  BY DEF RowType
<1>3. a \in 1 .. Len(w.archs) /\ w.archs[a] \in ArchType /\ w.archs[a].rows \in Seq(RowType)
      /\ Len(w.archs[a].rows) \in Nat /\ Len(w.archs) \in Nat
  BY WorldFields
<1>4. arch \in ArchType /\ SameArch([w.archs[a] EXCEPT !.rows = Append(w.archs[a].rows, row)], arch)
      /\ arch.ids = w.archs[a].ids /\ arch.ticks = w.archs[a].ticks
      /\ arch.rows = Append(w.archs[a].rows, row)
  <2>1. Append(w.archs[a].rows, row) \in Seq(RowType)
    BY <1>2, <1>3
  <2> HIDE DEF row
  <2>2. QED
    BY <2>1, <1>3 DEF ArchType, SameArch
<1> HIDE DEF arch, row
<1>5. /\ archs \in Seq(ArchType) /\ DOMAIN archs = DOMAIN w.archs /\ Len(archs) = Len(w.archs)
      /\ archs[a] = arch /\ \A b \in DOMAIN w.archs : b # a => archs[b] = w.archs[b]
  BY <1>3, <1>4, WorldFields
<1>6. loc \in [Slots -> {None} \cup Place]
  <2>1. e.idx \in Slots
    BY DEF H
  <2>2. [arch |-> a, row |-> Len(w.archs[a].rows) + 1] \in Place
    BY <1>3 DEF Place
  <2>3. w.loc \in [Slots -> {None} \cup Place]
    BY WorldFields
  <2>4. QED
    BY <2>1, <2>2, <2>3
<1> HIDE DEF archs, loc
<1>7. u \in Worlds /\ SameRest(w, u) /\ u.loc = loc /\ u.archs = archs
  <2>1. u.loc = loc /\ u.archs = archs /\ SameRest(w, u)
    BY DEF Worlds, SameRest
  <2>2. u \in Worlds
    BY <1>5, <1>6 DEF Worlds
  <2>3. QED
    BY <2>1, <2>2
<1> HIDE DEF u
<1>8. QED
  BY <1>1, <1>4, <1>5, <1>7 DEF loc, row, PushedTo, SameArchs

CutFrom(w, u, a, r) ==
  LET last == Len(w.archs[a].rows)
      moved == w.archs[a].rows[last].ent
  IN /\ u \in Worlds /\ SameRest(w, u) /\ SameArchs(w, u, a)
     /\ r < last => u.loc = [w.loc EXCEPT ![moved.idx] = [arch |-> a, row |-> r]]
     /\ ~(r < last) => u.loc = w.loc
     /\ DOMAIN u.archs[a].rows = 1 .. last - 1
     /\ \A j \in 1 .. last - 1 : j # r => u.archs[a].rows[j] = w.archs[a].rows[j]
     /\ r < last => u.archs[a].rows[r] = w.archs[a].rows[last]

LEMMA SwapRemovedIs ==
  ASSUME NEW w \in Worlds, NEW a \in DOMAIN w.archs, NEW r \in DOMAIN w.archs[a].rows
  PROVE  CutFrom(w, SwapRemoved(w, a, r), a, r)
<1> DEFINE last == Len(w.archs[a].rows)
           moved == w.archs[a].rows[last].ent
           rows == Front(ReplaceAt(w.archs[a].rows, r, w.archs[a].rows[last]))
           arch == [w.archs[a] EXCEPT !.rows = rows]
           archs == [w.archs EXCEPT ![a] = arch]
           cut == [w EXCEPT !.archs = archs]
           loc == [w.loc EXCEPT ![moved.idx] = [arch |-> a, row |-> r]]
           u == SwapRemoved(w, a, r)
<1>1. u = IF r < last THEN [cut EXCEPT !.loc = loc] ELSE cut
  <2>1. u = IF r < last THEN [cut EXCEPT !.loc[moved.idx] = [arch |-> a, row |-> r]] ELSE cut
    BY DEF SwapRemoved
  <2>2. [cut EXCEPT !.loc[moved.idx] = [arch |-> a, row |-> r]]
          = [cut EXCEPT !.loc = [cut.loc EXCEPT ![moved.idx] = [arch |-> a, row |-> r]]]
    OBVIOUS
  <2>3. cut.loc = w.loc
    BY DEF Worlds
  <2>4. QED
    BY <2>1, <2>2, <2>3
<1>2. /\ a \in 1 .. Len(w.archs) /\ w.archs[a] \in ArchType /\ w.archs[a].rows \in Seq(RowType)
      /\ last \in Nat /\ r \in 1 .. last /\ last \in DOMAIN w.archs[a].rows /\ moved \in H
  <2>1. /\ a \in 1 .. Len(w.archs) /\ w.archs[a] \in ArchType /\ w.archs[a].rows \in Seq(RowType)
        /\ last \in Nat /\ DOMAIN w.archs[a].rows = 1 .. last
    BY WorldFields
  <2>2. last \in DOMAIN w.archs[a].rows
    BY <2>1
  <2>3. moved \in H
    BY <2>2, WorldFields
  <2>4. QED
    BY <2>1, <2>2, <2>3
<1>3. /\ rows \in Seq(RowType) /\ DOMAIN rows = 1 .. last - 1
      /\ \A j \in 1 .. last - 1 : j # r => rows[j] = w.archs[a].rows[j]
      /\ r < last => rows[r] = w.archs[a].rows[last]
  <2>1. rows = SwappedOut(w.archs[a].rows, r)
    BY DEF SwappedOut
  <2> HIDE DEF rows
  <2>2. QED
    BY <1>2, <2>1, SwapOutIs
<1> HIDE DEF rows
<1>4. /\ arch \in ArchType /\ arch.ids = w.archs[a].ids /\ arch.ticks = w.archs[a].ticks
      /\ arch.rows = rows
  BY <1>2, <1>3 DEF ArchType
<1> HIDE DEF arch
<1>5. /\ archs \in Seq(ArchType) /\ DOMAIN archs = DOMAIN w.archs /\ Len(archs) = Len(w.archs)
      /\ archs[a] = arch /\ \A b \in DOMAIN w.archs : b # a => archs[b] = w.archs[b]
  BY <1>2, <1>4, WorldFields
<1>6. loc \in [Slots -> {None} \cup Place]
  <2>1. moved.idx \in Slots
    BY <1>2 DEF H
  <2>2. [arch |-> a, row |-> r] \in Place
    BY <1>2 DEF Place
  <2>3. w.loc \in [Slots -> {None} \cup Place]
    BY WorldFields
  <2>4. QED
    BY <2>1, <2>2, <2>3
<1> HIDE DEF archs, loc
<1>7. /\ u \in Worlds /\ SameRest(w, u) /\ u.archs = archs
      /\ u.loc = IF r < last THEN loc ELSE w.loc
  <2>1. cut \in Worlds /\ cut.loc = w.loc /\ cut.archs = archs /\ SameRest(w, cut)
    <3>1. cut.loc = w.loc /\ cut.archs = archs /\ SameRest(w, cut)
      BY DEF Worlds, SameRest
    <3>2. QED
      BY <3>1, <1>5, ArchsReplaced
  <2> HIDE DEF cut, u
  <2>2. CASE r < last
    <3>1. u = [cut EXCEPT !.loc = loc]
      BY <1>1, <2>2
    <3>2. u.loc = loc /\ u.archs = cut.archs /\ SameRest(cut, u)
      BY <2>1, <3>1 DEF Worlds, SameRest
    <3>3. u \in Worlds
      BY <2>1, <3>1, <1>6, LocReplaced
    <3>4. QED
      BY <2>1, <2>2, <3>2, <3>3 DEF SameRest
  <2>3. CASE ~(r < last)
    BY <1>1, <2>1, <2>3
  <2>4. QED
    BY <2>2, <2>3
<1> HIDE DEF u
<1>8. QED
  BY <1>2, <1>3, <1>4, <1>5, <1>7 DEF loc, u, CutFrom, SameArchs

(* The columns that are marked; the rest stays.                            *)
MarkedFrom(w, u, A, cols, tick) ==
  /\ u \in Worlds /\ SameRest(w, u) /\ u.loc = w.loc
  /\ DOMAIN u.archs = DOMAIN w.archs
  /\ \A b \in DOMAIN w.archs :
       /\ u.archs[b].ids = w.archs[b].ids /\ u.archs[b].rows = w.archs[b].rows
       /\ DOMAIN u.archs[b].ticks = DOMAIN w.archs[b].ticks
       /\ \A c \in DOMAIN w.archs[b].ticks :
            u.archs[b].ticks[c] = IF b \in A /\ c \in cols THEN tick ELSE w.archs[b].ticks[c]

LEMMA TicksMarked ==
  ASSUME NEW f \in On(Nat), NEW cols, NEW tick \in Nat,
         NEW g, g = [c \in DOMAIN f |-> IF c \in cols THEN tick ELSE f[c]]
  PROVE  /\ g \in On(Nat) /\ DOMAIN g = DOMAIN f
         /\ \A c \in DOMAIN f : g[c] = IF c \in cols THEN tick ELSE f[c]
<1>1. DOMAIN f \subseteq Components /\ f \in [DOMAIN f -> Nat]
  BY OnIs
<1>2. DOMAIN g = DOMAIN f /\ g \in [DOMAIN g -> Nat]
  BY <1>1
<1>3. \A c \in DOMAIN f : g[c] = IF c \in cols THEN tick ELSE f[c]
  OBVIOUS
<1>4. g \in On(Nat)
  BY <1>1, <1>2, OnIs
<1>5. QED
  BY <1>2, <1>3, <1>4

LEMMA MarkedIs ==
  ASSUME NEW w \in Worlds, NEW a \in DOMAIN w.archs, NEW cols, NEW tick \in Nat
  PROVE  MarkedFrom(w, Marked(w, a, cols, tick), {a}, cols, tick)
<1> DEFINE f == w.archs[a].ticks
           g == [c \in DOMAIN f |-> IF c \in cols THEN tick ELSE f[c]]
           arch == [w.archs[a] EXCEPT !.ticks = g]
           archs == [w.archs EXCEPT ![a] = arch]
           u == [w EXCEPT !.archs = archs]
<1>1. Marked(w, a, cols, tick) = u
  BY DEF Marked, MarkedArch
<1>2. a \in 1 .. Len(w.archs) /\ w.archs[a] \in ArchType /\ f \in On(Nat) /\ Len(w.archs) \in Nat
      /\ w.archs \in Seq(ArchType) /\ DOMAIN w.archs = 1 .. Len(w.archs)
  BY WorldFields
<1>3. /\ g \in On(Nat) /\ DOMAIN g = DOMAIN f
      /\ \A c \in DOMAIN f : g[c] = IF c \in cols THEN tick ELSE f[c]
  BY <1>2, TicksMarked
<1> HIDE DEF g
<1>4. /\ arch \in ArchType /\ arch.ids = w.archs[a].ids /\ arch.ticks = g
      /\ arch.rows = w.archs[a].rows
  BY <1>2, <1>3 DEF ArchType
<1> HIDE DEF arch
<1>5. /\ archs \in Seq(ArchType) /\ DOMAIN archs = DOMAIN w.archs /\ Len(archs) = Len(w.archs)
      /\ archs[a] = arch /\ \A b \in DOMAIN w.archs : b # a => archs[b] = w.archs[b]
  BY <1>2, <1>4
<1> HIDE DEF archs
<1>6. u \in Worlds /\ SameRest(w, u) /\ u.archs = archs /\ u.loc = w.loc
  <2>1. u.archs = archs /\ SameRest(w, u) /\ u.loc = w.loc
    BY DEF Worlds, SameRest
  <2>2. QED
    BY <2>1, <1>5, ArchsReplaced
<1> HIDE DEF u
<1>7. QED
  BY <1>1, <1>3, <1>4, <1>5, <1>6 DEF MarkedFrom, f

LEMMA MarkedAllIs ==
  ASSUME NEW w \in Worlds, NEW A, NEW cols, NEW tick \in Nat
  PROVE  MarkedFrom(w, MarkedAll(w, A, cols, tick), A, cols, tick)
<1> DEFINE g(a) == [c \in DOMAIN w.archs[a].ticks |->
                      IF c \in cols THEN tick ELSE w.archs[a].ticks[c]]
           arch(a) == IF a \in A THEN MarkedArch(w.archs[a], cols, tick) ELSE w.archs[a]
           archs == [a \in DOMAIN w.archs |-> arch(a)]
           u == [w EXCEPT !.archs = archs]
<1>1. MarkedAll(w, A, cols, tick) = u
  BY DEF MarkedAll
<1>2. /\ Len(w.archs) \in Nat /\ w.archs \in Seq(ArchType) /\ DOMAIN w.archs = 1 .. Len(w.archs)
      /\ \A a \in DOMAIN w.archs : w.archs[a] \in ArchType /\ w.archs[a].ticks \in On(Nat)
  BY WorldFields
<1>3. ASSUME NEW a \in DOMAIN w.archs
      PROVE  /\ arch(a) \in ArchType /\ arch(a).ids = w.archs[a].ids /\ arch(a).rows = w.archs[a].rows
             /\ DOMAIN arch(a).ticks = DOMAIN w.archs[a].ticks
             /\ \A c \in DOMAIN w.archs[a].ticks :
                  arch(a).ticks[c] = IF a \in A /\ c \in cols THEN tick ELSE w.archs[a].ticks[c]
  <2>1. /\ g(a) \in On(Nat) /\ DOMAIN g(a) = DOMAIN w.archs[a].ticks
        /\ \A c \in DOMAIN w.archs[a].ticks :
             g(a)[c] = IF c \in cols THEN tick ELSE w.archs[a].ticks[c]
    BY <1>2, TicksMarked
  <2> HIDE DEF g
  <2>2. CASE a \in A
    <3>1. arch(a) = [w.archs[a] EXCEPT !.ticks = g(a)]
      BY <2>2 DEF MarkedArch, g
    <3> HIDE DEF arch
    <3>2. /\ arch(a) \in ArchType /\ arch(a).ids = w.archs[a].ids
          /\ arch(a).rows = w.archs[a].rows /\ arch(a).ticks = g(a)
      BY <1>2, <2>1, <3>1 DEF ArchType
    <3>3. QED
      BY <2>1, <2>2, <3>2
  <2>3. CASE a \notin A
    BY <1>2, <2>3
  <2>4. QED
    BY <2>2, <2>3
<1> HIDE DEF arch
<1>4. /\ archs \in Seq(ArchType) /\ DOMAIN archs = DOMAIN w.archs /\ Len(archs) = Len(w.archs)
      /\ \A b \in DOMAIN w.archs : archs[b] = arch(b)
  BY <1>2, <1>3
<1> HIDE DEF archs
<1>5. u \in Worlds /\ SameRest(w, u) /\ u.archs = archs /\ u.loc = w.loc
  <2>1. u.archs = archs /\ SameRest(w, u) /\ u.loc = w.loc
    BY DEF Worlds, SameRest
  <2>2. QED
    BY <2>1, <1>4, ArchsReplaced
<1> HIDE DEF u
<1>6. QED
  BY <1>1, <1>3, <1>4, <1>5 DEF MarkedFrom

(* The same rows of the same entities, with other values.                  *)
SameRows(w, u) ==
  /\ u \in Worlds /\ SameRest(w, u) /\ u.loc = w.loc
  /\ DOMAIN u.archs = DOMAIN w.archs
  /\ \A b \in DOMAIN w.archs :
       /\ u.archs[b].ids = w.archs[b].ids /\ u.archs[b].ticks = w.archs[b].ticks
       /\ DOMAIN u.archs[b].rows = DOMAIN w.archs[b].rows
       /\ \A r \in DOMAIN w.archs[b].rows : u.archs[b].rows[r].ent = w.archs[b].rows[r].ent

RowSet(w, u, a, r, vals) ==
  /\ \A b \in DOMAIN w.archs : \A q \in DOMAIN w.archs[b].rows :
       (b # a \/ q # r) => u.archs[b].rows[q].vals = w.archs[b].rows[q].vals
  /\ u.archs[a].rows[r].vals = Overlay(vals, w.archs[a].rows[r].vals)

RowsSet(w, u, E, c, v) ==
  \A b \in DOMAIN w.archs : \A q \in DOMAIN w.archs[b].rows :
    /\ w.archs[b].rows[q].ent \in E =>
         u.archs[b].rows[q].vals = Overlay(Just(c, v), w.archs[b].rows[q].vals)
    /\ w.archs[b].rows[q].ent \notin E =>
         u.archs[b].rows[q].vals = w.archs[b].rows[q].vals

LEMMA OverwrittenIs ==
  ASSUME NEW w \in Worlds, NEW a \in DOMAIN w.archs, NEW r \in DOMAIN w.archs[a].rows,
         NEW vals \in On(V)
  PROVE  /\ SameRows(w, Overwritten(w, a, r, vals))
         /\ RowSet(w, Overwritten(w, a, r, vals), a, r, vals)
<1> DEFINE old == w.archs[a].rows
           row == [old[r] EXCEPT !.vals = Overlay(vals, @)]
           rows == [old EXCEPT ![r] = row]
           arch == [w.archs[a] EXCEPT !.rows = rows]
           archs == [w.archs EXCEPT ![a] = arch]
           u == [w EXCEPT !.archs = archs]
<1>1. Overwritten(w, a, r, vals) = u
  BY DEF Overwritten
<1>2. /\ a \in 1 .. Len(w.archs) /\ w.archs[a] \in ArchType /\ old \in Seq(RowType)
      /\ Len(w.archs) \in Nat /\ w.archs \in Seq(ArchType) /\ DOMAIN w.archs = 1 .. Len(w.archs)
      /\ Len(old) \in Nat /\ DOMAIN old = 1 .. Len(old) /\ old[r] \in RowType
      /\ old[r].vals \in On(V)
  BY WorldFields
<1>3. /\ row \in RowType /\ row.ent = old[r].ent /\ row.vals = Overlay(vals, old[r].vals)
  <2>1. Overlay(vals, old[r].vals) \in On(V)
    BY <1>2, OverlayOn
  <2>2. QED
    BY <1>2, <2>1 DEF RowType
<1> HIDE DEF row
<1>4. /\ rows \in Seq(RowType) /\ DOMAIN rows = DOMAIN old /\ rows[r] = row
      /\ \A q \in DOMAIN old : q # r => rows[q] = old[q]
  <2> HIDE DEF old
  <2>1. r \in 1 .. Len(old)
    BY <1>2 DEF old
  <2>2. QED
    BY <1>2, <1>3, <2>1
<1> HIDE DEF rows
<1>5. /\ arch \in ArchType /\ arch.ids = w.archs[a].ids /\ arch.ticks = w.archs[a].ticks
      /\ arch.rows = rows
  BY <1>2, <1>4 DEF ArchType
<1> HIDE DEF arch
<1>6. /\ archs \in Seq(ArchType) /\ DOMAIN archs = DOMAIN w.archs /\ Len(archs) = Len(w.archs)
      /\ archs[a] = arch /\ \A b \in DOMAIN w.archs : b # a => archs[b] = w.archs[b]
  BY <1>2, <1>5
<1> HIDE DEF archs
<1>7. u \in Worlds /\ SameRest(w, u) /\ u.archs = archs /\ u.loc = w.loc
  <2>1. u.archs = archs /\ SameRest(w, u) /\ u.loc = w.loc
    BY DEF Worlds, SameRest
  <2>2. QED
    BY <2>1, <1>6, ArchsReplaced
<1> HIDE DEF u
<1>8. SameRows(w, u)
  BY <1>3, <1>4, <1>5, <1>6, <1>7 DEF SameRows
<1>9. QED
  BY <1>1, <1>3, <1>4, <1>5, <1>6, <1>7, <1>8 DEF RowSet

LEMMA RewrittenIs ==
  ASSUME NEW w \in Worlds, NEW E, NEW c \in Components, NEW v \in V
  PROVE  SameRows(w, Rewritten(w, E, c, v)) /\ RowsSet(w, Rewritten(w, E, c, v), E, c, v)
<1> DEFINE row(x) == RewrittenRow(x, E, c, v)
           rows(a) == [r \in DOMAIN w.archs[a].rows |-> row(w.archs[a].rows[r])]
           arch(a) == RewrittenArch(w.archs[a], E, c, v)
           archs == [a \in DOMAIN w.archs |-> arch(a)]
           u == [w EXCEPT !.archs = archs]
<1>1. Rewritten(w, E, c, v) = u
  BY DEF Rewritten
<1>2. /\ Len(w.archs) \in Nat /\ w.archs \in Seq(ArchType) /\ DOMAIN w.archs = 1 .. Len(w.archs)
      /\ \A a \in DOMAIN w.archs :
           /\ w.archs[a] \in ArchType /\ w.archs[a].rows \in Seq(RowType)
           /\ Len(w.archs[a].rows) \in Nat /\ DOMAIN w.archs[a].rows = 1 .. Len(w.archs[a].rows)
           /\ \A r \in DOMAIN w.archs[a].rows : w.archs[a].rows[r] \in RowType
  BY WorldFields
<1>3. ASSUME NEW x \in RowType
      PROVE  /\ row(x) \in RowType /\ row(x).ent = x.ent
             /\ x.ent \in E => row(x).vals = Overlay(Just(c, v), x.vals)
             /\ x.ent \notin E => row(x).vals = x.vals
  <2>1. (Just(c, v)) \in On(V)
    <3>1. (Just(c, v)) \in [{c} -> V]
      BY DEF Just
    <3>2. QED
      BY <3>1 DEF On
  <2>2. x.vals \in On(V)
    BY DEF RowType
  <2>3. Overlay(Just(c, v), x.vals) \in On(V)
    BY <2>1, <2>2, OverlayOn
  <2>4. QED
    BY <2>3 DEF RowType, RewrittenRow
<1> HIDE DEF row
<1>4. ASSUME NEW a \in DOMAIN w.archs
      PROVE  /\ arch(a) \in ArchType /\ arch(a).ids = w.archs[a].ids
             /\ arch(a).ticks = w.archs[a].ticks /\ DOMAIN arch(a).rows = DOMAIN w.archs[a].rows
             /\ \A q \in DOMAIN w.archs[a].rows : arch(a).rows[q] = row(w.archs[a].rows[q])
  <2>1. /\ rows(a) \in Seq(RowType) /\ DOMAIN rows(a) = DOMAIN w.archs[a].rows
        /\ \A q \in DOMAIN w.archs[a].rows : rows(a)[q] = row(w.archs[a].rows[q])
    <3>1. /\ Len(w.archs[a].rows) \in Nat /\ DOMAIN w.archs[a].rows = 1 .. Len(w.archs[a].rows)
          /\ \A q \in DOMAIN w.archs[a].rows : row(w.archs[a].rows[q]) \in RowType
      BY <1>2, <1>3
    <3>2. QED
      BY <3>1
  <2> HIDE DEF rows
  <2>2. arch(a) \in ArchType /\ arch(a).ids = w.archs[a].ids
        /\ arch(a).ticks = w.archs[a].ticks /\ arch(a).rows = rows(a)
    <3>1. arch(a) = [w.archs[a] EXCEPT !.rows = rows(a)]
      BY DEF RewrittenArch, rows, row
    <3> HIDE DEF arch
    <3>2. QED
      BY <1>2, <2>1, <3>1 DEF ArchType
  <2> HIDE DEF arch
  <2>3. QED
    BY <2>1, <2>2
<1> HIDE DEF arch
<1>5. /\ archs \in Seq(ArchType) /\ DOMAIN archs = DOMAIN w.archs /\ Len(archs) = Len(w.archs)
      /\ \A b \in DOMAIN w.archs : archs[b] = arch(b)
  BY <1>2, <1>4
<1> HIDE DEF archs
<1>6. u \in Worlds /\ SameRest(w, u) /\ u.archs = archs /\ u.loc = w.loc
  <2>1. u.archs = archs /\ SameRest(w, u) /\ u.loc = w.loc
    BY DEF Worlds, SameRest
  <2>2. QED
    BY <2>1, <1>5, ArchsReplaced
<1> HIDE DEF u
<1>7. \A b \in DOMAIN w.archs : \A q \in DOMAIN w.archs[b].rows :
        /\ u.archs[b].rows[q].ent = w.archs[b].rows[q].ent
        /\ w.archs[b].rows[q].ent \in E =>
             u.archs[b].rows[q].vals = Overlay(Just(c, v), w.archs[b].rows[q].vals)
        /\ w.archs[b].rows[q].ent \notin E =>
             u.archs[b].rows[q].vals = w.archs[b].rows[q].vals
  BY <1>2, <1>3, <1>4, <1>5, <1>6
<1>8. SameRows(w, u)
  BY <1>4, <1>5, <1>6, <1>7 DEF SameRows
<1>9. QED
  BY <1>1, <1>7, <1>8 DEF RowsSet

GrownFor(w, u, ids) ==
  /\ u \in Worlds /\ SameRest(w, u) /\ u.loc = w.loc
  /\ DOMAIN w.archs \subseteq DOMAIN u.archs
  /\ \A b \in DOMAIN w.archs : u.archs[b] = w.archs[b]
  /\ ArchOf(u, ids) \in DOMAIN u.archs /\ u.archs[ArchOf(u, ids)].ids = ids
  /\ \A b \in DOMAIN u.archs \ DOMAIN w.archs :
       /\ b = Len(w.archs) + 1
       /\ ~Known(w, ids) /\ u.archs[b].ids = ids /\ u.archs[b].rows = << >>
       /\ DOMAIN u.archs[b].ticks = ids /\ \A c \in ids : u.archs[b].ticks[c] = 0

LEMMA GetOrCreateIs ==
  ASSUME NEW w \in Worlds, NEW ids \in SUBSET Components
  PROVE  GrownFor(w, GetOrCreate(w, ids), ids)
<1> DEFINE u == GetOrCreate(w, ids)
<1>1. ASSUME NEW x, \E b \in DOMAIN x.archs : x.archs[b].ids = ids
      PROVE  ArchOf(x, ids) \in DOMAIN x.archs /\ x.archs[ArchOf(x, ids)].ids = ids
  BY <1>1 DEF ArchOf
<1>2. CASE Known(w, ids)
  <2>1. u = w
    BY <1>2 DEF GetOrCreate
  <2>2. ArchOf(w, ids) \in DOMAIN w.archs /\ w.archs[ArchOf(w, ids)].ids = ids
    BY <1>1, <1>2 DEF Known
  <2> HIDE DEF u
  <2>3. QED
    BY <2>1, <2>2 DEF SameRest, u, GrownFor
<1>3. CASE ~Known(w, ids)
  <2> DEFINE ticks == [c \in ids |-> 0]
             new == [ids |-> ids, rows |-> << >>, ticks |-> ticks]
             archs == Append(w.archs, new)
  <2>1. u = [w EXCEPT !.archs = archs]
    BY <1>3 DEF GetOrCreate
  <2>2. ticks \in On(Nat) /\ DOMAIN ticks = ids /\ \A c \in ids : ticks[c] = 0
    BY OnIs
  <2> HIDE DEF ticks
  <2>3. new \in ArchType
    BY <2>2 DEF ArchType
  <2>4. new.ids = ids /\ new.rows = << >> /\ new.ticks = ticks
    OBVIOUS
  <2> HIDE DEF new
  <2>5. /\ archs \in Seq(ArchType) /\ DOMAIN w.archs = 1 .. Len(w.archs) /\ Len(w.archs) \in Nat
        /\ DOMAIN archs = 1 .. Len(w.archs) + 1
        /\ \A i \in 1 .. Len(w.archs) : archs[i] = w.archs[i]
        /\ archs[Len(w.archs) + 1] = new
    BY <2>3, WorldFields, AppendIs
  <2> HIDE DEF archs
  <2>6. u.archs = archs /\ u.loc = w.loc /\ SameRest(w, u)
    BY <2>1 DEF Worlds, SameRest
  <2>7. u \in Worlds
    BY <2>1, <2>5, ArchsReplaced
  <2> HIDE DEF u
  <2>8. ArchOf(u, ids) \in DOMAIN u.archs /\ u.archs[ArchOf(u, ids)].ids = ids
    <3>1. Len(w.archs) + 1 \in DOMAIN u.archs /\ u.archs[Len(w.archs) + 1].ids = ids
      BY <2>4, <2>5, <2>6
    <3>2. QED
      BY <3>1, <1>1
  <2>9. \A b \in DOMAIN u.archs \ DOMAIN w.archs : b = Len(w.archs) + 1 /\ u.archs[b] = new
    BY <2>5, <2>6
  <2>10. DOMAIN w.archs \subseteq DOMAIN u.archs /\ \A b \in DOMAIN w.archs : u.archs[b] = w.archs[b]
    BY <2>5, <2>6
  <2>11. QED
    BY <1>3, <2>2, <2>4, <2>6, <2>7, <2>8, <2>9, <2>10 DEF u, GrownFor
<1>4. QED
  BY <1>2, <1>3

-----------------------------------------------------------------------------
(* A world whose parts fit together, except that the entities G have a     *)
(* location and no row there: so it is between the two halves of a despawn *)
(* or of a move.                                                           *)
Columns(w) ==
  /\ \A a \in DOMAIN w.archs :
       /\ DOMAIN w.archs[a].ticks = w.archs[a].ids
       /\ \A c \in w.archs[a].ids : w.archs[a].ticks[c] <= w.tick
       /\ \A r \in DOMAIN w.archs[a].rows : DOMAIN w.archs[a].rows[r].vals = w.archs[a].ids
  /\ \A a, b \in DOMAIN w.archs : w.archs[a].ids = w.archs[b].ids => a = b

FoundAt(w, e, a, r) == w.gens[e.idx] = e.gen /\ w.loc[e.idx] = [arch |-> a, row |-> r]

RowsFound(w, G) ==
  \A a \in DOMAIN w.archs : \A r \in DOMAIN w.archs[a].rows :
    w.archs[a].rows[r].ent \notin G /\ FoundAt(w, w.archs[a].rows[r].ent, a, r)

(* Handle h is where the table of locations says.                          *)
StoredAt(w, h, a, r) ==
  a \in DOMAIN w.archs /\ r \in DOMAIN w.archs[a].rows /\ w.archs[a].rows[r].ent = h

Stored(w, h) == StoredAt(w, h, w.loc[h.idx].arch, w.loc[h.idx].row)

LocationsHold(w, G) == \A e \in H : Located(w, e) /\ e \notin G => Stored(w, e)

FreeUnplaced(w) == \A s \in w.free : w.loc[s] = None

SparseFits(w) ==
  \A d \in DOMAIN w.dense :
    Located(w, w.dense[d].ent) /\ w.pages[w.dense[d].ent.idx] = d

Fit(w, G) ==
  /\ w \in Worlds
  /\ Columns(w)
  /\ RowsFound(w, G)
  /\ LocationsHold(w, G)
  /\ FreeUnplaced(w)
  /\ SparseFits(w)

(* What the storage answers for every entity that is there.                *)
Live(w, G) == {e \in H : Located(w, e)} \ G
Over(w, e, vals) ==
  IF DenseIndex(w, e) = None THEN vals
  ELSE Overlay(Just(Sparse, w.dense[DenseIndex(w, e)].val), vals)
Full(w, e) == Over(w, e, Row(w, e).vals)
Meaning(w, G) == [e \in Live(w, G) |-> Full(w, e)]

LEMMA HandleIs ==
  ASSUME NEW e \in H
  PROVE  e.idx \in Slots /\ e.gen \in Nat /\ \A f \in H : f.idx = e.idx /\ f.gen = e.gen => f = e
  BY DEF H

(* The slot of a handle that is alive is the handle's alone.               *)
LEMMA OneAlive ==
  ASSUME NEW w, NEW e \in H, NEW f \in H, IsAlive(w, e), IsAlive(w, f), e.idx = f.idx
  PROVE  e = f
  BY HandleIs DEF IsAlive

LEMMA LiveIs ==
  ASSUME NEW w, NEW G, Fit(w, G), NEW e \in Live(w, G)
  PROVE  /\ e \in H /\ Located(w, e) /\ e \notin G /\ Stored(w, e)
         /\ w.loc[e.idx] \in Place
         /\ w.loc[e.idx].arch \in DOMAIN w.archs
         /\ w.loc[e.idx].row \in DOMAIN w.archs[w.loc[e.idx].arch].rows
         /\ Row(w, e) = w.archs[w.loc[e.idx].arch].rows[w.loc[e.idx].row]
         /\ ArchAt(w, e) = w.archs[w.loc[e.idx].arch]
         /\ Row(w, e).ent = e /\ Row(w, e).vals \in On(V)
         /\ DOMAIN Row(w, e).vals = ArchAt(w, e).ids
<1>1. e \in H /\ Located(w, e) /\ e \notin G /\ Stored(w, e) /\ w \in Worlds
  BY DEF Live, Fit, LocationsHold
<1>2. w.loc[e.idx] \in Place
  <2>1. e.idx \in Slots /\ w.loc[e.idx] # None
    BY <1>1, HandleIs DEF Located, IsPlaced
  <2>2. QED
    BY <1>1, <2>1, WorldFields
<1> DEFINE a == w.loc[e.idx].arch
           r == w.loc[e.idx].row
<1>3. a \in DOMAIN w.archs /\ r \in DOMAIN w.archs[a].rows /\ w.archs[a].rows[r].ent = e
  BY <1>1 DEF Stored, StoredAt
<1>4. Row(w, e) = w.archs[a].rows[r] /\ ArchAt(w, e) = w.archs[a]
  BY DEF Row, ArchAt
<1>def. a = w.loc[e.idx].arch /\ r = w.loc[e.idx].row
  OBVIOUS
<1> HIDE DEF a, r
<1>5. Row(w, e).vals \in On(V)
  BY <1>1, <1>3, <1>4, WorldFields
<1>6. DOMAIN Row(w, e).vals = ArchAt(w, e).ids
  BY <1>3, <1>4 DEF Fit, Columns
<1>7. Row(w, e).ent = e
  BY <1>3, <1>4
<1>8. QED
  BY <1>1, <1>2, <1>3, <1>4, <1>5, <1>6, <1>7, <1>def, Zenon

LEMMA LiveAt ==
  ASSUME NEW w, NEW G, Fit(w, G), NEW e \in Live(w, G), NEW a, NEW r,
         a = w.loc[e.idx].arch, r = w.loc[e.idx].row
  PROVE  /\ e \in H /\ Located(w, e) /\ IsAlive(w, e) /\ e \notin G /\ w \in Worlds
         /\ a \in DOMAIN w.archs /\ r \in DOMAIN w.archs[a].rows
         /\ w.archs[a].rows[r].ent = e /\ Row(w, e) = w.archs[a].rows[r]
<1>1. e \in H /\ Located(w, e) /\ e \notin G /\ Stored(w, e) /\ w \in Worlds
  BY LiveIs DEF Fit
<1>2. QED
  BY <1>1 DEF Located, Stored, StoredAt, Row, ArchAt

InRow(w, e, a, r) == a = w.loc[e.idx].arch /\ r = w.loc[e.idx].row

LEMMA InRowIs ==
  ASSUME NEW w, NEW G, Fit(w, G), NEW e \in Live(w, G), NEW a, NEW r, InRow(w, e, a, r)
  PROVE  /\ w \in Worlds /\ a \in DOMAIN w.archs /\ r \in DOMAIN w.archs[a].rows
         /\ w.archs[a].rows[r].ent = e /\ ArchAt(w, e) = w.archs[a] /\ Row(w, e) = w.archs[a].rows[r]
         /\ Row(w, e).vals \in On(V) /\ DOMAIN Row(w, e).vals = w.archs[a].ids
<1>1. w \in Worlds
  BY DEF Fit
<1>2. a \in DOMAIN w.archs /\ r \in DOMAIN w.archs[a].rows
  BY LiveIs, Zenon DEF InRow
<1>3. ArchAt(w, e) = w.archs[a] /\ Row(w, e) = w.archs[a].rows[r]
  BY DEF ArchAt, Row, InRow
<1>4. /\ Row(w, e).ent = e
      /\ Row(w, e).vals \in On(V) /\ DOMAIN Row(w, e).vals = ArchAt(w, e).ids
  BY LiveIs
<1>5. QED
  BY <1>1, <1>2, <1>3, <1>4

LEMMA OneInRow ==
  ASSUME NEW w, NEW G, Fit(w, G), NEW e \in Live(w, G), NEW f \in Live(w, G), NEW a, NEW r,
         InRow(w, e, a, r), InRow(w, f, a, r)
  PROVE  f = e
  BY InRowIs

(* A row of the world before is a row of the world after.                  *)
LEMMA InRowStays ==
  ASSUME NEW w, NEW u, NEW e, NEW a, NEW r, InRow(w, e, a, r), u.loc = w.loc
  PROVE  Row(u, e) = u.archs[a].rows[r] /\ Row(w, e) = w.archs[a].rows[r]
  BY DEF InRow, Row, ArchAt

LEMMA DenseIs ==
  ASSUME NEW w \in Worlds, SparseFits(w), NEW e \in H
  PROVE  /\ DenseIndex(w, e) # None => /\ DenseIndex(w, e) \in DOMAIN w.dense
                                       /\ w.dense[DenseIndex(w, e)].ent = e
                                       /\ Located(w, e) /\ w.pages[e.idx] = DenseIndex(w, e)
         /\ \A d \in DOMAIN w.dense : w.dense[d].ent = e => DenseIndex(w, e) = d
<1>1. w.pages[e.idx] \in {None} \cup (Nat \ {0}) /\ DOMAIN w.dense = 1 .. Len(w.dense)
      /\ Len(w.dense) \in Nat
  BY WorldFields, HandleIs
<1>2. None \notin Nat
  BY WorldAssumption
<1>3. ASSUME DenseIndex(w, e) # None
      PROVE  /\ DenseIndex(w, e) \in DOMAIN w.dense /\ w.dense[DenseIndex(w, e)].ent = e
             /\ Located(w, e) /\ w.pages[e.idx] = DenseIndex(w, e)
  <2>1. /\ DenseIndex(w, e) = w.pages[e.idx] /\ w.pages[e.idx] # None
        /\ w.pages[e.idx] <= Len(w.dense) /\ w.dense[w.pages[e.idx]].ent = e
    BY <1>3 DEF DenseIndex
  <2>2. DenseIndex(w, e) \in DOMAIN w.dense
    BY <1>1, <2>1
  <2>3. QED
    BY <2>1, <2>2 DEF SparseFits
<1>4. ASSUME NEW d \in DOMAIN w.dense, w.dense[d].ent = e
      PROVE  DenseIndex(w, e) = d
  <2>1. w.pages[e.idx] = d /\ d \in Nat /\ d <= Len(w.dense)
    BY <1>1, <1>4 DEF SparseFits
  <2>2. QED
    BY <1>2, <1>4, <2>1 DEF DenseIndex
<1>5. QED
  BY <1>3, <1>4

(* The sparse value over and under writes of stored components.            *)
LEMMA JustIs ==
  ASSUME NEW c, NEW v
  PROVE  DOMAIN Just(c, v) = {c} /\ Just(c, v)[c] = v
  BY DEF Just

IsMap(f) == f = [c \in DOMAIN f |-> f[c]]

LEMMA OverlayIs ==
  ASSUME NEW f, NEW g
  PROVE  DOMAIN Overlay(f, g) = DOMAIN f \cup DOMAIN g /\ IsMap(Overlay(f, g))
  BY DEF Overlay, IsMap

LEMMA OverlayNew ==
  ASSUME NEW f, NEW g, NEW c \in DOMAIN f
  PROVE  Overlay(f, g)[c] = f[c]
  BY DEF Overlay

LEMMA OverlayOld ==
  ASSUME NEW f, NEW g, NEW c \in DOMAIN g, c \notin DOMAIN f
  PROVE  Overlay(f, g)[c] = g[c]
  BY DEF Overlay

LEMMA OverIs ==
  ASSUME NEW w, NEW e, NEW vals \in On(V)
  PROVE  /\ DOMAIN vals \subseteq Components /\ Sparse \notin DOMAIN vals
         /\ DenseIndex(w, e) = None => Over(w, e, vals) = vals
         /\ DenseIndex(w, e) # None =>
              /\ DOMAIN Over(w, e, vals) = {Sparse} \cup DOMAIN vals
              /\ Over(w, e, vals)[Sparse] = w.dense[DenseIndex(w, e)].val
         /\ IsMap(Over(w, e, vals))
<1>1. DOMAIN vals \subseteq Components /\ IsMap(vals)
  BY OnIs DEF IsMap
<1>2. Sparse \notin DOMAIN vals
  BY <1>1, KeyIsStored
<1>3. CASE DenseIndex(w, e) = None
  <2>1. Over(w, e, vals) = vals
    BY <1>3 DEF Over
  <2>2. QED
    BY <1>1, <1>2, <1>3, <2>1
<1>4. CASE DenseIndex(w, e) # None
  <2> DEFINE j == Just(Sparse, w.dense[DenseIndex(w, e)].val)
             o == Overlay(j, vals)
  <2>1. Over(w, e, vals) = o
    BY <1>4 DEF Over
  <2>2. DOMAIN j = {Sparse} /\ j[Sparse] = w.dense[DenseIndex(w, e)].val
    BY JustIs
  <2> HIDE DEF j
  <2>3. DOMAIN o = {Sparse} \cup DOMAIN vals /\ IsMap(o)
    BY <2>2, OverlayIs
  <2>4. o[Sparse] = j[Sparse]
    BY <2>2, OverlayNew
  <2> HIDE DEF o
  <2>5. QED
    BY <1>1, <1>2, <1>4, <2>1, <2>2, <2>3, <2>4
<1>5. QED
  BY <1>3, <1>4

LEMMA OverAt ==
  ASSUME NEW w, NEW e, NEW vals \in On(V), NEW c \in DOMAIN vals
  PROVE  c \in DOMAIN Over(w, e, vals) /\ Over(w, e, vals)[c] = vals[c]
<1>1. c # Sparse
  BY OverIs
<1>2. CASE DenseIndex(w, e) = None
  BY <1>2, OverIs
<1>3. CASE DenseIndex(w, e) # None
  <2> DEFINE j == Just(Sparse, w.dense[DenseIndex(w, e)].val)
  <2>1. Over(w, e, vals) = Overlay(j, vals)
    BY <1>3 DEF Over
  <2>2. DOMAIN j = {Sparse}
    BY JustIs
  <2> HIDE DEF j
  <2>3. Overlay(j, vals)[c] = vals[c]
    BY <1>1, <2>2, OverlayOld
  <2>4. DOMAIN Over(w, e, vals) = {Sparse} \cup DOMAIN vals
    BY <1>3, OverIs
  <2>5. QED
    BY <2>1, <2>3, <2>4
<1>4. QED
  BY <1>2, <1>3

LEMMA OverGiven ==
  ASSUME NEW w, NEW e, NEW f \in On(V), NEW g \in On(V)
  PROVE  Overlay(f, Over(w, e, g)) = Over(w, e, Overlay(f, g))
<1> DEFINE o == Overlay(f, g)
           p == Over(w, e, g)
           y == Over(w, e, o)
<1>1. o \in On(V) /\ DOMAIN o = DOMAIN f \cup DOMAIN g
  BY OverlayOn
<1>2. /\ \A c \in DOMAIN f : o[c] = f[c]
      /\ \A c \in DOMAIN g : c \notin DOMAIN f => o[c] = g[c]
  BY OverlayNew, OverlayOld
<1> HIDE DEF o
<1>3. /\ Sparse \notin DOMAIN f /\ Sparse \notin DOMAIN g
      /\ DenseIndex(w, e) = None => p = g
      /\ DenseIndex(w, e) # None => /\ DOMAIN p = {Sparse} \cup DOMAIN g
                                    /\ p[Sparse] = w.dense[DenseIndex(w, e)].val
  BY OverIs
<1>4. \A c \in DOMAIN g : p[c] = g[c]
  BY OverAt
<1>5. /\ IsMap(y)
      /\ DenseIndex(w, e) = None => y = o
      /\ DenseIndex(w, e) # None => /\ DOMAIN y = {Sparse} \cup DOMAIN o
                                    /\ y[Sparse] = w.dense[DenseIndex(w, e)].val
  BY <1>1, OverIs
<1>6. \A c \in DOMAIN o : y[c] = o[c]
  BY <1>1, OverAt
<1> HIDE DEF y, p
<1>7. DOMAIN y = DOMAIN f \cup DOMAIN p
  BY <1>1, <1>3, <1>5
<1>8. \A c \in DOMAIN f : y[c] = f[c]
  BY <1>1, <1>2, <1>6
<1>9. \A c \in DOMAIN p : c \notin DOMAIN f => y[c] = p[c]
  BY <1>1, <1>2, <1>3, <1>4, <1>5, <1>6
<1>10. y = Overlay(f, p)
  BY <1>5, <1>7, <1>8, <1>9 DEF Overlay, IsMap
<1>11. QED
  BY <1>10 DEF y, p, o

LEMMA OverTaken ==
  ASSUME NEW w, NEW e, NEW g \in On(V), NEW c \in Components
  PROVE  Only(Over(w, e, g), DOMAIN Over(w, e, g) \ {c}) = Over(w, e, Only(g, DOMAIN g \ {c}))
<1> DEFINE p == Over(w, e, g)
           o == Only(g, DOMAIN g \ {c})
           y == Over(w, e, o)
<1>1. o \in On(V) /\ DOMAIN o = DOMAIN g \ {c}
  BY OnlyOn
<1>2. \A d \in DOMAIN g \ {c} : o[d] = g[d]
  BY DEF Only
<1> HIDE DEF o
<1>3. /\ Sparse \notin DOMAIN g /\ Sparse # c
      /\ DenseIndex(w, e) = None => p = g
      /\ DenseIndex(w, e) # None => /\ DOMAIN p = {Sparse} \cup DOMAIN g
                                    /\ p[Sparse] = w.dense[DenseIndex(w, e)].val
  BY OverIs, KeyIsStored
<1>4. \A d \in DOMAIN g : p[d] = g[d]
  BY OverAt
<1>5. /\ IsMap(y)
      /\ DenseIndex(w, e) = None => y = o
      /\ DenseIndex(w, e) # None => /\ DOMAIN y = {Sparse} \cup DOMAIN o
                                    /\ y[Sparse] = w.dense[DenseIndex(w, e)].val
  BY <1>1, OverIs
<1>6. \A d \in DOMAIN o : y[d] = o[d]
  BY <1>1, OverAt
<1> HIDE DEF y, p
<1>7. DOMAIN y = DOMAIN p \ {c}
  BY <1>1, <1>3, <1>5
<1>8. \A d \in DOMAIN p \ {c} : y[d] = p[d]
  BY <1>1, <1>2, <1>3, <1>4, <1>5, <1>6
<1>9. y = [d \in DOMAIN p \ {c} |-> p[d]]
  BY <1>5, <1>7, <1>8 DEF IsMap
<1>10. QED
  BY <1>9 DEF y, p, o, Only

-----------------------------------------------------------------------------
(* Steps of the storage that keep it fitting, and what they mean.          *)
LEMMA SameDense ==
  ASSUME NEW w, NEW u, u.pages = w.pages, u.dense = w.dense, NEW e
  PROVE  DenseIndex(u, e) = DenseIndex(w, e)
  BY DEF DenseIndex

LEMMA SameSparse ==
  ASSUME NEW w, NEW u, u.pages = w.pages, u.dense = w.dense, NEW e, NEW vals
  PROVE  Over(u, e, vals) = Over(w, e, vals)
  BY SameDense DEF Over

LEMMA PlaceIs ==
  ASSUME NEW a \in Nat, NEW r \in Nat
  PROVE  /\ [arch |-> a, row |-> r] \in Place /\ [arch |-> a, row |-> r] # None
         /\ [arch |-> a, row |-> r].arch = a /\ [arch |-> a, row |-> r].row = r
  BY WorldAssumption DEF Place

(* Rows of a fitting world belong to entities that are located there.      *)
LEMMA RowIsLive ==
  ASSUME NEW w, NEW G, Fit(w, G), NEW a \in DOMAIN w.archs, NEW r \in DOMAIN w.archs[a].rows
  PROVE  /\ w.archs[a].rows[r].ent \in Live(w, G)
         /\ w.loc[w.archs[a].rows[r].ent.idx] = [arch |-> a, row |-> r]
         /\ a \in Nat /\ r \in Nat
<1> DEFINE e == w.archs[a].rows[r].ent
<1>1. w \in Worlds /\ e \notin G /\ w.gens[e.idx] = e.gen /\ w.loc[e.idx] = [arch |-> a, row |-> r]
  <2>1. w \in Worlds /\ e \notin G /\ FoundAt(w, e, a, r)
    BY DEF Fit, RowsFound
  <2>2. QED
    BY <2>1, Zenon DEF FoundAt
<1>def. e = w.archs[a].rows[r].ent
  OBVIOUS
<1> HIDE DEF e
<1>2. a \in Nat /\ r \in Nat /\ e \in H
  <2>1. DOMAIN w.archs = 1 .. Len(w.archs) /\ DOMAIN w.archs[a].rows = 1 .. Len(w.archs[a].rows)
        /\ Len(w.archs) \in Nat /\ Len(w.archs[a].rows) \in Nat
    BY <1>1, WorldFields
  <2>2. e \in H
    BY <1>1, <1>def, WorldFields
  <2>3. QED
    BY <2>1, <2>2
<1>3. w.loc[e.idx] # None
  BY <1>1, <1>2, PlaceIs
<1>4. e \in Live(w, G)
  BY <1>1, <1>2, <1>3 DEF Live, Located, IsAlive, IsPlaced
<1>5. QED
  BY <1>1, <1>2, <1>4 DEF e

LEMMA MeaningIs ==
  ASSUME NEW w, NEW G
  PROVE  DOMAIN Meaning(w, G) = Live(w, G) /\ IsMap(Meaning(w, G))
  BY DEF Meaning, IsMap

LEMMA MeaningAt ==
  ASSUME NEW w, NEW G, NEW e \in Live(w, G)
  PROVE  Meaning(w, G)[e] = Over(w, e, Row(w, e).vals)
  BY DEF Meaning, Full

(* What was given is all there is to compare.                              *)
LEMMA SameMeaning ==
  ASSUME NEW w, NEW u, NEW G, NEW D, Live(u, D) = Live(w, G),
         \A e \in Live(w, G) : Over(u, e, Row(u, e).vals) = Over(w, e, Row(w, e).vals)
  PROVE  Meaning(u, D) = Meaning(w, G)
  BY DEF Meaning, Full

LEMMA GrowKeeps ==
  ASSUME NEW w, NEW G, Fit(w, G), NEW u, NEW ids \in SUBSET Components, GrownFor(w, u, ids)
  PROVE  Fit(u, G) /\ Meaning(u, G) = Meaning(w, G) /\ Live(u, G) = Live(w, G)
<1>1. /\ u \in Worlds /\ u.loc = w.loc /\ DOMAIN w.archs \subseteq DOMAIN u.archs
      /\ u.tick = w.tick /\ u.gens = w.gens /\ u.free = w.free
      /\ u.pages = w.pages /\ u.dense = w.dense
      /\ \A b \in DOMAIN w.archs : u.archs[b] = w.archs[b]
      /\ \A b \in DOMAIN u.archs \ DOMAIN w.archs :
           /\ b = Len(w.archs) + 1
           /\ ~Known(w, ids) /\ u.archs[b].ids = ids /\ u.archs[b].rows = << >>
           /\ DOMAIN u.archs[b].ticks = ids /\ \A c \in ids : u.archs[b].ticks[c] = 0
  BY DEF GrownFor, SameRest
<1>2. w \in Worlds /\ Columns(w) /\ RowsFound(w, G) /\ LocationsHold(w, G) /\ FreeUnplaced(w)
      /\ SparseFits(w)
  BY DEF Fit
<1>3. Columns(u)
  <2>1. ASSUME NEW a \in DOMAIN u.archs
        PROVE  /\ DOMAIN u.archs[a].ticks = u.archs[a].ids
               /\ \A c \in u.archs[a].ids : u.archs[a].ticks[c] <= u.tick
               /\ \A r \in DOMAIN u.archs[a].rows : DOMAIN u.archs[a].rows[r].vals = u.archs[a].ids
    <3>1. CASE a \in DOMAIN w.archs
      BY <1>1, <1>2, <3>1 DEF Columns
    <3>2. CASE a \notin DOMAIN w.archs
      <4>1. w.tick \in Nat
        BY <1>2, WorldFields
      <4>2. QED
        BY <1>1, <3>2, <4>1
    <3>3. QED
      BY <3>1, <3>2
  <2>2. ASSUME NEW a \in DOMAIN u.archs, NEW b \in DOMAIN u.archs, u.archs[a].ids = u.archs[b].ids
        PROVE  a = b
    <3>1. CASE a \in DOMAIN w.archs /\ b \in DOMAIN w.archs
      BY <1>1, <1>2, <2>2, <3>1 DEF Columns
    <3>2. CASE a \notin DOMAIN w.archs /\ b \notin DOMAIN w.archs
      BY <1>1, <3>2
    <3>3. CASE a \notin DOMAIN w.archs /\ b \in DOMAIN w.archs
      BY <1>1, <2>2, <3>3 DEF Known
    <3>4. CASE a \in DOMAIN w.archs /\ b \notin DOMAIN w.archs
      BY <1>1, <2>2, <3>4 DEF Known
    <3>5. QED
      BY <3>1, <3>2, <3>3, <3>4
  <2>3. QED
    BY <2>1, <2>2 DEF Columns
<1>4. RowsFound(u, G)
  <2>1. ASSUME NEW a \in DOMAIN u.archs, NEW r \in DOMAIN u.archs[a].rows
        PROVE  a \in DOMAIN w.archs
    BY <1>1
  <2>2. QED
    <3>1. \A e, a, r : FoundAt(w, e, a, r) => FoundAt(u, e, a, r)
      BY <1>1 DEF FoundAt
    <3>2. QED
      BY <1>1, <1>2, <2>1, <3>1 DEF RowsFound
<1>5. \A e : Located(u, e) <=> Located(w, e)
  BY <1>1 DEF Located, IsAlive, IsPlaced
<1>6. \A e : Stored(w, e) => Stored(u, e)
  BY Zenon, <1>1 DEF Stored, StoredAt
<1>7. LocationsHold(u, G) /\ FreeUnplaced(u) /\ SparseFits(u)
  BY <1>1, <1>2, <1>5, <1>6 DEF LocationsHold, FreeUnplaced, SparseFits
<1>8. Live(u, G) = Live(w, G)
  BY <1>5 DEF Live
<1>9. ASSUME NEW e \in Live(w, G)
      PROVE  Over(u, e, Row(u, e).vals) = Over(w, e, Row(w, e).vals)
  <2>1. w.loc[e.idx].arch \in DOMAIN w.archs
    BY LiveIs
  <2>2. Row(u, e) = Row(w, e)
    BY <1>1, <2>1 DEF Row, ArchAt
  <2>3. QED
    BY <1>1, <2>2, SameSparse
<1>10. Meaning(u, G) = Meaning(w, G)
  BY <1>8, <1>9, SameMeaning
<1>11. QED
  BY <1>1, <1>3, <1>4, <1>7, <1>8, <1>10 DEF Fit

LEMMA MarkKeeps ==
  ASSUME NEW w, NEW G, Fit(w, G), NEW u, NEW A, NEW cols, NEW tick \in Nat, tick <= w.tick,
         MarkedFrom(w, u, A, cols, tick)
  PROVE  Fit(u, G) /\ Meaning(u, G) = Meaning(w, G) /\ Live(u, G) = Live(w, G)
<1>1. /\ u \in Worlds /\ u.loc = w.loc /\ DOMAIN u.archs = DOMAIN w.archs
      /\ u.tick = w.tick /\ u.gens = w.gens /\ u.free = w.free
      /\ u.pages = w.pages /\ u.dense = w.dense
      /\ \A b \in DOMAIN w.archs :
           /\ u.archs[b].ids = w.archs[b].ids /\ u.archs[b].rows = w.archs[b].rows
           /\ DOMAIN u.archs[b].ticks = DOMAIN w.archs[b].ticks
           /\ \A c \in DOMAIN w.archs[b].ticks :
                u.archs[b].ticks[c] = IF b \in A /\ c \in cols THEN tick ELSE w.archs[b].ticks[c]
  BY DEF MarkedFrom, SameRest
<1>2. w \in Worlds /\ Columns(w) /\ RowsFound(w, G) /\ LocationsHold(w, G) /\ FreeUnplaced(w)
      /\ SparseFits(w)
  BY DEF Fit
<1>3. Columns(u)
  BY <1>1, <1>2 DEF Columns
<1>4. RowsFound(u, G)
  <2>1. \A e, a, r : FoundAt(w, e, a, r) => FoundAt(u, e, a, r)
    BY <1>1 DEF FoundAt
  <2>2. QED
    BY <1>1, <1>2, <2>1 DEF RowsFound
<1>5. \A e : Located(u, e) <=> Located(w, e)
  BY <1>1 DEF Located, IsAlive, IsPlaced
<1>6. \A e : Stored(w, e) => Stored(u, e)
  BY Zenon, <1>1 DEF Stored, StoredAt
<1>7. LocationsHold(u, G) /\ FreeUnplaced(u) /\ SparseFits(u)
  BY <1>1, <1>2, <1>5, <1>6 DEF LocationsHold, FreeUnplaced, SparseFits
<1>8. Live(u, G) = Live(w, G)
  BY <1>5 DEF Live
<1>9. ASSUME NEW e \in Live(w, G)
      PROVE  Over(u, e, Row(u, e).vals) = Over(w, e, Row(w, e).vals)
  <2>1. w.loc[e.idx].arch \in DOMAIN w.archs
    BY LiveIs
  <2>2. Row(u, e) = Row(w, e)
    BY <1>1, <2>1 DEF Row, ArchAt
  <2>3. QED
    BY <1>1, <2>2, SameSparse
<1>10. Meaning(u, G) = Meaning(w, G)
  BY <1>8, <1>9, SameMeaning
<1>11. QED
  BY <1>1, <1>3, <1>4, <1>7, <1>8, <1>10 DEF Fit

(* Values are written without a row moving.                                *)
ColumnsFilled(w, u) ==
  \A b \in DOMAIN w.archs : \A r \in DOMAIN w.archs[b].rows :
    DOMAIN u.archs[b].rows[r].vals = w.archs[b].ids

LEMMA WriteKeeps ==
  ASSUME NEW w, NEW G, Fit(w, G), NEW u, SameRows(w, u), ColumnsFilled(w, u)
  PROVE  Fit(u, G) /\ Live(u, G) = Live(w, G)
<1>1. /\ u \in Worlds /\ u.loc = w.loc /\ DOMAIN u.archs = DOMAIN w.archs
      /\ u.tick = w.tick /\ u.gens = w.gens /\ u.free = w.free
      /\ u.pages = w.pages /\ u.dense = w.dense
      /\ \A b \in DOMAIN w.archs :
           /\ u.archs[b].ids = w.archs[b].ids /\ u.archs[b].ticks = w.archs[b].ticks
           /\ DOMAIN u.archs[b].rows = DOMAIN w.archs[b].rows
           /\ \A r \in DOMAIN w.archs[b].rows : u.archs[b].rows[r].ent = w.archs[b].rows[r].ent
  BY DEF SameRows, SameRest
<1>2. w \in Worlds /\ Columns(w) /\ RowsFound(w, G) /\ LocationsHold(w, G) /\ FreeUnplaced(w)
      /\ SparseFits(w)
  BY DEF Fit
<1>3. Columns(u)
  BY <1>1, <1>2 DEF Columns, ColumnsFilled
<1>4. RowsFound(u, G)
  <2>1. \A e, a, r : FoundAt(w, e, a, r) => FoundAt(u, e, a, r)
    BY <1>1 DEF FoundAt
  <2>2. QED
    BY <1>1, <1>2, <2>1 DEF RowsFound
<1>5. \A e : Located(u, e) <=> Located(w, e)
  BY <1>1 DEF Located, IsAlive, IsPlaced
<1>6. \A e : Stored(w, e) => Stored(u, e)
  BY Zenon, <1>1 DEF Stored, StoredAt
<1>7. LocationsHold(u, G) /\ FreeUnplaced(u) /\ SparseFits(u)
  BY <1>1, <1>2, <1>5, <1>6 DEF LocationsHold, FreeUnplaced, SparseFits
<1>8. Live(u, G) = Live(w, G)
  BY <1>5 DEF Live
<1>9. QED
  BY <1>1, <1>3, <1>4, <1>7, <1>8 DEF Fit

LEMMA WriteMeans ==
  ASSUME NEW w, NEW G, Fit(w, G), NEW u, SameRows(w, u), ColumnsFilled(w, u), NEW e \in Live(w, G)
  PROVE  Meaning(u, G)[e] = Over(w, e, Row(u, e).vals)
<1>1. Live(u, G) = Live(w, G)
  BY WriteKeeps
<1>2. u.pages = w.pages /\ u.dense = w.dense
  BY DEF SameRows, SameRest
<1>3. QED
  BY <1>1, <1>2, MeaningAt, SameSparse

(* The entities without a row: one more and one less.                      *)
Plus(G, e) == G \cup {e}
Minus(G, e) == G \ {e}

(* A last row for an entity that has none.                                 *)
LEMMA PushKeeps ==
  ASSUME NEW w, NEW G, Fit(w, G), NEW a \in DOMAIN w.archs, NEW e \in H, NEW vals \in On(V),
         DOMAIN vals = w.archs[a].ids, IsAlive(w, e), e.idx \notin w.free,
         e \in G \/ ~Located(w, e), NEW u, PushedTo(w, u, a, e, vals)
  PROVE  /\ Fit(u, Minus(G, e))
         /\ Meaning(u, Minus(G, e)) = Overlay(Just(e, Over(w, e, vals)), Meaning(w, G))
<1> DEFINE n == Len(w.archs[a].rows)
           row == [ent |-> e, vals |-> vals]
           D == G \ {e}
<1>1. /\ u \in Worlds /\ DOMAIN u.archs = DOMAIN w.archs
      /\ u.tick = w.tick /\ u.gens = w.gens /\ u.free = w.free
      /\ u.pages = w.pages /\ u.dense = w.dense
      /\ \A b \in DOMAIN w.archs :
           /\ u.archs[b].ids = w.archs[b].ids /\ u.archs[b].ticks = w.archs[b].ticks
           /\ b # a => u.archs[b].rows = w.archs[b].rows
      /\ u.loc = [w.loc EXCEPT ![e.idx] = [arch |-> a, row |-> n + 1]]
      /\ u.archs[a].rows = Append(w.archs[a].rows, row)
  BY DEF PushedTo, SameArchs, SameRest
<1>2. w \in Worlds /\ Columns(w) /\ RowsFound(w, G) /\ LocationsHold(w, G) /\ FreeUnplaced(w)
      /\ SparseFits(w)
  BY DEF Fit
<1>3. /\ n \in Nat /\ DOMAIN w.archs[a].rows = 1 .. n /\ DOMAIN u.archs[a].rows = 1 .. n + 1
      /\ u.archs[a].rows[n + 1] = row /\ row.ent = e /\ row.vals = vals
      /\ \A r \in 1 .. n : u.archs[a].rows[r] = w.archs[a].rows[r]
  <2>1. w.archs[a].rows \in Seq(RowType)
    BY <1>2, WorldFields
  <2>2. row \in RowType /\ row.ent = e /\ row.vals = vals
    BY DEF RowType
  <2> HIDE DEF row
  <2>3. QED
    BY <1>1, <2>1, <2>2, AppendIs
<1> HIDE DEF row
<1>4. /\ e.idx \in Slots /\ w.loc \in [Slots -> {None} \cup Place]
      /\ u.loc[e.idx] = [arch |-> a, row |-> n + 1]
      /\ \A s \in Slots : s # e.idx => u.loc[s] = w.loc[s]
  <2>1. e.idx \in Slots /\ w.loc \in [Slots -> {None} \cup Place]
    BY <1>2, WorldFields, HandleIs
  <2>2. QED
    BY <1>1, <2>1
<1>5. a \in Nat /\ u.loc[e.idx] # None /\ u.loc[e.idx].arch = a /\ u.loc[e.idx].row = n + 1
  <2>1. a \in Nat /\ n + 1 \in Nat
    BY <1>2, <1>3, WorldFields
  <2>2. QED
    BY <1>4, <2>1, PlaceIs
<1> HIDE DEF n
<1>6. Columns(u)
  <2>1. ASSUME NEW b \in DOMAIN u.archs, NEW r \in DOMAIN u.archs[b].rows
        PROVE  DOMAIN u.archs[b].rows[r].vals = u.archs[b].ids
    <3>1. CASE b # a
      BY <1>1, <1>2, <2>1, <3>1 DEF Columns
    <3>2. CASE b = a /\ r = n + 1
      BY <1>1, <1>3, <3>2
    <3>3. CASE b = a /\ r # n + 1
      <4>1. r \in DOMAIN w.archs[a].rows /\ u.archs[a].rows[r] = w.archs[a].rows[r]
        BY <1>3, <2>1, <3>3
      <4>2. QED
        BY <1>1, <1>2, <3>3, <4>1 DEF Columns
    <3>4. QED
      BY <3>1, <3>2, <3>3
  <2>2. QED
    BY <1>1, <1>2, <2>1 DEF Columns
(* The other entities keep their locations.                                *)
<1>7. ASSUME NEW f \in H, IsAlive(w, f), f # e
      PROVE  f.idx # e.idx /\ u.loc[f.idx] = w.loc[f.idx] /\ f.idx \in Slots
  BY <1>4, <1>7, OneAlive, HandleIs
<1>8. ASSUME NEW f \in H
      PROVE  Located(u, f) <=> f = e \/ Located(w, f)
  <2>1. IsAlive(u, f) <=> IsAlive(w, f)
    BY <1>1 DEF IsAlive
  <2>2. CASE f = e
    BY <1>5, <2>1, <2>2 DEF Located, IsPlaced
  <2>3. CASE f # e
    BY <1>7, <2>1, <2>3 DEF Located, IsPlaced
  <2>4. QED
    BY <2>2, <2>3
<1>9. RowsFound(u, D)
  <2> SUFFICES ASSUME NEW b \in DOMAIN u.archs, NEW r \in DOMAIN u.archs[b].rows
               PROVE  u.archs[b].rows[r].ent \notin D /\ FoundAt(u, u.archs[b].rows[r].ent, b, r)
    BY DEF RowsFound
  <2>1. CASE b = a /\ r = n + 1
    BY <1>1, <1>3, <1>4, <2>1 DEF FoundAt, IsAlive
  <2>2. CASE b # a \/ r # n + 1
    <3>1. r \in DOMAIN w.archs[b].rows /\ u.archs[b].rows[r] = w.archs[b].rows[r]
      BY <1>1, <1>3, <2>2
    <3> DEFINE f == w.archs[b].rows[r].ent
    <3>2. f \in Live(w, G) /\ f \notin G /\ FoundAt(w, f, b, r)
      BY <1>1, <1>2, <3>1, RowIsLive DEF RowsFound
    <3>3. f \in H /\ Located(w, f) /\ IsAlive(w, f) /\ f # e
      BY <3>2 DEF Live, Located
    <3> HIDE DEF f
    <3>4. FoundAt(u, f, b, r)
      BY <1>1, <1>7, <3>2, <3>3 DEF FoundAt
    <3>5. QED
      BY <3>1, <3>2, <3>4 DEF f
  <2>3. QED
    BY <2>1, <2>2
<1>10. ASSUME NEW b, NEW r, NEW f, StoredAt(w, f, b, r)
       PROVE  StoredAt(u, f, b, r)
  BY <1>1, <1>3, <1>10 DEF StoredAt
<1>11. LocationsHold(u, D)
  <2> SUFFICES ASSUME NEW f \in H, Located(u, f), f \notin D
               PROVE  Stored(u, f)
    BY DEF LocationsHold
  <2>1. CASE f = e
    BY <1>1, <1>3, <1>5, <2>1 DEF Stored, StoredAt
  <2>2. CASE f # e
    <3>1. Located(w, f) /\ f \notin G /\ IsAlive(w, f)
      BY <1>8, <2>2 DEF Located
    <3>2. Stored(w, f) /\ u.loc[f.idx] = w.loc[f.idx]
      BY <1>2, <1>7, <2>2, <3>1 DEF LocationsHold
    <3>3. QED
      BY <1>10, <3>2 DEF Stored
  <2>3. QED
    BY <2>1, <2>2
<1>12. FreeUnplaced(u)
  <2>1. \A s \in u.free : s \in Slots /\ s # e.idx
    BY <1>1, <1>2, WorldFields
  <2>2. QED
    BY <1>1, <1>2, <1>4, <2>1 DEF FreeUnplaced
<1>13. SparseFits(u)
  <2>1. \A d \in DOMAIN w.dense : w.dense[d].ent \in H
    BY <1>2, WorldFields
  <2>2. QED
    BY <1>1, <1>2, <1>8, <2>1 DEF SparseFits
<1>14. Live(u, D) = {e} \cup Live(w, G)
  <2>1. ASSUME NEW f \in H
        PROVE  f \in Live(u, D) <=> f = e \/ f \in Live(w, G)
    BY <1>8 DEF Live
  <2>2. QED
    BY <2>1 DEF Live
<1>15. Meaning(u, D)[e] = Over(w, e, vals)
  <2>1. Row(u, e).vals = vals
    BY <1>3, <1>5 DEF Row, ArchAt
  <2>2. e \in Live(u, D)
    BY <1>14
  <2>3. QED
    BY <1>1, <2>1, <2>2, MeaningAt, SameSparse
<1>16. ASSUME NEW f \in Live(w, G), f # e
       PROVE  Meaning(u, D)[f] = Meaning(w, G)[f]
  <2>1. /\ f \in H /\ IsAlive(w, f) /\ w.loc[f.idx].arch \in DOMAIN w.archs
        /\ w.loc[f.idx].row \in DOMAIN w.archs[w.loc[f.idx].arch].rows
    BY LiveIs DEF Located
  <2>2. u.loc[f.idx] = w.loc[f.idx]
    BY <1>7, <1>16, <2>1
  <2>3. Row(u, f) = Row(w, f)
    <3> DEFINE b == w.loc[f.idx].arch
               r == w.loc[f.idx].row
    <3>1. Row(u, f) = u.archs[b].rows[r] /\ Row(w, f) = w.archs[b].rows[r]
      BY <2>2 DEF Row, ArchAt
    <3>2. b \in DOMAIN w.archs /\ r \in DOMAIN w.archs[b].rows
      BY <2>1
    <3> HIDE DEF b, r
    <3>3. CASE b = a
      BY <1>3, <3>1, <3>2, <3>3
    <3>4. CASE b # a
      BY <1>1, <3>1, <3>2, <3>4
    <3>5. QED
      BY <3>3, <3>4
  <2>4. f \in Live(u, D)
    BY <1>14
  <2>5. QED
    BY <1>1, <2>3, <2>4, MeaningAt, SameSparse
<1>17. Fit(u, D)
  BY <1>1, <1>6, <1>9, <1>11, <1>12, <1>13 DEF Fit
<1>18. Meaning(u, D) = Overlay(Just(e, Over(w, e, vals)), Meaning(w, G))
  <2> DEFINE j == Just(e, Over(w, e, vals))
             m == Meaning(u, D)
             k == Meaning(w, G)
  <2>1. DOMAIN j = {e} /\ j[e] = Over(w, e, vals)
    BY JustIs
  <2>2. DOMAIN m = {e} \cup Live(w, G) /\ IsMap(m) /\ DOMAIN k = Live(w, G)
    BY <1>14, MeaningIs
  <2> HIDE DEF j, m, k
  <2>3. m[e] = Over(w, e, vals) /\ \A f \in Live(w, G) : f # e => m[f] = k[f]
    BY <1>15, <1>16 DEF m, k
  <2>4. m = Overlay(j, k)
    BY <2>1, <2>2, <2>3 DEF Overlay, IsMap
  <2>5. QED
    BY <2>4 DEF j, m, k
<1>19. QED
  BY <1>17, <1>18 DEF Minus

(* A row is cut: its entity is left without one, and the last row's moves. *)
LowerStay(w, u, G, e) ==
  \A f \in Live(w, G) : w.loc[f.idx].row <= w.loc[e.idx].row => u.loc[f.idx] = w.loc[f.idx]

LEMMA CutKeeps ==
  ASSUME NEW w, NEW G, Fit(w, G), NEW e \in Live(w, G), NEW u,
         CutFrom(w, u, w.loc[e.idx].arch, w.loc[e.idx].row)
  PROVE  /\ Fit(u, Plus(G, e))
         /\ Live(u, Plus(G, e)) = Minus(Live(w, G), e)
         /\ Meaning(u, Plus(G, e)) = Gone(Meaning(w, G), {e})
         /\ u.loc[e.idx] = w.loc[e.idx]
         /\ LowerStay(w, u, G, e)
<1> DEFINE a == w.loc[e.idx].arch
           r == w.loc[e.idx].row
           last == Len(w.archs[a].rows)
           moved == w.archs[a].rows[last].ent
           D == G \cup {e}
<1>1. /\ e \in H /\ Located(w, e) /\ IsAlive(w, e) /\ e \notin G /\ w \in Worlds
      /\ a \in DOMAIN w.archs /\ r \in DOMAIN w.archs[a].rows /\ w.archs[a].rows[r].ent = e
  <2>1. a = w.loc[e.idx].arch /\ r = w.loc[e.idx].row
    OBVIOUS
  <2> HIDE DEF a, r
  <2>2. QED
    BY ONLY Fit(w, G), e \in Live(w, G), <2>1, LiveAt
<1>2. /\ a \in Nat /\ last \in Nat /\ r \in 1 .. last /\ DOMAIN w.archs[a].rows = 1 .. last
      /\ w.loc[e.idx] = [arch |-> a, row |-> r] /\ e.idx \in Slots
      /\ w.loc \in [Slots -> {None} \cup Place]
  <2>1. DOMAIN w.archs[a].rows = 1 .. last /\ last \in Nat
    BY <1>1, WorldFields
  <2>2. a \in Nat /\ w.loc[e.idx] = [arch |-> a, row |-> r]
    <3> HIDE DEF a, r
    <3>1. w.loc[w.archs[a].rows[r].ent.idx] = [arch |-> a, row |-> r] /\ a \in Nat
      BY <1>1, RowIsLive
    <3>2. QED
      BY <1>1, <3>1
  <2>3. e.idx \in Slots /\ w.loc \in [Slots -> {None} \cup Place]
    BY <1>1, HandleIs, WorldFields
  <2> HIDE DEF a, r, last
  <2>4. QED
    BY <1>1, <2>1, <2>2, <2>3
<1>3. CutFrom(w, u, a, r)
  OBVIOUS
<1> HIDE DEF a, r
<1>4. /\ u \in Worlds /\ DOMAIN u.archs = DOMAIN w.archs
      /\ u.tick = w.tick /\ u.gens = w.gens /\ u.free = w.free
      /\ u.pages = w.pages /\ u.dense = w.dense
      /\ \A b \in DOMAIN w.archs :
           /\ u.archs[b].ids = w.archs[b].ids /\ u.archs[b].ticks = w.archs[b].ticks
           /\ b # a => u.archs[b].rows = w.archs[b].rows
      /\ r < last => u.loc = [w.loc EXCEPT ![moved.idx] = [arch |-> a, row |-> r]]
      /\ ~(r < last) => u.loc = w.loc
      /\ DOMAIN u.archs[a].rows = 1 .. last - 1
      /\ \A j \in 1 .. last - 1 : j # r => u.archs[a].rows[j] = w.archs[a].rows[j]
      /\ r < last => u.archs[a].rows[r] = w.archs[a].rows[last]
  BY <1>3 DEF CutFrom, SameArchs, SameRest
<1>5. w \in Worlds /\ Columns(w) /\ RowsFound(w, G) /\ LocationsHold(w, G) /\ FreeUnplaced(w)
      /\ SparseFits(w)
  BY DEF Fit
<1>6. /\ moved \in H /\ IsAlive(w, moved) /\ moved \notin G /\ Located(w, moved)
      /\ w.loc[moved.idx] = [arch |-> a, row |-> last] /\ moved.idx \in Slots
  <2>1. last \in DOMAIN w.archs[a].rows
    BY <1>2
  <2>2. moved \in Live(w, G) /\ w.loc[moved.idx] = [arch |-> a, row |-> last]
    BY <1>1, <2>1, RowIsLive
  <2>3. QED
    BY <2>2, HandleIs DEF Live, Located
<1> HIDE DEF last, moved
<1>7. r < last => moved # e
  <2>1. \A p, q \in Nat : [arch |-> a, row |-> p] = [arch |-> a, row |-> q] => p = q
    BY <1>2, PlaceIs
  <2>2. QED
    BY <1>2, <1>6, <2>1
<1>8. r < last => u.loc[moved.idx] = [arch |-> a, row |-> r]
  BY <1>2, <1>4, <1>6
<1>9. ASSUME NEW f \in H, IsAlive(w, f), f # moved \/ ~(r < last)
      PROVE  u.loc[f.idx] = w.loc[f.idx]
  <2>1. f.idx \in Slots
    BY HandleIs
  <2>2. CASE ~(r < last)
    BY <1>4, <2>2
  <2>3. CASE r < last
    <3>1. f.idx # moved.idx
      BY <1>6, <1>9, <2>3, OneAlive
    <3>2. QED
      BY <1>2, <1>4, <2>1, <2>3, <3>1
  <2>4. QED
    BY <2>2, <2>3
<1>10. \A s \in Slots : u.loc[s] = None <=> w.loc[s] = None
  <2>1. CASE ~(r < last)
    BY <1>4, <2>1
  <2>2. CASE r < last
    <3>1. w.loc[moved.idx] # None /\ u.loc[moved.idx] # None
      BY <1>2, <1>6, <1>8, <2>2, PlaceIs
    <3>2. \A s \in Slots : s # moved.idx => u.loc[s] = w.loc[s]
      BY <1>2, <1>4, <2>2
    <3>3. QED
      BY <3>1, <3>2
  <2>3. QED
    BY <2>1, <2>2
<1>11. ASSUME NEW f \in H
       PROVE  Located(u, f) <=> Located(w, f)
  <2>1. f.idx \in Slots
    BY HandleIs
  <2>2. QED
    BY <1>4, <1>10, <2>1 DEF Located, IsAlive, IsPlaced
(* Where a row of the world before is now.                                 *)
<1>12. ASSUME NEW b \in DOMAIN w.archs, NEW q \in DOMAIN w.archs[b].rows, b # a \/ q # r,
              b # a \/ q # last
       PROVE  /\ q \in DOMAIN u.archs[b].rows /\ u.archs[b].rows[q] = w.archs[b].rows[q]
              /\ w.archs[b].rows[q].ent # e /\ w.archs[b].rows[q].ent # moved
  <2> DEFINE f == w.archs[b].rows[q].ent
  <2>1. w.loc[f.idx] = [arch |-> b, row |-> q] /\ b \in Nat /\ q \in Nat
    BY <1>12, RowIsLive
  <2>2. w.loc[f.idx].arch = b /\ w.loc[f.idx].row = q
    BY <2>1, PlaceIs
  <2>3. w.loc[e.idx].arch = a /\ w.loc[e.idx].row = r
        /\ w.loc[moved.idx].arch = a /\ w.loc[moved.idx].row = last
    BY <1>2, <1>6, PlaceIs
  <2> HIDE DEF f
  <2>4. f # e /\ f # moved
    BY <1>12, <2>2, <2>3
  <2>5. q \in DOMAIN u.archs[b].rows /\ u.archs[b].rows[q] = w.archs[b].rows[q]
    <3>1. CASE b # a
      BY <1>4, <3>1
    <3>2. CASE b = a
      <4>1. q \in 1 .. last /\ q # r /\ q # last
        BY <1>2, <1>12, <3>2
      <4>2. q \in 1 .. last - 1
        BY <1>2, <4>1
      <4>3. QED
        BY <1>4, <3>2, <4>1, <4>2
    <3>3. QED
      BY <3>1, <3>2
  <2>6. QED
    BY <2>4, <2>5 DEF f
(* Where a row of the world after was.                                     *)
<1>13. ASSUME NEW b \in DOMAIN u.archs, NEW q \in DOMAIN u.archs[b].rows, b # a \/ q # r
       PROVE  q \in DOMAIN w.archs[b].rows /\ (b # a \/ q # last)
  <2>1. CASE b # a
    BY <1>4, <2>1
  <2>2. CASE b = a
    <3>1. q \in 1 .. last - 1
      BY <1>4, <2>2
    <3>2. q \in 1 .. last /\ q # last
      BY <1>2, <3>1
    <3>3. QED
      BY <1>2, <2>2, <3>2
  <2>3. QED
    BY <2>1, <2>2
<1>14. ASSUME NEW q \in DOMAIN u.archs[a].rows, q = r
       PROVE  r < last /\ u.archs[a].rows[q] = w.archs[a].rows[last]
  <2>1. r \in 1 .. last - 1
    BY <1>4, <1>14
  <2>2. QED
    BY <1>2, <1>4, <1>14, <2>1
<1>15. last \in DOMAIN w.archs[a].rows /\ w.archs[a].rows[last].ent = moved
  BY <1>2 DEF moved
<1>16. Columns(u)
  <2>1. ASSUME NEW b \in DOMAIN u.archs, NEW q \in DOMAIN u.archs[b].rows
        PROVE  DOMAIN u.archs[b].rows[q].vals = u.archs[b].ids
    <3>1. CASE b # a \/ q # r
      <4>1. q \in DOMAIN w.archs[b].rows /\ (b # a \/ q # last)
        BY <1>13, <3>1
      <4>2. u.archs[b].rows[q] = w.archs[b].rows[q]
        BY <1>4, <1>12, <3>1, <4>1
      <4>3. QED
        BY <1>4, <1>5, <4>1, <4>2 DEF Columns
    <3>2. CASE b = a /\ q = r
      <4>1. u.archs[b].rows[q] = w.archs[a].rows[last]
        BY <1>14, <3>2
      <4>2. DOMAIN w.archs[a].rows[last].vals = w.archs[a].ids
        BY <1>1, <1>5, <1>15 DEF Columns
      <4>3. QED
        BY <1>1, <1>4, <3>2, <4>1, <4>2
    <3>3. QED
      BY <3>1, <3>2
  <2>2. QED
    BY <1>4, <1>5, <2>1 DEF Columns
<1>17. RowsFound(u, D)
  <2> SUFFICES ASSUME NEW b \in DOMAIN u.archs, NEW q \in DOMAIN u.archs[b].rows
               PROVE  u.archs[b].rows[q].ent \notin D /\ FoundAt(u, u.archs[b].rows[q].ent, b, q)
    BY DEF RowsFound
  <2>1. CASE b # a \/ q # r
    <3>1. q \in DOMAIN w.archs[b].rows /\ (b # a \/ q # last) /\ b \in DOMAIN w.archs
      BY <1>4, <1>13, <2>1
    <3> DEFINE f == w.archs[b].rows[q].ent
    <3>2. u.archs[b].rows[q] = w.archs[b].rows[q] /\ f # e /\ f # moved
      BY <1>12, <2>1, <3>1
    <3>3. f \in Live(w, G) /\ f \notin G /\ FoundAt(w, f, b, q)
      BY <1>5, <3>1, RowIsLive DEF RowsFound
    <3> HIDE DEF f
    <3>4. f \in H /\ IsAlive(w, f)
      BY <3>3 DEF Live, Located
    <3>5. FoundAt(u, f, b, q)
      BY <1>4, <1>9, <3>2, <3>3, <3>4 DEF FoundAt
    <3>6. QED
      BY <3>2, <3>3, <3>5 DEF f
  <2>2. CASE b = a /\ q = r
    <3>1. r < last /\ u.archs[b].rows[q].ent = moved
      BY <1>14, <1>15, <2>2
    <3>2. FoundAt(u, moved, a, r)
      BY <1>4, <1>6, <1>8, <3>1 DEF FoundAt, IsAlive
    <3>3. QED
      BY <1>6, <1>7, <2>2, <3>1, <3>2
  <2>3. QED
    BY <2>1, <2>2
(* Every other entity that was there.                                      *)
<1>18. ASSUME NEW f \in Live(w, G), f # e
       PROVE  Stored(u, f) /\ Row(u, f) = Row(w, f)
  <2> DEFINE b == w.loc[f.idx].arch
             q == w.loc[f.idx].row
  <2>1. /\ f \in H /\ IsAlive(w, f) /\ b \in DOMAIN w.archs /\ q \in DOMAIN w.archs[b].rows
        /\ w.archs[b].rows[q].ent = f /\ Row(w, f) = w.archs[b].rows[q]
    <3>1. f \in Live(w, G) /\ b = w.loc[f.idx].arch /\ q = w.loc[f.idx].row
      OBVIOUS
    <3> HIDE DEF b, q
    <3>2. f \in H /\ Located(w, f) /\ Stored(w, f)
      BY <3>1, LiveIs
    <3>3. IsAlive(w, f) /\ StoredAt(w, f, b, q)
      BY <3>1, <3>2 DEF Located, Stored
    <3>4. Row(w, f) = w.archs[b].rows[q]
      BY <3>1 DEF Row, ArchAt
    <3>5. QED
      BY <3>2, <3>3, <3>4 DEF StoredAt
  <2>2. CASE f = moved /\ r < last
    <3>1. u.loc[f.idx].arch = a /\ u.loc[f.idx].row = r
      BY <1>2, <1>8, <2>2, PlaceIs
    <3>2. r \in 1 .. last - 1
      BY <1>2, <2>2
    <3>3. u.archs[a].rows[r] = w.archs[a].rows[last] /\ r \in DOMAIN u.archs[a].rows
      BY <1>4, <2>2, <3>2
    <3>4. b = a /\ q = last
      BY <1>2, <1>6, <2>2, PlaceIs
    <3>5. Row(u, f) = u.archs[a].rows[r]
      BY <3>1 DEF Row, ArchAt
    <3> HIDE DEF b, q
    <3>6. QED
      BY <1>1, <1>4, <1>15, <2>1, <2>2, <3>1, <3>3, <3>4, <3>5 DEF Stored, StoredAt
  <2>3. CASE f # moved \/ ~(r < last)
    <3>1. u.loc[f.idx] = w.loc[f.idx]
      BY <1>9, <2>1, <2>3
    <3>2. Row(u, f) = u.archs[b].rows[q] /\ u.loc[f.idx].arch = b /\ u.loc[f.idx].row = q
      BY <3>1 DEF Row, ArchAt
    <3> HIDE DEF b, q
    <3>3. b # a \/ q # r
      BY <1>1, <1>18, <2>1
    <3>4. b # a \/ q # last
      BY <1>2, <1>15, <2>1, <2>3, <3>3
    <3>5. q \in DOMAIN u.archs[b].rows /\ u.archs[b].rows[q] = w.archs[b].rows[q]
      BY <1>12, <2>1, <3>3, <3>4
    <3>6. QED
      BY <1>4, <2>1, <3>2, <3>5 DEF Stored, StoredAt
  <2>4. QED
    BY <2>2, <2>3
<1>19. Live(u, D) = Live(w, G) \ {e}
  BY <1>11 DEF Live
<1>20. LocationsHold(u, D)
  <2> SUFFICES ASSUME NEW f \in H, Located(u, f), f \notin D
               PROVE  Stored(u, f)
    BY DEF LocationsHold
  <2>1. f \in Live(w, G) /\ f # e
    BY <1>11 DEF Live
  <2>2. QED
    BY <1>18, <2>1
<1>21. FreeUnplaced(u)
  BY <1>4, <1>5, <1>10, WorldFields DEF FreeUnplaced
<1>22. SparseFits(u)
  <2>1. \A d \in DOMAIN w.dense : w.dense[d].ent \in H
    BY <1>5, WorldFields
  <2>2. QED
    BY <1>4, <1>5, <1>11, <2>1 DEF SparseFits
<1>23. Fit(u, D)
  BY <1>4, <1>16, <1>17, <1>20, <1>21, <1>22 DEF Fit
<1>24. ASSUME NEW f \in Live(w, G) \ {e}
       PROVE  Meaning(u, D)[f] = Meaning(w, G)[f]
  <2>1. Row(u, f) = Row(w, f) /\ f \in Live(u, D)
    BY <1>18, <1>19
  <2>2. QED
    BY <1>4, <2>1, MeaningAt, SameSparse
<1>25. Meaning(u, D) = Gone(Meaning(w, G), {e})
  <2> DEFINE m == Meaning(u, D)
             k == Meaning(w, G)
  <2>1. DOMAIN m = Live(w, G) \ {e} /\ IsMap(m) /\ DOMAIN k = Live(w, G)
    BY <1>19, MeaningIs
  <2> HIDE DEF m, k
  <2>2. \A f \in Live(w, G) \ {e} : m[f] = k[f]
    BY <1>24 DEF m, k
  <2>3. m = Gone(k, {e})
    BY <2>1, <2>2 DEF Gone, Only, IsMap
  <2>4. QED
    BY <2>3 DEF m, k
<1>26. u.loc[e.idx] = w.loc[e.idx]
  BY <1>1, <1>7, <1>9
<1>27. ASSUME NEW f \in Live(w, G), w.loc[f.idx].row <= r
       PROVE  u.loc[f.idx] = w.loc[f.idx]
  <2>1. f \in H /\ IsAlive(w, f)
    BY DEF Live, Located
  <2>2. f # moved \/ ~(r < last)
    <3>1. w.loc[moved.idx].row = last
      BY <1>2, <1>6, PlaceIs
    <3>2. QED
      BY <1>2, <1>27, <3>1
  <2>3. QED
    BY <1>9, <2>1, <2>2
<1>28. QED
  BY <1>19, <1>23, <1>25, <1>26, <1>27 DEF r, LowerStay, Plus, Minus

-----------------------------------------------------------------------------
(* The sparse set.                                                         *)
OtherSparse(w, u) ==
  /\ u \in Worlds /\ u.tick = w.tick /\ u.gens = w.gens /\ u.free = w.free
  /\ u.loc = w.loc /\ u.archs = w.archs

LEMMA SparseFit ==
  ASSUME NEW w, NEW G, Fit(w, G), NEW u, OtherSparse(w, u), SparseFits(u)
  PROVE  /\ Fit(u, G) /\ Live(u, G) = Live(w, G) /\ \A e : Row(u, e) = Row(w, e)
         /\ \A e : Located(u, e) <=> Located(w, e)
<1>1. /\ u \in Worlds /\ u.tick = w.tick /\ u.gens = w.gens /\ u.free = w.free
      /\ u.loc = w.loc /\ u.archs = w.archs
  BY DEF OtherSparse
<1>2. Columns(w) /\ RowsFound(w, G) /\ LocationsHold(w, G) /\ FreeUnplaced(w)
  BY DEF Fit
<1>3. \A e : Located(u, e) <=> Located(w, e)
  BY <1>1 DEF Located, IsAlive, IsPlaced
<1>4. Columns(u) /\ FreeUnplaced(u)
  BY <1>1, <1>2 DEF Columns, FreeUnplaced
<1>5. RowsFound(u, G)
  <2>1. \A e, a, r : FoundAt(w, e, a, r) => FoundAt(u, e, a, r)
    BY <1>1 DEF FoundAt
  <2>2. QED
    BY <1>1, <1>2, <2>1 DEF RowsFound
<1>6. LocationsHold(u, G)
  BY Zenon, <1>1, <1>2, <1>3 DEF LocationsHold, Stored, StoredAt
<1>7. Live(u, G) = Live(w, G) /\ \A e : Row(u, e) = Row(w, e)
  BY <1>1, <1>3 DEF Live, Row, ArchAt
<1>8. QED
  BY <1>1, <1>3, <1>4, <1>5, <1>6, <1>7 DEF Fit

(* The same sparse value for an entity.                                    *)
SameValue(w, u, e) ==
  \/ DenseIndex(w, e) = None /\ DenseIndex(u, e) = None
  \/ DenseIndex(w, e) # None /\ DenseIndex(u, e) # None
     /\ w.dense[DenseIndex(w, e)].val = u.dense[DenseIndex(u, e)].val

LEMMA SameValueOver ==
  ASSUME NEW w, NEW u, NEW e, SameValue(w, u, e), NEW vals
  PROVE  Over(u, e, vals) = Over(w, e, vals)
  BY DEF SameValue, Over

LEMMA SparseRemovedKeeps ==
  ASSUME NEW w, NEW G, Fit(w, G), NEW e \in H
  PROVE  /\ OtherSparse(w, SparseRemoved(w, e)) /\ SparseFits(SparseRemoved(w, e))
         /\ DenseIndex(SparseRemoved(w, e), e) = None
         /\ \A f \in H \ {e} : SameValue(w, SparseRemoved(w, e), f)
<1> DEFINE d == DenseIndex(w, e)
           n == Len(w.dense)
           moved == w.dense[n].ent
           u == SparseRemoved(w, e)
           dense == SwappedOut(w.dense, d)
           pages == [w.pages EXCEPT ![e.idx] = None]
           moves == [pages EXCEPT ![moved.idx] = d]
<1>1. w \in Worlds /\ SparseFits(w)
  BY DEF Fit
<1>2. CASE d = None
  <2>1. u = w
    BY <1>2 DEF SparseRemoved
  <2>2. \A f \in H : SameValue(w, u, f)
    BY <2>1 DEF SameValue
  <2> HIDE DEF u
  <2>3. QED
    BY <1>1, <1>2, <2>1, <2>2 DEF OtherSparse, u
<1>3. CASE d # None
  <2>1. /\ d \in 1 .. n /\ n \in Nat /\ w.dense[d].ent = e /\ w.pages[e.idx] = d
        /\ DOMAIN w.dense = 1 .. n /\ w.dense \in Seq([ent : H, val : V])
        /\ w.pages \in [Slots -> {None} \cup (Nat \ {0})] /\ e.idx \in Slots
    <3>1. d \in DOMAIN w.dense /\ w.dense[d].ent = e /\ w.pages[e.idx] = d
      BY <1>1, <1>3, DenseIs
    <3> HIDE DEF d
    <3>2. /\ DOMAIN w.dense = 1 .. n /\ n \in Nat /\ w.dense \in Seq([ent : H, val : V])
          /\ w.pages \in [Slots -> {None} \cup (Nat \ {0})] /\ e.idx \in Slots
      BY <1>1, WorldFields, HandleIs
    <3>3. QED
      BY <3>1, <3>2
  <2>2. moved \in H /\ moved.idx \in Slots /\ w.pages[moved.idx] = n
    <3>1. n \in DOMAIN w.dense
      BY <2>1
    <3>2. w.dense[n].ent \in H
      BY <1>1, <3>1, WorldFields
    <3>3. QED
      BY <1>1, <3>1, <3>2, HandleIs DEF SparseFits
  <2>3. /\ dense \in Seq([ent : H, val : V]) /\ DOMAIN dense = 1 .. n - 1
        /\ \A j \in 1 .. n - 1 : j # d => dense[j] = w.dense[j]
        /\ d < n => dense[d] = w.dense[n]
    <3> DEFINE t == w.dense
               S == [ent : H, val : V]
    <3>1. t \in Seq(S) /\ d \in 1 .. Len(t) /\ n = Len(t) /\ dense = SwappedOut(t, d)
      BY <2>1
    <3> HIDE DEF d, t, S, dense
    <3>2. /\ dense \in Seq(S) /\ DOMAIN dense = 1 .. Len(t) - 1
          /\ \A j \in 1 .. Len(t) - 1 : j # d => dense[j] = t[j]
          /\ d < Len(t) => dense[d] = t[Len(t)]
      BY <3>1, SwapOutIs
    <3>3. QED
      BY <3>1, <3>2 DEF t, S
  <2>4. /\ d = n => u = [w EXCEPT !.pages = pages, !.dense = dense]
        /\ d # n => u = [w EXCEPT !.pages = moves, !.dense = dense]
    <3> DEFINE cut == [w EXCEPT !.pages = pages, !.dense = dense]
    <3>1. [w EXCEPT !.pages[e.idx] = None,
                    !.dense = Front(ReplaceAt(@, d, w.dense[n]))] = cut
      BY DEF SwappedOut
    <3>2. cut.pages = pages
      BY <1>1 DEF Worlds
    <3>3. d # n => u = [cut EXCEPT !.pages[moved.idx] = d]
      BY <1>3, <3>1 DEF SparseRemoved
    <3>4. d = n => u = cut
      BY <1>3, <3>1 DEF SparseRemoved
    <3>5. [cut EXCEPT !.pages[moved.idx] = d] = [cut EXCEPT !.pages = [cut.pages EXCEPT ![moved.idx] = d]]
      OBVIOUS
    <3> HIDE DEF dense, pages, d, moved, n, u
    <3>6. [cut EXCEPT !.pages = [cut.pages EXCEPT ![moved.idx] = d]]
            = [w EXCEPT !.pages = moves, !.dense = dense]
      BY <3>2
    <3>7. QED
      BY <3>3, <3>4, <3>5, <3>6
  <2> HIDE DEF d, n, moved, dense, u
  <2>5. /\ pages \in [Slots -> {None} \cup (Nat \ {0})]
        /\ pages[e.idx] = None /\ \A s \in Slots : s # e.idx => pages[s] = w.pages[s]
    BY <2>1
  <2> HIDE DEF pages
  <2>6. /\ moves \in [Slots -> {None} \cup (Nat \ {0})]
        /\ moves[moved.idx] = d /\ \A s \in Slots : s # moved.idx => moves[s] = pages[s]
    BY <2>1, <2>2, <2>5
  <2> HIDE DEF moves
  <2>7. /\ u.dense = dense /\ OtherSparse(w, u)
        /\ d = n => u.pages = pages
        /\ d # n => u.pages = moves
    <3>1. CASE d = n
      <4>1. u = [w EXCEPT !.pages = pages, !.dense = dense]
        BY <2>4, <3>1
      <4>2. u \in Worlds
        BY <1>1, <2>3, <2>5, <4>1, SparseReplaced
      <4>3. QED
        BY <1>1, <3>1, <4>1, <4>2 DEF Worlds, OtherSparse
    <3>2. CASE d # n
      <4>1. u = [w EXCEPT !.pages = moves, !.dense = dense]
        BY <2>4, <3>2
      <4>2. u \in Worlds
        BY <1>1, <2>3, <2>6, <4>1, SparseReplaced
      <4>3. QED
        BY <1>1, <3>2, <4>1, <4>2 DEF Worlds, OtherSparse
    <3>3. QED
      BY <3>1, <3>2
  <2>8. ASSUME NEW j \in 1 .. n, j # d
        PROVE  /\ w.dense[j].ent.idx \in Slots /\ w.dense[j].ent.idx # e.idx
               /\ w.pages[w.dense[j].ent.idx] = j /\ Located(w, w.dense[j].ent)
               /\ w.dense[j].ent \in H
    <3>1. w.pages[w.dense[j].ent.idx] = j /\ w.dense[j].ent \in H /\ Located(w, w.dense[j].ent)
      BY <1>1, <2>1, WorldFields DEF SparseFits
    <3>2. QED
      BY <2>1, <2>8, <3>1, HandleIs
  (* Where the entries are now. *)
  <2>9. ASSUME NEW j \in 1 .. n, j # d
        PROVE  \E i \in DOMAIN dense : dense[i] = w.dense[j] /\ (i = j \/ (j = n /\ i = d /\ d # n))
    <3>1. CASE j # n
      BY <2>1, <2>3, <2>9, <3>1
    <3>2. CASE j = n
      <4>1. d < n /\ d \in 1 .. n - 1
        BY <2>1, <2>9, <3>2
      <4>2. QED
        BY <2>1, <2>3, <3>2, <4>1
    <3>3. QED
      BY <3>1, <3>2
  <2>10. ASSUME NEW i \in DOMAIN dense
         PROVE  \E j \in 1 .. n : j # d /\ dense[i] = w.dense[j] /\ (i = j \/ (j = n /\ i = d /\ d # n))
    <3>1. CASE i # d
      BY <2>1, <2>3, <3>1
    <3>2. CASE i = d
      <4>1. d < n
        BY <2>1, <2>3, <3>2
      <4>2. n \in 1 .. n /\ n # d /\ dense[i] = w.dense[n]
        BY <2>1, <2>3, <3>2, <4>1
      <4>3. QED
        BY <3>2, <4>2
    <3>3. QED
      BY <3>1, <3>2
  <2>11. u \in Worlds /\ u.gens = w.gens /\ u.loc = w.loc
    BY <2>7 DEF OtherSparse
  <2>12. SparseFits(u)
    <3> SUFFICES ASSUME NEW i \in DOMAIN dense
                 PROVE  Located(u, dense[i].ent) /\ u.pages[dense[i].ent.idx] = i
      BY <2>7 DEF SparseFits
    <3>1. PICK j \in 1 .. n :
            j # d /\ dense[i] = w.dense[j] /\ (i = j \/ (j = n /\ i = d /\ d # n))
      BY <2>10
    <3> DEFINE x == w.dense[j].ent
    <3>2. x.idx \in Slots /\ x.idx # e.idx /\ w.pages[x.idx] = j /\ Located(w, x)
      BY <2>8, <3>1
    <3>3. j = n => x = moved
      BY DEF moved
    <3> HIDE DEF x
    <3>4. Located(u, x)
      BY <2>11, <3>2 DEF Located, IsAlive, IsPlaced
    <3>5. pages[x.idx] = j
      BY <2>5, <3>2
    <3>6. u.pages[x.idx] = i
      <4>1. CASE j = n /\ d # n
        <5>1. i = d
          BY <2>1, <2>3, <3>1, <4>1
        <5>2. QED
          BY <2>6, <2>7, <3>3, <4>1, <5>1
      <4>2. CASE j # n
        <5>1. i = j /\ x.idx # moved.idx
          BY <2>2, <3>1, <3>2, <4>2
        <5>2. QED
          BY <2>6, <2>7, <3>2, <3>5, <5>1
      <4>3. CASE j = n /\ d = n
        BY <3>1, <4>3
      <4>4. QED
        BY <4>1, <4>2, <4>3
    <3>7. QED
      BY <3>1, <3>4, <3>6 DEF x
  <2>13. DenseIndex(u, e) = None
    <3> SUFFICES ASSUME DenseIndex(u, e) # None
                 PROVE  FALSE
      OBVIOUS
    <3>1. DenseIndex(u, e) \in DOMAIN u.dense /\ u.dense[DenseIndex(u, e)].ent = e
      BY <2>11, <2>12, DenseIs
    <3>2. PICK j \in 1 .. n : j # d /\ w.dense[j].ent = e
      BY <2>7, <2>10, <3>1
    <3>3. QED
      BY <2>8, <3>2
  <2>14. ASSUME NEW f \in H, f # e
         PROVE  SameValue(w, u, f)
    <3>1. CASE DenseIndex(w, f) # None
      <4>1. PICK j \in 1 .. n : j = DenseIndex(w, f) /\ w.dense[j].ent = f
        BY <1>1, <2>1, <3>1, DenseIs
      <4>2. j # d
        BY <2>1, <2>14, <4>1
      <4>3. PICK i \in DOMAIN dense : dense[i] = w.dense[j]
        BY <2>9, <4>2
      <4>4. DenseIndex(u, f) = i
        <5>1. i \in DOMAIN u.dense /\ u.dense[i].ent = f
          BY <2>7, <4>1, <4>3
        <5>2. QED
          BY <2>11, <2>12, <5>1, DenseIs
      <4>5. i # None
        BY <2>1, <2>3, WorldAssumption
      <4>6. QED
        BY <2>7, <3>1, <4>1, <4>3, <4>4, <4>5 DEF SameValue
    <3>2. CASE DenseIndex(w, f) = None
      <4>1. ASSUME DenseIndex(u, f) # None
            PROVE  FALSE
        <5>1. DenseIndex(u, f) \in DOMAIN u.dense /\ u.dense[DenseIndex(u, f)].ent = f
          BY <2>11, <2>12, <4>1, DenseIs
        <5>2. PICK j \in 1 .. n : w.dense[j].ent = f
          BY <2>7, <2>10, <5>1
        <5>3. DenseIndex(w, f) = j
          BY <1>1, <2>1, <5>2, DenseIs
        <5>4. j # None
          BY WorldAssumption
        <5>5. QED
          BY <3>2, <5>3, <5>4
      <4>2. QED
        BY <3>2, <4>1 DEF SameValue
    <3>3. QED
      BY <3>1, <3>2
  <2>15. QED
    BY <2>7, <2>12, <2>13, <2>14 DEF u
<1>4. QED
  BY <1>2, <1>3

LEMMA SparseInsertedKeeps ==
  ASSUME NEW w, NEW G, Fit(w, G), NEW e \in H, Located(w, e), NEW v \in V
  PROVE  /\ OtherSparse(w, SparseInserted(w, e, v)) /\ SparseFits(SparseInserted(w, e, v))
         /\ DenseIndex(SparseInserted(w, e, v), e) # None
         /\ SparseInserted(w, e, v).dense[DenseIndex(SparseInserted(w, e, v), e)].val = v
         /\ \A f \in H \ {e} : SameValue(w, SparseInserted(w, e, v), f)
<1> DEFINE d == DenseIndex(w, e)
           n == Len(w.dense)
           entry == [ent |-> e, val |-> v]
           S == [ent : H, val : V]
           t == w.dense
           u == SparseInserted(w, e, v)
<1>1. w \in Worlds /\ SparseFits(w)
  BY DEF Fit
<1>2. /\ n \in Nat /\ DOMAIN t = 1 .. n /\ t \in Seq(S)
      /\ w.pages \in [Slots -> {None} \cup (Nat \ {0})] /\ e.idx \in Slots
      /\ entry \in S /\ entry.ent = e /\ entry.val = v /\ None \notin Nat
      /\ \A j \in 1 .. n : t[j].ent \in H
  <2>1. /\ n \in Nat /\ DOMAIN t = 1 .. n /\ t \in Seq(S)
        /\ \A j \in DOMAIN t : t[j].ent \in H
        /\ w.pages \in [Slots -> {None} \cup (Nat \ {0})] /\ e.idx \in Slots
    BY <1>1, WorldFields, HandleIs
  <2>2. entry \in S /\ entry.ent = e /\ entry.val = v
    OBVIOUS
  <2>3. None \notin Nat
    BY WorldAssumption
  <2> HIDE DEF entry, S, t, n
  <2>4. QED
    BY <2>1, <2>2, <2>3
(* The i-th entry now is entry i of a world before, or the new one.        *)
<1>3. \E i \in Nat :
        /\ i \in DOMAIN u.dense /\ u.dense[i] = entry /\ OtherSparse(w, u)
        /\ \A j \in DOMAIN u.dense : j # i => j \in DOMAIN t /\ u.dense[j] = t[j] /\ t[j].ent # e
        /\ \A j \in DOMAIN t : t[j].ent # e => j \in DOMAIN u.dense /\ u.dense[j] = t[j]
        /\ \A s \in Slots : s # e.idx => u.pages[s] = w.pages[s]
        /\ u.pages[e.idx] = i
  <2>1. CASE d # None
    <3>1. d \in DOMAIN t /\ t[d].ent = e /\ w.pages[e.idx] = d
      BY <1>1, <2>1, DenseIs
    <3> DEFINE dense == ReplaceAt(t, d, entry)
    <3>2. u = [w EXCEPT !.dense = dense]
      BY <2>1 DEF SparseInserted
    <3>3. \A j \in DOMAIN t : t[j].ent = e => j = d
      BY <1>1, DenseIs
    <3> HIDE DEF d, entry, t, S
    <3>4. /\ dense \in Seq(S) /\ DOMAIN dense = DOMAIN t /\ dense[d] = entry
          /\ \A j \in DOMAIN t : j # d => dense[j] = t[j]
      BY <1>2, <3>1 DEF ReplaceAt
    <3> HIDE DEF dense
    <3>5. u \in Worlds
      <4>1. w.pages \in [Slots -> {None} \cup (Nat \ {0})]
        BY <1>2
      <4>2. [w EXCEPT !.pages = w.pages, !.dense = dense] \in Worlds
        BY <1>1, <3>4, <4>1, SparseReplaced DEF S
      <4>3. u = [w EXCEPT !.pages = w.pages, !.dense = dense]
        BY <1>1, <3>2 DEF Worlds
      <4>4. QED
        BY <4>2, <4>3
    <3>6. OtherSparse(w, u) /\ u.dense = dense /\ u.pages = w.pages
      BY <1>1, <3>2, <3>5 DEF Worlds, OtherSparse
    <3>7. d \in Nat
      BY <1>2, <3>1
    <3> HIDE DEF u
    <3>8. QED
      BY <3>1, <3>3, <3>4, <3>6, <3>7
  <2>2. CASE d = None
    <3> DEFINE dense == Append(t, entry)
               pages == [w.pages EXCEPT ![e.idx] = n + 1]
    <3>1. u = [w EXCEPT !.pages = pages, !.dense = dense]
      BY <2>2 DEF SparseInserted
    <3>2. \A j \in DOMAIN t : t[j].ent # e
      BY <1>1, <1>2, <2>2, DenseIs
    <3>3. pages \in [Slots -> {None} \cup (Nat \ {0})] /\ pages[e.idx] = n + 1
          /\ \A s \in Slots : s # e.idx => pages[s] = w.pages[s]
      BY <1>2
    <3>4. /\ dense \in Seq(S) /\ DOMAIN dense = 1 .. n + 1 /\ dense[n + 1] = entry
          /\ \A j \in 1 .. n : dense[j] = t[j]
      <4> HIDE DEF entry, S
      <4>1. QED
        BY <1>2, AppendIs
    <3> HIDE DEF pages, dense, entry, d, n, u
    <3>5. u \in Worlds
      BY <1>1, <3>1, <3>3, <3>4, SparseReplaced, Zenon DEF S
    <3>6. OtherSparse(w, u) /\ u.dense = dense /\ u.pages = pages
      BY <1>1, <3>1, <3>5 DEF Worlds, OtherSparse
    <3> HIDE DEF t
    <3>7. QED
      BY <1>2, <3>2, <3>3, <3>4, <3>6
  <2>3. QED
    BY <2>1, <2>2
<1> HIDE DEF u, entry, d
<1>4. PICK i \in Nat :
        /\ i \in DOMAIN u.dense /\ u.dense[i] = entry /\ OtherSparse(w, u)
        /\ \A j \in DOMAIN u.dense : j # i => j \in DOMAIN t /\ u.dense[j] = t[j] /\ t[j].ent # e
        /\ \A j \in DOMAIN t : t[j].ent # e => j \in DOMAIN u.dense /\ u.dense[j] = t[j]
        /\ \A s \in Slots : s # e.idx => u.pages[s] = w.pages[s]
        /\ u.pages[e.idx] = i
  BY <1>3
<1>5. u \in Worlds /\ u.gens = w.gens /\ u.loc = w.loc
  BY <1>4 DEF OtherSparse
<1>6. \A f : Located(w, f) <=> Located(u, f)
  BY <1>5 DEF Located, IsAlive, IsPlaced
<1>7. SparseFits(u)
  <2> SUFFICES ASSUME NEW j \in DOMAIN u.dense
               PROVE  Located(u, u.dense[j].ent) /\ u.pages[u.dense[j].ent.idx] = j
    BY DEF SparseFits
  <2>1. CASE j = i
    BY <1>2, <1>4, <1>6, <2>1
  <2>2. CASE j # i
    <3> DEFINE x == t[j].ent
    <3>1. j \in DOMAIN t /\ u.dense[j] = t[j] /\ x # e
      BY <1>4, <2>2
    <3>2. Located(w, x) /\ w.pages[x.idx] = j /\ x \in H
      BY <1>1, <1>2, <3>1 DEF SparseFits
    <3> HIDE DEF x
    <3>3. x.idx # e.idx /\ x.idx \in Slots
      BY <3>1, <3>2, OneAlive, HandleIs DEF Located
    <3>4. QED
      BY <1>4, <1>6, <3>1, <3>2, <3>3 DEF x
  <2>3. QED
    BY <2>1, <2>2
<1>8. DenseIndex(u, e) = i /\ i # None
  <2>1. u.dense[i].ent = e
    BY <1>2, <1>4
  <2>2. QED
    BY <1>2, <1>4, <1>5, <1>7, <2>1, DenseIs
<1>9. ASSUME NEW f \in H, f # e
      PROVE  SameValue(w, u, f)
  <2>1. CASE DenseIndex(w, f) # None
    <3> DEFINE j == DenseIndex(w, f)
    <3>1. j \in DOMAIN t /\ t[j].ent = f
      BY <1>1, <2>1, DenseIs
    <3> HIDE DEF j
    <3>2. j \in DOMAIN u.dense /\ u.dense[j] = t[j]
      BY <1>4, <1>9, <3>1
    <3>3. DenseIndex(u, f) = j
      BY <1>5, <1>7, <3>1, <3>2, DenseIs
    <3>4. QED
      BY <2>1, <3>2, <3>3 DEF SameValue, j
  <2>2. CASE DenseIndex(w, f) = None
    <3>1. ASSUME DenseIndex(u, f) # None
          PROVE  FALSE
      <4> DEFINE j == DenseIndex(u, f)
      <4>1. j \in DOMAIN u.dense /\ u.dense[j].ent = f
        BY <1>5, <1>7, <3>1, DenseIs
      <4> HIDE DEF j
      <4>2. j # i
        BY <1>2, <1>4, <1>9, <4>1
      <4>3. j \in DOMAIN t /\ t[j].ent = f
        BY <1>4, <4>1, <4>2
      <4>4. DenseIndex(w, f) = j /\ j \in Nat
        BY <1>1, <1>2, <4>3, DenseIs
      <4>5. QED
        BY <1>2, <2>2, <4>4
    <3>2. QED
      BY <2>2, <3>1 DEF SameValue
  <2>3. QED
    BY <2>1, <2>2
<1>10. u.dense[DenseIndex(u, e)].val = v
  BY <1>2, <1>4, <1>8
<1>11. QED
  BY <1>4, <1>7, <1>8, <1>9, <1>10 DEF u

-----------------------------------------------------------------------------
(* The slots of entities without rows and sparse values are freed.         *)
LEMMA DeallocKeeps ==
  ASSUME NEW w, NEW G, Fit(w, G), \A e \in G : e \in H /\ Located(w, e) /\ DenseIndex(w, e) = None
  PROVE  /\ Fit(DeallocAll(w, G), {}) /\ Live(DeallocAll(w, G), {}) = Live(w, G)
         /\ Meaning(DeallocAll(w, G), {}) = Meaning(w, G)
<1> DEFINE dead == {e.idx : e \in G}
           loc == [s \in Slots |-> IF s \in dead THEN None ELSE w.loc[s]]
           gens == [s \in Slots |-> IF s \in dead THEN w.gens[s] + 1 ELSE w.gens[s]]
           u == [w EXCEPT !.loc = loc, !.gens = gens, !.free = w.free \cup dead]
<1>1. DeallocAll(w, G) = u
  BY DEF DeallocAll
<1>2. w \in Worlds /\ Columns(w) /\ RowsFound(w, G) /\ LocationsHold(w, G) /\ FreeUnplaced(w)
      /\ SparseFits(w)
  BY DEF Fit
<1>3. dead \subseteq Slots /\ w.gens \in [Slots -> Nat] /\ w.loc \in [Slots -> {None} \cup Place]
      /\ w.free \subseteq Slots
  BY <1>2, HandleIs, WorldFields
<1>4. /\ loc \in [Slots -> {None} \cup Place] /\ gens \in [Slots -> Nat]
      /\ (w.free \cup dead) \in SUBSET Slots
      /\ \A s \in Slots : s \in dead => loc[s] = None /\ gens[s] = w.gens[s] + 1
      /\ \A s \in Slots : s \notin dead => loc[s] = w.loc[s] /\ gens[s] = w.gens[s]
  BY <1>3
<1> HIDE DEF loc, gens
<1>5. /\ u \in Worlds /\ u.tick = w.tick /\ u.archs = w.archs /\ u.loc = loc /\ u.gens = gens
      /\ u.free = w.free \cup dead /\ u.pages = w.pages /\ u.dense = w.dense
  BY <1>2, <1>4 DEF Worlds
<1>6. ASSUME NEW f \in H, Located(w, f), f.idx \in dead
      PROVE  f \in G
  <2>1. PICK e \in G : e.idx = f.idx
    BY <1>6
  <2>2. e = f
    BY <1>6, <2>1, OneAlive DEF Located
  <2>3. QED
    BY <2>2
<1>17. \A f \in G : f.idx \in dead
  OBVIOUS
<1> HIDE DEF u, dead
<1>7. ASSUME NEW f \in H
      PROVE  /\ Located(u, f) <=> Located(w, f) /\ f \notin G
             /\ Located(u, f) => u.loc[f.idx] = w.loc[f.idx] /\ u.gens[f.idx] = w.gens[f.idx]
  <2>1. f.idx \in Slots
    BY HandleIs
  <2>2. CASE f.idx \in dead
    BY <1>4, <1>5, <1>6, <2>1, <2>2 DEF Located, IsPlaced
  <2>3. CASE f.idx \notin dead
    <3>1. f \notin G
      BY <1>17, <2>3
    <3>2. u.loc[f.idx] = w.loc[f.idx] /\ u.gens[f.idx] = w.gens[f.idx]
      BY <1>4, <1>5, <2>1, <2>3
    <3>3. QED
      BY <3>1, <3>2 DEF Located, IsPlaced, IsAlive
  <2>4. QED
    BY <2>2, <2>3
<1>8. Columns(u)
  BY <1>2, <1>5 DEF Columns
<1>9. RowsFound(u, {})
  <2> SUFFICES ASSUME NEW a \in DOMAIN w.archs, NEW r \in DOMAIN w.archs[a].rows
               PROVE  FoundAt(u, w.archs[a].rows[r].ent, a, r)
    BY <1>5 DEF RowsFound
  <2> DEFINE f == w.archs[a].rows[r].ent
  <2>1. f \in Live(w, G) /\ FoundAt(w, f, a, r)
    BY <1>2, RowIsLive DEF RowsFound
  <2> HIDE DEF f
  <2>2. f \in H /\ Located(w, f) /\ f \notin G
    BY <2>1 DEF Live
  <2>3. FoundAt(u, f, a, r)
    BY <1>7, <2>1, <2>2 DEF FoundAt
  <2>4. QED
    BY <2>3 DEF f
<1>10. LocationsHold(u, {})
  <2> SUFFICES ASSUME NEW f \in H, Located(u, f)
               PROVE  Stored(u, f)
    BY DEF LocationsHold
  <2>1. Stored(w, f) /\ u.loc[f.idx] = w.loc[f.idx]
    BY <1>2, <1>7 DEF LocationsHold
  <2>2. QED
    BY Zenon, <1>5, <2>1 DEF Stored, StoredAt
<1>11. FreeUnplaced(u)
  <2> SUFFICES ASSUME NEW s \in w.free \cup dead
               PROVE  loc[s] = None
    BY <1>5 DEF FreeUnplaced
  <2>1. s \in Slots
    BY <1>3
  <2>2. QED
    BY <1>2, <1>4, <2>1 DEF FreeUnplaced
<1>12. SparseFits(u)
  <2> SUFFICES ASSUME NEW d \in DOMAIN w.dense
               PROVE  Located(u, w.dense[d].ent) /\ u.pages[w.dense[d].ent.idx] = d
    BY <1>5 DEF SparseFits
  <2> DEFINE x == w.dense[d].ent
  <2>1. x \in H /\ Located(w, x) /\ w.pages[x.idx] = d
    BY <1>2, WorldFields DEF SparseFits
  <2>2. DenseIndex(w, x) = d
    BY <1>2, <2>1, DenseIs
  <2>3. d \in Nat /\ d # None
    BY <1>2, WorldFields, WorldAssumption
  <2> HIDE DEF x
  <2>4. x \notin G
    BY <2>2, <2>3
  <2>5. QED
    BY <1>5, <1>7, <2>1, <2>4 DEF x
<1>13. Live(u, {}) = Live(w, G)
  BY <1>7 DEF Live
<1>14. ASSUME NEW f \in Live(w, G)
       PROVE  Over(u, f, Row(u, f).vals) = Over(w, f, Row(w, f).vals)
  <2>1. f \in H /\ Located(w, f) /\ f \notin G
    BY DEF Live
  <2>2. u.loc[f.idx] = w.loc[f.idx]
    BY <1>7, <2>1
  <2>3. Row(u, f) = Row(w, f)
    BY <1>5, <2>2 DEF Row, ArchAt
  <2>4. QED
    BY <1>5, <2>3, SameSparse
<1>15. Meaning(u, {}) = Meaning(w, G)
  BY <1>13, <1>14, SameMeaning
<1>16. QED
  BY <1>1, <1>5, <1>8, <1>9, <1>10, <1>11, <1>12, <1>13, <1>15 DEF Fit

-----------------------------------------------------------------------------
(* Operations on entities.                                                 *)
Steady(w, u) == u.gens = w.gens /\ u.free = w.free /\ u.tick = w.tick

LEMMA TickKeeps ==
  ASSUME NEW w, NEW G, Fit(w, G)
  PROVE  /\ Fit(NextTick(w), G) /\ Live(NextTick(w), G) = Live(w, G)
         /\ Meaning(NextTick(w), G) = Meaning(w, G)
         /\ NextTick(w).tick = w.tick + 1 /\ w.tick \in Nat /\ NextTick(w).gens = w.gens
         /\ NextTick(w).free = w.free /\ NextTick(w).loc = w.loc /\ NextTick(w).archs = w.archs
         /\ NextTick(w).pages = w.pages /\ NextTick(w).dense = w.dense
<1> DEFINE u == NextTick(w)
<1>1. w \in Worlds /\ Columns(w) /\ RowsFound(w, G) /\ LocationsHold(w, G) /\ FreeUnplaced(w)
      /\ SparseFits(w)
  BY DEF Fit
<1>2. /\ u \in Worlds /\ u.tick = w.tick + 1 /\ u.gens = w.gens /\ u.free = w.free
      /\ u.loc = w.loc /\ u.archs = w.archs /\ u.pages = w.pages /\ u.dense = w.dense
      /\ w.tick \in Nat
  <2> DEFINE n == w.tick + 1
  <2>1. u = [w EXCEPT !.tick = n]
    BY DEF NextTick
  <2>2. w.tick \in Nat /\ n \in Nat
    BY <1>1, WorldFields
  <2> HIDE DEF n, u
  <2>3. u \in Worlds /\ u.tick = n
    BY <1>1, <2>1, <2>2 DEF Worlds
  <2>4. /\ u.gens = w.gens /\ u.free = w.free /\ u.loc = w.loc /\ u.archs = w.archs
        /\ u.pages = w.pages /\ u.dense = w.dense
    BY <1>1, <2>1 DEF Worlds
  <2>5. QED
    BY <2>2, <2>3, <2>4 DEF n
<1> HIDE DEF u
<1>3. \A e : Located(u, e) <=> Located(w, e)
  BY <1>2 DEF Located, IsAlive, IsPlaced
<1>4. Columns(u)
  <2>1. \A a \in DOMAIN w.archs : \A c \in w.archs[a].ids :
          w.archs[a].ticks[c] <= w.tick /\ w.archs[a].ticks[c] \in Nat
    <3>1. \A a \in DOMAIN w.archs : w.archs[a].ticks \in On(Nat)
      BY <1>1, WorldFields
    <3>2. \A a \in DOMAIN w.archs : \A c \in DOMAIN w.archs[a].ticks : w.archs[a].ticks[c] \in Nat
      BY <3>1, OnIs
    <3>3. QED
      BY <1>1, <3>2 DEF Columns
  <2>2. QED
    BY <1>1, <1>2, <2>1 DEF Columns
<1>5. RowsFound(u, G)
  <2>1. \A e, a, r : FoundAt(w, e, a, r) => FoundAt(u, e, a, r)
    BY <1>2 DEF FoundAt
  <2>2. QED
    BY <1>1, <1>2, <2>1 DEF RowsFound
<1>6. LocationsHold(u, G) /\ FreeUnplaced(u)
  BY Zenon, <1>1, <1>2, <1>3 DEF LocationsHold, Stored, StoredAt, FreeUnplaced
<1>7. SparseFits(u)
  BY <1>1, <1>2, <1>3 DEF SparseFits
<1>8. Live(u, G) = Live(w, G)
  BY <1>3 DEF Live
<1>9. ASSUME NEW e \in Live(w, G)
      PROVE  Over(u, e, Row(u, e).vals) = Over(w, e, Row(w, e).vals)
  <2>1. Row(u, e) = Row(w, e)
    BY <1>2 DEF Row, ArchAt
  <2>2. QED
    BY <1>2, <2>1, SameSparse
<1>10. Meaning(u, G) = Meaning(w, G)
  BY <1>8, <1>9, SameMeaning
<1>11. QED
  BY <1>2, <1>4, <1>5, <1>6, <1>7, <1>8, <1>10 DEF Fit, u

LEMMA MapEq ==
  ASSUME NEW f, NEW g, IsMap(f), IsMap(g), DOMAIN f = DOMAIN g, \A x \in DOMAIN f : f[x] = g[x]
  PROVE  f = g
  BY DEF IsMap

(* A map after one entity is taken from it and given a value.              *)
LEMMA OverlayCut ==
  ASSUME NEW e, NEW x, NEW m
  PROVE  Overlay(Just(e, x), Gone(m, {e})) = Overlay(Just(e, x), m)
<1> DEFINE j == Just(e, x)
           k == Gone(m, {e})
<1>1. DOMAIN j = {e}
  BY JustIs
<1>2. DOMAIN k = DOMAIN m \ {e} /\ \A y \in DOMAIN m \ {e} : k[y] = m[y]
  BY DEF Only, Gone
<1> HIDE DEF j, k
<1>3. Overlay(j, k) = Overlay(j, m)
  BY <1>1, <1>2 DEF Overlay
<1>4. QED
  BY <1>3 DEF j, k

LEMMA PlacedKeeps ==
  ASSUME NEW w, Fit(w, {}), NEW e \in H, IsAlive(w, e), ~IsPlaced(w, e), e.idx \notin w.free,
         NEW vals \in On(V), NEW tick \in Nat, tick <= w.tick
  PROVE  /\ Fit(Placed(w, e, vals, tick), {}) /\ Steady(w, Placed(w, e, vals, tick))
         /\ Meaning(Placed(w, e, vals, tick), {}) = Given(Meaning(w, {}), e, vals)
<1> DEFINE D == DOMAIN vals
           grown == GetOrCreate(w, D)
           a == ArchOf(grown, D)
           pushed == Pushed(grown, a, e, vals)
           u == Marked(pushed, a, D, tick)
<1>1. Placed(w, e, vals, tick) = u
  BY DEF Placed
<1>2. w \in Worlds /\ D \in SUBSET Components
  BY OnIs DEF Fit
<1>3. GrownFor(w, grown, D)
  BY <1>2, GetOrCreateIs
<1>4. Fit(grown, {}) /\ Meaning(grown, {}) = Meaning(w, {}) /\ Live(grown, {}) = Live(w, {})
  BY <1>2, <1>3, GrowKeeps
<1>5. /\ a \in DOMAIN grown.archs /\ grown.archs[a].ids = D /\ grown \in Worlds
      /\ grown.gens = w.gens /\ grown.free = w.free /\ grown.tick = w.tick /\ grown.loc = w.loc
      /\ grown.pages = w.pages /\ grown.dense = w.dense
  BY <1>3 DEF GrownFor, SameRest
<1> HIDE DEF grown, a, D
<1>6. IsAlive(grown, e) /\ ~Located(grown, e) /\ e.idx \notin grown.free
  BY <1>5 DEF IsAlive, Located, IsPlaced
<1>7. PushedTo(grown, pushed, a, e, vals)
  BY <1>5, PushedIs
<1>8. /\ Fit(pushed, Minus({}, e))
      /\ Meaning(pushed, Minus({}, e)) = Overlay(Just(e, Over(grown, e, vals)), Meaning(grown, {}))
  BY <1>4, <1>5, <1>6, <1>7, PushKeeps DEF D
<1>9. Minus({}, e) = {}
  BY DEF Minus
<1>10. /\ pushed \in Worlds /\ a \in DOMAIN pushed.archs
       /\ pushed.tick = w.tick /\ pushed.gens = w.gens /\ pushed.free = w.free
  BY <1>5, <1>7 DEF PushedTo, SameArchs, SameRest
<1> HIDE DEF pushed
<1>11. MarkedFrom(pushed, u, {a}, D, tick)
  BY <1>10, MarkedIs
<1>12. Fit(u, {}) /\ Meaning(u, {}) = Meaning(pushed, {})
  BY <1>8, <1>9, <1>10, <1>11, MarkKeeps
<1>13. Steady(w, u)
  BY <1>10, <1>11 DEF MarkedFrom, SameRest, Steady
<1>14. Over(grown, e, vals) = vals
  <2>1. DenseIndex(grown, e) = None
    BY <1>4, <1>5, <1>6, DenseIs DEF Fit
  <2>2. QED
    BY <2>1, OverIs
<1>15. e \notin DOMAIN Meaning(w, {})
  BY <1>4, <1>6, MeaningIs DEF Live
<1>16. Meaning(u, {}) = Given(Meaning(w, {}), e, vals)
  BY <1>4, <1>8, <1>9, <1>12, <1>14, <1>15 DEF Given
<1>17. QED
  BY <1>1, <1>12, <1>13, <1>16

(* A row in the archetype of other components, and the old one cut: the    *)
(* same as the old one cut first.                                          *)
LEMMA MigratedKeeps ==
  ASSUME NEW w, Fit(w, {}), NEW e \in Live(w, {}), NEW vals \in On(V),
         DOMAIN vals # ArchAt(w, e).ids
  PROVE  /\ Fit(Migrated(w, e, vals), {}) /\ Steady(w, Migrated(w, e, vals))
         /\ Meaning(Migrated(w, e, vals), {}) = Overlay(Just(e, Over(w, e, vals)), Meaning(w, {}))
         /\ ArchOf(Migrated(w, e, vals), DOMAIN vals) \in DOMAIN Migrated(w, e, vals).archs
<1> DEFINE D == DOMAIN vals
           grown == GetOrCreate(w, D)
           t == ArchOf(grown, D)
           a == w.loc[e.idx].arch
           r == w.loc[e.idx].row
           pushed == Pushed(grown, t, e, vals)
           u == SwapRemoved(pushed, a, r)
           x == SwapRemoved(grown, a, r)
           last == Len(w.archs[a].rows)
           moved == w.archs[a].rows[last].ent
<1>1. Migrated(w, e, vals) = u
  BY DEF Migrated
<1>2. w \in Worlds /\ D \in SUBSET Components
  BY OnIs DEF Fit
<1>3. GrownFor(w, grown, D)
  BY <1>2, GetOrCreateIs
<1>4. Fit(grown, {}) /\ Meaning(grown, {}) = Meaning(w, {}) /\ Live(grown, {}) = Live(w, {})
  BY <1>2, <1>3, GrowKeeps
<1>5. /\ t \in DOMAIN grown.archs /\ grown.archs[t].ids = D /\ grown \in Worlds
      /\ grown.gens = w.gens /\ grown.free = w.free /\ grown.tick = w.tick /\ grown.loc = w.loc
      /\ grown.pages = w.pages /\ grown.dense = w.dense
      /\ DOMAIN w.archs \subseteq DOMAIN grown.archs
      /\ \A b \in DOMAIN w.archs : grown.archs[b] = w.archs[b]
  BY <1>3 DEF GrownFor, SameRest
<1>6. /\ e \in H /\ Located(w, e) /\ IsAlive(w, e) /\ e.idx \in Slots
      /\ a \in DOMAIN w.archs /\ r \in DOMAIN w.archs[a].rows /\ w.archs[a].rows[r].ent = e
      /\ ArchAt(w, e) = w.archs[a]
  <2>1. /\ e \in H /\ Located(w, e) /\ Stored(w, e) /\ ArchAt(w, e) = w.archs[a]
    BY LiveIs
  <2>2. QED
    BY <2>1, HandleIs DEF Located, Stored, StoredAt
<1> HIDE DEF grown, t, D
<1>7. t # a
  BY <1>5, <1>6 DEF D
<1> HIDE DEF a, r
<1>8. PushedTo(grown, pushed, t, e, vals)
  BY <1>5, <1>6, PushedIs
<1>9. /\ pushed \in Worlds /\ DOMAIN pushed.archs = DOMAIN grown.archs
      /\ pushed.tick = w.tick /\ pushed.gens = w.gens /\ pushed.free = w.free
      /\ pushed.pages = w.pages /\ pushed.dense = w.dense
      /\ pushed.loc = [w.loc EXCEPT ![e.idx] = [arch |-> t, row |-> Len(grown.archs[t].rows) + 1]]
      /\ pushed.archs[t].rows = Append(grown.archs[t].rows, [ent |-> e, vals |-> vals])
      /\ \A b \in DOMAIN grown.archs :
           /\ pushed.archs[b].ids = grown.archs[b].ids
           /\ pushed.archs[b].ticks = grown.archs[b].ticks
           /\ b # t => pushed.archs[b].rows = grown.archs[b].rows
  BY <1>5, <1>8 DEF PushedTo, SameArchs, SameRest
<1>10. /\ a \in DOMAIN grown.archs /\ grown.archs[a].rows = w.archs[a].rows
       /\ pushed.archs[a].rows = w.archs[a].rows
  BY <1>5, <1>6, <1>7, <1>9
<1> HIDE DEF pushed
<1>11. CutFrom(pushed, u, a, r)
  BY <1>6, <1>9, <1>10, SwapRemovedIs
<1>cut. CutFrom(grown, x, a, r)
  BY <1>5, <1>6, <1>10, SwapRemovedIs
<1> HIDE DEF u, x
<1>12. /\ u \in Worlds /\ DOMAIN u.archs = DOMAIN grown.archs
       /\ u.tick = w.tick /\ u.gens = w.gens /\ u.free = w.free
       /\ u.pages = w.pages /\ u.dense = w.dense
       /\ \A b \in DOMAIN grown.archs :
            /\ u.archs[b].ids = grown.archs[b].ids /\ u.archs[b].ticks = grown.archs[b].ticks
            /\ b # a => u.archs[b].rows = pushed.archs[b].rows
       /\ r < last => u.loc = [pushed.loc EXCEPT ![moved.idx] = [arch |-> a, row |-> r]]
       /\ ~(r < last) => u.loc = pushed.loc
       /\ DOMAIN u.archs[a].rows = 1 .. last - 1
       /\ \A j \in 1 .. last - 1 : j # r => u.archs[a].rows[j] = w.archs[a].rows[j]
       /\ r < last => u.archs[a].rows[r] = w.archs[a].rows[last]
  <2>1. Len(pushed.archs[a].rows) = last /\ pushed.archs[a].rows[last].ent = moved
    BY <1>10
  <2>2. /\ u \in Worlds /\ DOMAIN u.archs = DOMAIN grown.archs
        /\ u.tick = w.tick /\ u.gens = w.gens /\ u.free = w.free
        /\ u.pages = w.pages /\ u.dense = w.dense
    BY <1>9, <1>11 DEF CutFrom, SameArchs, SameRest
  <2>3. \A b \in DOMAIN grown.archs :
          /\ u.archs[b].ids = grown.archs[b].ids /\ u.archs[b].ticks = grown.archs[b].ticks
          /\ b # a => u.archs[b].rows = pushed.archs[b].rows
    BY <1>9, <1>11 DEF CutFrom, SameArchs
  <2>4. /\ r < last => u.loc = [pushed.loc EXCEPT ![moved.idx] = [arch |-> a, row |-> r]]
        /\ ~(r < last) => u.loc = pushed.loc
    <3> DEFINE k == Len(pushed.archs[a].rows)
               f == pushed.archs[a].rows[k].ent
    <3>1. /\ r < k => u.loc = [pushed.loc EXCEPT ![f.idx] = [arch |-> a, row |-> r]]
          /\ ~(r < k) => u.loc = pushed.loc
      BY <1>11 DEF CutFrom
    <3>2. k = last /\ f = moved
      BY <2>1
    <3> HIDE DEF k, f, last, moved
    <3>3. QED
      BY <3>1, <3>2
  <2>5. /\ DOMAIN u.archs[a].rows = 1 .. last - 1
        /\ \A j \in 1 .. last - 1 : j # r => u.archs[a].rows[j] = w.archs[a].rows[j]
        /\ r < last => u.archs[a].rows[r] = w.archs[a].rows[last]
    BY <1>10, <1>11, <2>1 DEF CutFrom
  <2>6. QED
    BY <2>2, <2>3, <2>4, <2>5
<1>13. /\ x \in Worlds /\ DOMAIN x.archs = DOMAIN grown.archs
       /\ x.tick = w.tick /\ x.gens = w.gens /\ x.free = w.free
       /\ x.pages = w.pages /\ x.dense = w.dense
       /\ \A b \in DOMAIN grown.archs :
            /\ x.archs[b].ids = grown.archs[b].ids /\ x.archs[b].ticks = grown.archs[b].ticks
            /\ b # a => x.archs[b].rows = grown.archs[b].rows
       /\ r < last => x.loc = [w.loc EXCEPT ![moved.idx] = [arch |-> a, row |-> r]]
       /\ ~(r < last) => x.loc = w.loc
       /\ DOMAIN x.archs[a].rows = 1 .. last - 1
       /\ \A j \in 1 .. last - 1 : j # r => x.archs[a].rows[j] = w.archs[a].rows[j]
       /\ r < last => x.archs[a].rows[r] = w.archs[a].rows[last]
  BY <1>5, <1>10, <1>cut DEF CutFrom, SameArchs, SameRest
<1>14. /\ last \in Nat /\ r \in 1 .. last /\ DOMAIN w.archs[a].rows = 1 .. last
       /\ a \in Nat /\ w.loc \in [Slots -> {None} \cup Place]
  <2>1. /\ DOMAIN w.archs[a].rows = 1 .. last /\ last \in Nat /\ DOMAIN w.archs = 1 .. Len(w.archs)
        /\ Len(w.archs) \in Nat /\ w.loc \in [Slots -> {None} \cup Place]
    BY <1>2, <1>6, WorldFields
  <2>2. QED
    BY <1>6, <2>1
<1>15. r < last => moved \in H /\ moved.idx # e.idx /\ moved.idx \in Slots
  <2> SUFFICES ASSUME r < last
               PROVE  moved \in H /\ moved.idx # e.idx
    BY HandleIs
  <2>1. last \in DOMAIN w.archs[a].rows
    BY <1>14
  <2>2. /\ moved \in Live(w, {}) /\ w.loc[moved.idx] = [arch |-> a, row |-> last]
    BY <1>6, <2>1, RowIsLive
  <2>3. moved \in H /\ w.loc[moved.idx].row = last
    BY <1>14, <2>2, PlaceIs DEF Live
  <2>4. w.loc[e.idx].row = r
    BY DEF r
  <2>5. QED
    BY <1>14, <2>3, <2>4
<1> HIDE DEF last, moved
<1>16. u.loc = [x.loc EXCEPT ![e.idx] = [arch |-> t, row |-> Len(x.archs[t].rows) + 1]]
  <2> DEFINE at == [arch |-> t, row |-> Len(x.archs[t].rows) + 1]
             to == [arch |-> a, row |-> r]
  <2>1. x.archs[t].rows = grown.archs[t].rows
    BY <1>5, <1>7, <1>13
  <2>2. pushed.loc = [w.loc EXCEPT ![e.idx] = at]
    BY <1>9, <2>1
  <2>3. /\ r < last => u.loc = [pushed.loc EXCEPT ![moved.idx] = to]
        /\ ~(r < last) => u.loc = pushed.loc
        /\ r < last => x.loc = [w.loc EXCEPT ![moved.idx] = to]
        /\ ~(r < last) => x.loc = w.loc
    BY <1>12, <1>13
  <2> SUFFICES u.loc = [x.loc EXCEPT ![e.idx] = at]
    OBVIOUS
  <2> HIDE DEF at, to
  <2>4. CASE r < last
    BY <1>6, <1>14, <1>15, <2>2, <2>3, <2>4
  <2>5. CASE ~(r < last)
    BY <2>2, <2>3, <2>5
  <2>6. QED
    BY <2>4, <2>5
<1>17. PushedTo(x, u, t, e, vals)
  <2>1. SameRest(x, u)
    BY <1>12, <1>13 DEF SameRest
  <2>2. u.archs[t].rows = Append(x.archs[t].rows, [ent |-> e, vals |-> vals])
    BY <1>5, <1>7, <1>9, <1>12, <1>13
  <2>3. SameArchs(x, u, t)
    <3>1. ASSUME NEW b \in DOMAIN x.archs, b # t
          PROVE  u.archs[b].rows = x.archs[b].rows
      <4>1. CASE b # a
        BY <1>9, <1>12, <1>13, <3>1, <4>1
      <4>2. CASE b = a
        <5>1. /\ u.archs[a].rows \in Seq(RowType) /\ x.archs[a].rows \in Seq(RowType)
          BY <1>10, <1>12, <1>13, WorldFields
        <5>2. \A j \in 1 .. last - 1 : u.archs[a].rows[j] = x.archs[a].rows[j]
          <6>1. \A j \in 1 .. last - 1 : j = r => r < last
            BY <1>14
          <6>2. QED
            BY <1>12, <1>13, <6>1
        <5>3. DOMAIN u.archs[a].rows = 1 .. last - 1 /\ DOMAIN x.archs[a].rows = 1 .. last - 1
          BY <1>12, <1>13
        <5> DEFINE p == u.archs[a].rows
                   q == x.archs[a].rows
        <5> HIDE DEF p, q
        <5>4. p = q
          <6>1. /\ p \in Seq(RowType) /\ q \in Seq(RowType) /\ DOMAIN p = DOMAIN q
                /\ \A j \in DOMAIN p : p[j] = q[j]
            BY <5>1, <5>2, <5>3 DEF p, q
          <6>2. Len(p) = Len(q) /\ DOMAIN p = 1 .. Len(p) /\ Len(p) \in Nat
            BY <6>1
          <6>3. QED
            BY <6>1, <6>2
        <5>5. QED
          BY <4>2, <5>4 DEF p, q
      <4>3. QED
        BY <4>1, <4>2
    <3>2. QED
      BY <1>12, <1>13, <3>1 DEF SameArchs
  <2>4. QED
    BY <1>12, <1>16, <2>1, <2>2, <2>3 DEF PushedTo
<1>18. /\ Fit(x, {e}) /\ Meaning(x, {e}) = Gone(Meaning(w, {}), {e})
  <2>1. e \in Live(grown, {}) /\ CutFrom(grown, x, grown.loc[e.idx].arch, grown.loc[e.idx].row)
    BY <1>4, <1>5, <1>cut DEF a, r
  <2>2. Fit(x, Plus({}, e))
    BY <1>4, <2>1, CutKeeps
  <2>3. Meaning(x, Plus({}, e)) = Gone(Meaning(grown, {}), {e})
    BY <1>4, <2>1, CutKeeps
  <2>4. Plus({}, e) = {e}
    BY DEF Plus
  <2>5. QED
    BY <1>4, <2>2, <2>3, <2>4
<1>19. /\ t \in DOMAIN x.archs /\ D = x.archs[t].ids /\ IsAlive(x, e) /\ e.idx \notin x.free
  <2>1. e.idx \notin w.free
    BY <1>6 DEF Fit, FreeUnplaced, Located, IsPlaced
  <2>2. QED
    BY <1>5, <1>6, <1>13, <2>1 DEF IsAlive
<1>20. /\ Fit(u, Minus({e}, e))
       /\ Meaning(u, Minus({e}, e)) = Overlay(Just(e, Over(x, e, vals)), Meaning(x, {e}))
  <2>1. e \in {e} /\ DOMAIN vals = x.archs[t].ids
    BY <1>19 DEF D
  <2>2. Fit(u, Minus({e}, e))
    BY <1>6, <1>17, <1>18, <1>19, <2>1, PushKeeps
  <2>3. Meaning(u, Minus({e}, e)) = Overlay(Just(e, Over(x, e, vals)), Meaning(x, {e}))
    BY <1>6, <1>17, <1>18, <1>19, <2>1, PushKeeps
  <2>4. QED
    BY <2>2, <2>3
<1>21. Over(x, e, vals) = Over(w, e, vals)
  BY <1>13, SameSparse
<1>22. Meaning(u, {}) = Overlay(Just(e, Over(w, e, vals)), Meaning(w, {}))
  <2>1. Minus({e}, e) = {}
    BY DEF Minus
  <2>2. QED
    BY <1>18, <1>20, <1>21, <2>1, OverlayCut
<1>23. Steady(w, u)
  BY <1>12 DEF Steady
<1>24. ArchOf(u, D) \in DOMAIN u.archs
  BY <1>5, <1>12 DEF ArchOf
<1>25. Fit(u, {})
  <2>1. Minus({e}, e) = {}
    BY DEF Minus
  <2>2. QED
    BY <1>20, <2>1
<1>26. QED
  BY <1>1, <1>22, <1>23, <1>24, <1>25 DEF D

LEMMA OverwrittenKeeps ==
  ASSUME NEW w, Fit(w, {}), NEW e \in Live(w, {}), NEW vals \in On(V), NEW u,
         DOMAIN vals \subseteq ArchAt(w, e).ids, NEW a, NEW r,
         InRow(w, e, a, r), u = Overwritten(w, a, r, vals)
  PROVE  /\ Fit(u, {}) /\ Steady(w, u) /\ u.loc = w.loc /\ SameRows(w, u)
         /\ Meaning(u, {}) = Given(Meaning(w, {}), e, vals)
<1>1. /\ w \in Worlds /\ a \in DOMAIN w.archs /\ r \in DOMAIN w.archs[a].rows
      /\ w.archs[a].rows[r].ent = e /\ ArchAt(w, e) = w.archs[a] /\ Row(w, e) = w.archs[a].rows[r]
      /\ Row(w, e).vals \in On(V) /\ DOMAIN Row(w, e).vals = w.archs[a].ids
  BY InRowIs
<1>2. /\ SameRows(w, u) /\ RowSet(w, u, a, r, vals)
  BY <1>1, OverwrittenIs
<1>3. \A f \in Live(w, {}) : InRow(w, f, a, r) => f = e
  BY OneInRow
<1>4. /\ \A b \in DOMAIN w.archs : \A q \in DOMAIN w.archs[b].rows :
           (b # a \/ q # r) => u.archs[b].rows[q].vals = w.archs[b].rows[q].vals
      /\ u.archs[a].rows[r].vals = Overlay(vals, w.archs[a].rows[r].vals)
  BY <1>2 DEF RowSet
<1>5. ColumnsFilled(w, u)
  <2> SUFFICES ASSUME NEW b \in DOMAIN w.archs, NEW q \in DOMAIN w.archs[b].rows
               PROVE  DOMAIN u.archs[b].rows[q].vals = w.archs[b].ids
    BY DEF ColumnsFilled
  <2>1. CASE b # a \/ q # r
    BY <1>4, <2>1 DEF Fit, Columns
  <2>2. CASE b = a /\ q = r
    <3>1. DOMAIN u.archs[a].rows[r].vals = DOMAIN vals \cup DOMAIN w.archs[a].rows[r].vals
      BY <1>4, OverlayIs
    <3>2. QED
      BY <1>1, <2>2, <3>1
  <2>3. QED
    BY <2>1, <2>2
<1>6. /\ Fit(u, {}) /\ Live(u, {}) = Live(w, {})
      /\ \A f \in Live(w, {}) : Meaning(u, {})[f] = Over(w, f, Row(u, f).vals)
  BY <1>2, <1>5, WriteKeeps, WriteMeans
<1>7. u.loc = w.loc /\ Steady(w, u) /\ DOMAIN u.archs = DOMAIN w.archs
  BY <1>2 DEF SameRows, SameRest, Steady
<1>8. Meaning(u, {})[e] = Overlay(vals, Meaning(w, {})[e])
  <2>1. Row(u, e).vals = Overlay(vals, Row(w, e).vals)
    <3>1. Row(u, e) = u.archs[a].rows[r]
      BY <1>7 DEF Row, ArchAt, InRow
    <3>2. QED
      BY <1>1, <1>4, <3>1
  <2>2. Meaning(u, {})[e] = Over(w, e, Overlay(vals, Row(w, e).vals))
    BY <1>6, <2>1
  <2>3. Over(w, e, Overlay(vals, Row(w, e).vals)) = Overlay(vals, Over(w, e, Row(w, e).vals))
    BY <1>1, OverGiven
  <2>4. QED
    BY <2>2, <2>3, MeaningAt
<1>9. ASSUME NEW f \in Live(w, {}), f # e
      PROVE  Meaning(u, {})[f] = Meaning(w, {})[f]
  <2> DEFINE b == w.loc[f.idx].arch
             q == w.loc[f.idx].row
  <2>def. InRow(w, f, b, q)
    BY DEF InRow
  <2> HIDE DEF b, q
  <2>1. b \in DOMAIN w.archs /\ q \in DOMAIN w.archs[b].rows /\ (b # a \/ q # r)
    BY <1>3, <1>9, <2>def, InRowIs
  <2>2. Row(u, f) = u.archs[b].rows[q] /\ Row(w, f) = w.archs[b].rows[q]
    BY <1>7, <2>def, InRowStays
  <2>3. Row(u, f).vals = Row(w, f).vals
    BY <1>4, <2>1, <2>2
  <2>4. QED
    BY <1>6, <2>3, MeaningAt
<1>10. Meaning(u, {}) = Given(Meaning(w, {}), e, vals)
  <2> DEFINE m == Meaning(u, {})
             k == Meaning(w, {})
             j == Just(e, Overlay(vals, k[e]))
  <2>1. DOMAIN m = Live(w, {}) /\ IsMap(m) /\ DOMAIN k = Live(w, {}) /\ DOMAIN j = {e}
        /\ j[e] = Overlay(vals, k[e])
    BY <1>6, MeaningIs, JustIs
  <2>2. Given(k, e, vals) = Overlay(j, k)
    BY <2>1 DEF Given
  <2> HIDE DEF m, k, j
  <2>3. m[e] = j[e] /\ \A f \in Live(w, {}) : f # e => m[f] = k[f]
    BY <1>8, <1>9, <2>1 DEF m, k
  <2>4. m = Overlay(j, k)
    BY <2>1, <2>3 DEF Overlay, IsMap
  <2>5. QED
    BY <2>2, <2>4 DEF m, k
<1>11. QED
  BY <1>2, <1>6, <1>7, <1>10

(* One component of many rows.                                             *)
LEMMA RewrittenKeeps ==
  ASSUME NEW w, NEW E, NEW c \in Components, NEW v \in V, Fit(w, {}),
         \A e \in Live(w, {}) : e \in E => c \in ArchAt(w, e).ids
  PROVE  /\ Fit(Rewritten(w, E, c, v), {}) /\ Steady(w, Rewritten(w, E, c, v))
         /\ Rewritten(w, E, c, v).loc = w.loc /\ SameRows(w, Rewritten(w, E, c, v))
         /\ Meaning(Rewritten(w, E, c, v), {})
              = [e \in Live(w, {}) |-> IF e \in E THEN Overlay(Just(c, v), Meaning(w, {})[e])
                                       ELSE Meaning(w, {})[e]]
<1> DEFINE u == Rewritten(w, E, c, v)
<1>1. w \in Worlds /\ Columns(w)
  BY DEF Fit
<1>2. SameRows(w, u) /\ RowsSet(w, u, E, c, v)
  BY <1>1, RewrittenIs
<1> HIDE DEF u
<1>3. \A b \in DOMAIN w.archs : \A q \in DOMAIN w.archs[b].rows :
        /\ w.archs[b].rows[q].ent \in E =>
             u.archs[b].rows[q].vals = Overlay(Just(c, v), w.archs[b].rows[q].vals)
        /\ w.archs[b].rows[q].ent \notin E =>
             u.archs[b].rows[q].vals = w.archs[b].rows[q].vals
  BY <1>2 DEF RowsSet
<1>4. ColumnsFilled(w, u)
  <2> SUFFICES ASSUME NEW b \in DOMAIN w.archs, NEW q \in DOMAIN w.archs[b].rows
               PROVE  DOMAIN u.archs[b].rows[q].vals = w.archs[b].ids
    BY DEF ColumnsFilled
  <2> DEFINE e == w.archs[b].rows[q].ent
  <2>1. CASE e \notin E
    BY <1>1, <1>3, <2>1 DEF Columns
  <2>2. CASE e \in E
    <3>1. DOMAIN u.archs[b].rows[q].vals = {c} \cup DOMAIN w.archs[b].rows[q].vals
      <4>1. u.archs[b].rows[q].vals = Overlay(Just(c, v), w.archs[b].rows[q].vals)
        BY <1>3, <2>2
      <4>2. DOMAIN Just(c, v) = {c}
        BY JustIs
      <4>3. QED
        BY <4>1, <4>2, OverlayIs
    <3>2. e \in Live(w, {}) /\ w.loc[e.idx] = [arch |-> b, row |-> q]
      BY RowIsLive
    <3>3. ArchAt(w, e) = w.archs[b]
      BY <3>2 DEF ArchAt
    <3>4. c \in w.archs[b].ids
      BY <2>2, <3>2, <3>3
    <3>5. QED
      BY <1>1, <3>1, <3>4 DEF Columns
  <2>3. QED
    BY <2>1, <2>2
<1>5. /\ Fit(u, {}) /\ Live(u, {}) = Live(w, {})
      /\ \A f \in Live(w, {}) : Meaning(u, {})[f] = Over(w, f, Row(u, f).vals)
  BY <1>2, <1>4, WriteKeeps, WriteMeans
<1>6. u.loc = w.loc /\ Steady(w, u) /\ DOMAIN u.archs = DOMAIN w.archs
  BY <1>2 DEF SameRows, SameRest, Steady
<1>7. ASSUME NEW f \in Live(w, {})
      PROVE  /\ f \in E => Meaning(u, {})[f] = Overlay(Just(c, v), Meaning(w, {})[f])
             /\ f \notin E => Meaning(u, {})[f] = Meaning(w, {})[f]
  <2> DEFINE b == w.loc[f.idx].arch
             q == w.loc[f.idx].row
  <2>1. /\ b \in DOMAIN w.archs /\ q \in DOMAIN w.archs[b].rows /\ Row(w, f) = w.archs[b].rows[q]
        /\ Row(w, f).ent = f /\ Row(w, f).vals \in On(V)
    BY LiveIs
  <2>2. Row(u, f).vals = u.archs[b].rows[q].vals
    BY <1>6 DEF Row, ArchAt
  <2> HIDE DEF b, q
  <2>3. CASE f \notin E
    BY <1>3, <1>5, <2>1, <2>2, <2>3, MeaningAt
  <2>4. CASE f \in E
    <3>1. Row(u, f).vals = Overlay(Just(c, v), Row(w, f).vals)
      BY <1>3, <2>1, <2>2, <2>4
    <3>2. Just(c, v) \in On(V)
      <4>1. Just(c, v) \in [{c} -> V]
        BY DEF Just
      <4>2. QED
        BY <4>1 DEF On
    <3>3. Over(w, f, Overlay(Just(c, v), Row(w, f).vals))
            = Overlay(Just(c, v), Over(w, f, Row(w, f).vals))
      BY <2>1, <3>2, OverGiven
    <3>4. QED
      BY <1>5, <2>4, <3>1, <3>3, MeaningAt
  <2>5. QED
    BY <2>3, <2>4
<1>8. Meaning(u, {}) = [e \in Live(w, {}) |-> IF e \in E THEN Overlay(Just(c, v), Meaning(w, {})[e])
                                              ELSE Meaning(w, {})[e]]
  <2> DEFINE m == Meaning(u, {})
             k == Meaning(w, {})
             p(e) == Overlay(Just(c, v), k[e])
  <2>1. DOMAIN m = Live(w, {}) /\ IsMap(m)
    BY <1>5, MeaningIs
  <2>2. \A f \in Live(w, {}) : (f \in E => m[f] = p(f)) /\ (f \notin E => m[f] = k[f])
    BY <1>7
  <2> SUFFICES m = [e \in Live(w, {}) |-> IF e \in E THEN p(e) ELSE k[e]]
    OBVIOUS
  <2> HIDE DEF m, k, p
  <2>3. QED
    BY <2>1, <2>2 DEF IsMap
<1>9. QED
  BY <1>2, <1>5, <1>6, <1>8 DEF u

-----------------------------------------------------------------------------
(* The sparse value of an entity.                                          *)
LEMMA OverSparseGiven ==
  ASSUME NEW w, NEW u, NEW e, NEW vals \in On(V), NEW v, DenseIndex(u, e) # None,
         u.dense[DenseIndex(u, e)].val = v
  PROVE  Over(u, e, vals) = Overlay(Just(Sparse, v), Over(w, e, vals))
<1> DEFINE p == Over(w, e, vals)
           j == Just(Sparse, v)
<1>1. Over(u, e, vals) = Overlay(j, vals)
  BY DEF Over
<1>2. /\ Sparse \notin DOMAIN vals
      /\ DenseIndex(w, e) = None => p = vals
      /\ DenseIndex(w, e) # None => DOMAIN p = {Sparse} \cup DOMAIN vals
  BY ONLY vals \in On(V), OverIs
<1>3. \A c \in DOMAIN vals : p[c] = vals[c]
  BY OverAt
<1>4. DOMAIN j = {Sparse}
  BY JustIs
<1> HIDE DEF p, j
<1>5. Overlay(j, vals) = Overlay(j, p)
  BY <1>2, <1>3, <1>4 DEF Overlay
<1>6. QED
  BY <1>1, <1>5 DEF p, j

LEMMA OverSparseTaken ==
  ASSUME NEW w, NEW u, NEW e, NEW vals \in On(V), DenseIndex(u, e) = None
  PROVE  Over(u, e, vals) = Only(Over(w, e, vals), DOMAIN Over(w, e, vals) \ {Sparse})
<1> DEFINE p == Over(w, e, vals)
<1>1. Over(u, e, vals) = vals
  BY DEF Over
<1>2. /\ Sparse \notin DOMAIN vals
      /\ DenseIndex(w, e) = None => p = vals
      /\ DenseIndex(w, e) # None => DOMAIN p = {Sparse} \cup DOMAIN vals
  <2>1. Sparse \notin DOMAIN vals
    BY OverIs
  <2>2. DenseIndex(w, e) = None => p = vals
    BY DEF Over
  <2>3. DenseIndex(w, e) # None => DOMAIN p = {Sparse} \cup DOMAIN vals
    BY OverIs
  <2>4. QED
    BY <2>1, <2>2, <2>3
<1>3. \A c \in DOMAIN vals : p[c] = vals[c]
  BY OverAt
<1>4. IsMap(vals)
  BY OnIs DEF IsMap
<1> HIDE DEF p
<1>5. vals = Only(p, DOMAIN p \ {Sparse})
  BY <1>2, <1>3, <1>4 DEF Only, IsMap
<1>6. QED
  BY <1>1, <1>5 DEF p

LEMMA SparseInsertedMeans ==
  ASSUME NEW w, Fit(w, {}), NEW e \in Live(w, {}), NEW v \in V
  PROVE  /\ Fit(SparseInserted(w, e, v), {}) /\ Steady(w, SparseInserted(w, e, v))
         /\ Meaning(SparseInserted(w, e, v), {}) = Given(Meaning(w, {}), e, Just(Sparse, v))
<1> DEFINE u == SparseInserted(w, e, v)
<1>1. e \in H /\ Located(w, e) /\ Row(w, e).vals \in On(V)
  BY LiveIs
<1>2. /\ OtherSparse(w, u) /\ SparseFits(u) /\ DenseIndex(u, e) # None
      /\ u.dense[DenseIndex(u, e)].val = v /\ \A f \in H \ {e} : SameValue(w, u, f)
  BY <1>1, SparseInsertedKeeps
<1> HIDE DEF u
<1>3. Fit(u, {}) /\ Live(u, {}) = Live(w, {}) /\ \A f : Row(u, f) = Row(w, f)
  BY <1>2, SparseFit
<1>4. Meaning(u, {})[e] = Overlay(Just(Sparse, v), Meaning(w, {})[e])
  <2>1. Meaning(u, {})[e] = Over(u, e, Row(w, e).vals)
    BY <1>3, MeaningAt
  <2>2. Over(u, e, Row(w, e).vals) = Overlay(Just(Sparse, v), Over(w, e, Row(w, e).vals))
    BY <1>1, <1>2, OverSparseGiven
  <2>3. QED
    BY <2>1, <2>2, MeaningAt
<1>5. ASSUME NEW f \in Live(w, {}), f # e
      PROVE  Meaning(u, {})[f] = Meaning(w, {})[f]
  <2>1. SameValue(w, u, f)
    BY <1>2, <1>5 DEF Live
  <2>2. Over(u, f, Row(u, f).vals) = Over(w, f, Row(w, f).vals)
    BY <1>3, <2>1, SameValueOver
  <2>3. QED
    BY <1>3, <2>2, MeaningAt
<1>6. Meaning(u, {}) = Given(Meaning(w, {}), e, Just(Sparse, v))
  <2> DEFINE m == Meaning(u, {})
             k == Meaning(w, {})
             j == Just(e, Overlay(Just(Sparse, v), k[e]))
  <2>1. DOMAIN m = Live(w, {}) /\ IsMap(m) /\ DOMAIN k = Live(w, {}) /\ DOMAIN j = {e}
        /\ j[e] = Overlay(Just(Sparse, v), k[e])
    BY <1>3, MeaningIs, JustIs
  <2>2. Given(k, e, Just(Sparse, v)) = Overlay(j, k)
    BY <2>1 DEF Given
  <2> HIDE DEF m, k, j
  <2>3. m[e] = j[e] /\ \A f \in Live(w, {}) : f # e => m[f] = k[f]
    BY <1>4, <1>5, <2>1 DEF m, k
  <2>4. m = Overlay(j, k)
    BY <2>1, <2>3 DEF Overlay, IsMap
  <2>5. QED
    BY <2>2, <2>4 DEF m, k
<1>7. Steady(w, u)
  BY <1>2 DEF OtherSparse, Steady
<1>8. QED
  BY <1>3, <1>6, <1>7 DEF u

LEMMA SparseRemovedMeans ==
  ASSUME NEW w, Fit(w, {}), NEW e \in Live(w, {})
  PROVE  /\ Fit(SparseRemoved(w, e), {}) /\ Steady(w, SparseRemoved(w, e))
         /\ Meaning(SparseRemoved(w, e), {}) = Taken(Meaning(w, {}), e, Sparse)
<1> DEFINE u == SparseRemoved(w, e)
<1>1. e \in H /\ Located(w, e) /\ Row(w, e).vals \in On(V)
  BY LiveIs
<1>2. /\ OtherSparse(w, u) /\ SparseFits(u) /\ DenseIndex(u, e) = None
      /\ \A f \in H \ {e} : SameValue(w, u, f)
  BY <1>1, SparseRemovedKeeps
<1> HIDE DEF u
<1>3. Fit(u, {}) /\ Live(u, {}) = Live(w, {}) /\ \A f : Row(u, f) = Row(w, f)
  BY <1>2, SparseFit
<1> DEFINE m == Meaning(u, {})
           k == Meaning(w, {})
           x == Only(k[e], DOMAIN k[e] \ {Sparse})
<1>4. m[e] = x
  <2>1. m[e] = Over(u, e, Row(w, e).vals) /\ k[e] = Over(w, e, Row(w, e).vals)
    BY <1>3, MeaningAt
  <2>2. Over(u, e, Row(w, e).vals)
          = Only(Over(w, e, Row(w, e).vals), DOMAIN Over(w, e, Row(w, e).vals) \ {Sparse})
    BY <1>1, <1>2, OverSparseTaken
  <2> HIDE DEF m, k
  <2>3. QED
    BY <2>1, <2>2
<1>5. ASSUME NEW f \in Live(w, {}), f # e
      PROVE  m[f] = k[f]
  <2>1. SameValue(w, u, f)
    BY <1>2, <1>5 DEF Live
  <2>2. Over(u, f, Row(u, f).vals) = Over(w, f, Row(w, f).vals)
    BY <1>3, <2>1, SameValueOver
  <2>3. QED
    BY <1>3, <2>2, MeaningAt
<1>6. m = Taken(k, e, Sparse)
  <2>1. DOMAIN m = Live(w, {}) /\ IsMap(m) /\ DOMAIN k = Live(w, {}) /\ IsMap(k)
    BY <1>3, MeaningIs
  <2>2. Taken(k, e, Sparse) = [k EXCEPT ![e] = x]
    BY DEF Taken
  <2> HIDE DEF m, k, x
  <2>3. m = [k EXCEPT ![e] = x]
    BY <1>4, <1>5, <2>1 DEF IsMap
  <2>4. QED
    BY <2>2, <2>3
<1>7. Steady(w, u)
  BY <1>2 DEF OtherSparse, Steady
<1>8. QED
  BY <1>3, <1>6, <1>7 DEF u, m, k

-----------------------------------------------------------------------------
(* Despawns.                                                               *)
LEMMA GoneIs ==
  ASSUME NEW m, NEW E
  PROVE  /\ DOMAIN Gone(m, E) = DOMAIN m \ E /\ IsMap(Gone(m, E))
         /\ \A x \in DOMAIN m \ E : Gone(m, E)[x] = m[x]
  BY DEF Gone, Only, IsMap

(* The slots of E are free and have the next generation.                   *)
InSlots(E, s) == \E e \in E : e.idx = s

Freed(w, u, E) ==
  /\ u.tick = w.tick
  /\ \A s : s \in u.free <=> s \in w.free \/ InSlots(E, s)
  /\ \A s \in Slots : u.gens[s] = IF InSlots(E, s) THEN w.gens[s] + 1 ELSE w.gens[s]

LEMMA DeallocFrees ==
  ASSUME NEW w \in Worlds, NEW E
  PROVE  Freed(w, DeallocAll(w, E), E)
<1> DEFINE dead == {e.idx : e \in E}
           loc == [s \in Slots |-> IF s \in dead THEN None ELSE w.loc[s]]
           gens == [s \in Slots |-> IF s \in dead THEN w.gens[s] + 1 ELSE w.gens[s]]
           u == [w EXCEPT !.loc = loc, !.gens = gens, !.free = w.free \cup dead]
<1>1. DeallocAll(w, E) = u
  BY DEF DeallocAll
<1>2. \A s : s \in dead <=> InSlots(E, s)
  BY DEF InSlots
<1>3. \A s \in Slots : gens[s] = IF s \in dead THEN w.gens[s] + 1 ELSE w.gens[s]
  OBVIOUS
<1> HIDE DEF dead, gens, loc
<1>4. u.tick = w.tick /\ u.free = w.free \cup dead /\ u.gens = gens
  BY DEF Worlds
<1> HIDE DEF u
<1>5. QED
  BY <1>1, <1>2, <1>3, <1>4 DEF Freed

(* Other sparse values for entities without a row do not show.             *)
LEMMA SparseUnseen ==
  ASSUME NEW w, NEW G, Fit(w, G), NEW u, OtherSparse(w, u), SparseFits(u),
         \A f \in Live(w, G) : SameValue(w, u, f)
  PROVE  Fit(u, G) /\ Meaning(u, G) = Meaning(w, G) /\ Live(u, G) = Live(w, G)
<1>1. /\ Fit(u, G) /\ Live(u, G) = Live(w, G) /\ \A e : Row(u, e) = Row(w, e)
      /\ \A e : Located(u, e) <=> Located(w, e)
  BY SparseFit
<1>2. \A f \in Live(w, G) : Over(u, f, Row(u, f).vals) = Over(w, f, Row(w, f).vals)
  BY <1>1, SameValueOver
<1>3. QED
  BY <1>1, <1>2, SameMeaning

LEMMA DespawnedKeeps ==
  ASSUME NEW w, Fit(w, {}), NEW e \in Live(w, {})
  PROVE  /\ Fit(Despawned(w, e), {}) /\ Freed(w, Despawned(w, e), {e})
         /\ Meaning(Despawned(w, e), {}) = Gone(Meaning(w, {}), {e})
<1> DEFINE a == w.loc[e.idx].arch
           r == w.loc[e.idx].row
           cut == SwapRemoved(w, a, r)
           x == SparseRemoved(cut, e)
           G == Plus({}, e)
<1>1. Despawned(w, e) = DeallocAll(x, {e})
  BY DEF Despawned, Dealloc
<1>2. G = {e}
  BY DEF Plus
<1>3. /\ w \in Worlds /\ e \in H /\ Located(w, e)
      /\ a \in DOMAIN w.archs /\ r \in DOMAIN w.archs[a].rows
  BY LiveIs DEF Fit
<1>4. CutFrom(w, cut, a, r)
  BY <1>3, SwapRemovedIs
<1> HIDE DEF cut
<1>5. /\ Fit(cut, G) /\ Live(cut, G) = Minus(Live(w, {}), e)
      /\ Meaning(cut, G) = Gone(Meaning(w, {}), {e}) /\ cut.loc[e.idx] = w.loc[e.idx]
  BY <1>4, CutKeeps
<1>6. cut.tick = w.tick /\ cut.gens = w.gens /\ cut.free = w.free
  BY <1>4 DEF CutFrom, SameRest
<1>7. /\ OtherSparse(cut, x) /\ SparseFits(x) /\ DenseIndex(x, e) = None
      /\ \A f \in H \ {e} : SameValue(cut, x, f)
  BY <1>3, <1>5, SparseRemovedKeeps
<1> HIDE DEF x, G
<1>8. Fit(x, G) /\ Meaning(x, G) = Meaning(cut, G)
  <2>1. \A f \in Live(cut, G) : SameValue(cut, x, f)
    BY <1>2, <1>7 DEF Live
  <2>2. QED
    BY <1>5, <1>7, <2>1, SparseUnseen
<1>9. x \in Worlds /\ x.tick = w.tick /\ x.gens = w.gens /\ x.free = w.free /\ x.loc = cut.loc
  BY <1>6, <1>7 DEF OtherSparse
<1>10. Located(x, e)
  BY <1>3, <1>5, <1>9 DEF Located, IsAlive, IsPlaced
<1>11. /\ Fit(DeallocAll(x, G), {}) /\ Meaning(DeallocAll(x, G), {}) = Meaning(x, G)
  BY <1>2, <1>3, <1>7, <1>8, <1>10, DeallocKeeps
<1>12. Freed(x, DeallocAll(x, G), G)
  BY <1>9, DeallocFrees
<1>13. Freed(w, DeallocAll(x, G), G)
  BY <1>9, <1>12 DEF Freed
<1>14. QED
  BY <1>1, <1>2, <1>5, <1>8, <1>11, <1>13

-----------------------------------------------------------------------------
(* Batches of despawns, from the last rows to the first.                   *)
Descending(w, s) ==
  \A i, j \in DOMAIN s : i < j => w.loc[s[i].idx].row >= w.loc[s[j].idx].row

InRows(w, E) == IsFiniteSet(E) /\ \A e \in E : w.loc[e.idx].row \in Nat

Orders(w, E, n, s) == s \in [1 .. n -> E] /\ IsInjective(s) /\ Descending(w, s)

Ordered(w, n) == \A E : InRows(w, E) /\ Cardinality(E) = n => \E s : Orders(w, E, n, s)

LEMMA OrderedNext ==
  ASSUME NEW w, NEW n \in Nat, n > 0, Ordered(w, n - 1)
  PROVE  Ordered(w, n)
<1> SUFFICES ASSUME NEW E, InRows(w, E), Cardinality(E) = n
             PROVE  \E s : Orders(w, E, n, s)
  BY DEF Ordered
<1> DEFINE rows == {w.loc[e.idx].row : e \in E}
<1>1. IsFiniteSet(E) /\ \A e \in E : w.loc[e.idx].row \in Nat
  BY DEF InRows
<1>2. rows \subseteq Nat /\ rows # {}
  <2>1. E # {}
    BY <1>1, FS_EmptySet
  <2>2. QED
    BY <1>1, <2>1
<1>3. PICK x \in E : \A e \in E : w.loc[x.idx].row <= w.loc[e.idx].row
  <2>1. \A e \in E : w.loc[e.idx].row \in rows
    OBVIOUS
  <2>2. \A k \in rows : \E e \in E : k = w.loc[e.idx].row
    OBVIOUS
  <2> HIDE DEF rows
  <2>3. PICK k \in rows : \A m \in rows : k <= m
    BY <1>2, LeastElement
  <2>4. PICK x \in E : k = w.loc[x.idx].row
    BY <2>2
  <2>5. QED
    BY <2>1, <2>3, <2>4
<1> HIDE DEF rows
<1>4. InRows(w, E \ {x}) /\ Cardinality(E \ {x}) = n - 1
  BY <1>1, FS_RemoveElement DEF InRows
<1>5. PICK t : Orders(w, E \ {x}, n - 1, t)
  BY <1>4 DEF Ordered
<1>6. /\ t \in [1 .. n - 1 -> E \ {x}] /\ IsInjective(t) /\ Descending(w, t)
  BY <1>5 DEF Orders
<1> DEFINE s == [i \in 1 .. n |-> IF i = n THEN x ELSE t[i]]
<1>7. s \in [1 .. n -> E] /\ s[n] = x
  BY <1>6
<1>8. \A i \in 1 .. n - 1 : s[i] = t[i] /\ t[i] \in E /\ t[i] # x
  BY <1>6
<1> HIDE DEF s
<1>9. \A i \in 1 .. n : i = n \/ i \in 1 .. n - 1
  OBVIOUS
<1>10. IsInjective(s)
  <2> SUFFICES ASSUME NEW i \in 1 .. n, NEW j \in 1 .. n, s[i] = s[j]
               PROVE  i = j
    BY <1>7 DEF IsInjective
  <2>1. CASE i \in 1 .. n - 1 /\ j \in 1 .. n - 1
    BY <1>6, <1>8, <2>1 DEF IsInjective
  <2>2. QED
    BY <1>7, <1>8, <1>9, <2>1
<1>11. Descending(w, s)
  <2> SUFFICES ASSUME NEW i \in 1 .. n, NEW j \in 1 .. n, i < j
               PROVE  w.loc[s[i].idx].row >= w.loc[s[j].idx].row
    BY <1>7 DEF Descending
  <2>1. i \in 1 .. n - 1
    BY <1>9
  <2>2. CASE j \in 1 .. n - 1
    BY <1>6, <1>8, <2>1, <2>2 DEF Descending
  <2>3. CASE j = n
    <3>1. s[i] \in E /\ s[j] = x
      BY <1>7, <1>8, <2>1, <2>3
    <3>2. w.loc[x.idx].row <= w.loc[s[i].idx].row
      BY <1>3, <3>1
    <3>3. w.loc[x.idx].row \in Nat /\ w.loc[s[i].idx].row \in Nat
      BY <1>1, <3>1
    <3>4. QED
      BY <3>1, <3>2, <3>3
  <2>4. QED
    BY <1>9, <2>2, <2>3
<1>12. QED
  BY <1>7, <1>10, <1>11 DEF Orders

LEMMA OrderExists ==
  ASSUME NEW w, NEW E, InRows(w, E)
  PROVE  \E s : Orders(w, E, Cardinality(E), s)
<1> DEFINE N == Cardinality(E)
           S == {n \in 0 .. N : Ordered(w, n)}
<1>1. N \in Nat
  BY FS_CardinalityType DEF InRows
<1>2. Ordered(w, 0)
  <2> SUFFICES ASSUME NEW F, InRows(w, F), Cardinality(F) = 0
               PROVE  \E s : Orders(w, F, 0, s)
    BY DEF Ordered
  <2> DEFINE s == [i \in 1 .. 0 |-> i]
  <2>1. s \in [1 .. 0 -> F] /\ DOMAIN s = {}
    OBVIOUS
  <2> HIDE DEF s
  <2>2. Orders(w, F, 0, s)
    BY <2>1 DEF Orders, IsInjective, Descending
  <2>3. QED
    BY <2>2
<1> HIDE DEF N
<1>3. 0 \in S
  BY <1>1, <1>2
<1>4. \A n \in 1 .. N : n - 1 \in S => n \in S
  BY <1>1, OrderedNext
<1> HIDE DEF S
<1>5. N \in S
  BY <1>1, <1>3, <1>4, UpTo
<1>6. QED
  BY <1>5 DEF S, N, Ordered

LEMMA RowOrderIs ==
  ASSUME NEW w, NEW E, InRows(w, E), NEW s, s = RowOrder(w, E)
  PROVE  /\ s \in [1 .. Cardinality(E) -> E] /\ Cardinality(E) \in Nat
         /\ IsInjective(s) /\ Descending(w, s)
         /\ \A e \in E : \E i \in 1 .. Cardinality(E) : s[i] = e
         /\ s \in Seq(E) /\ Len(s) = Cardinality(E)
<1> DEFINE N == Cardinality(E)
<1>1. N \in Nat /\ IsFiniteSet(E)
  BY FS_CardinalityType DEF InRows
<1>2. s \in [1 .. N -> E] /\ IsInjective(s) /\ Descending(w, s)
  <2> DEFINE P(q) == /\ IsInjective(q)
                     /\ \A i, j \in DOMAIN q : i < j => w.loc[q[i].idx].row >= w.loc[q[j].idx].row
  <2>1. \E q \in [1 .. N -> E] : P(q)
    BY OrderExists DEF Orders, Descending
  <2>2. s = CHOOSE q \in [1 .. N -> E] : P(q)
    BY DEF RowOrder
  <2> HIDE DEF P, N
  <2>3. s \in [1 .. N -> E] /\ P(s)
    BY <2>1, <2>2
  <2>4. QED
    BY <2>3 DEF P, Descending
<1> HIDE DEF N
<1>3. s \in Injection(1 .. N, E)
  BY <1>2 DEF Injection
<1>4. Cardinality(1 .. N) = N
  BY <1>1, FS_Interval
<1>5. s \in Surjection(1 .. N, E)
  BY <1>1, <1>3, <1>4, FS_Injection DEF N
<1>6. \A e \in E : \E i \in 1 .. N : s[i] = e
  BY <1>5 DEF Surjection
<1>7. s \in Seq(E) /\ Len(s) = N
  BY <1>1, <1>2
<1>8. QED
  BY <1>1, <1>2, <1>6, <1>7 DEF N

(* What the recursive functions compute.                                   *)
LEMMA CleanedUnfolds ==
  ASSUME NEW w, NEW s, Len(s) \in Nat
  PROVE  /\ SparseCleaned(w, s)[0] = w
         /\ \A n \in 1 .. Len(s) :
              SparseCleaned(w, s)[n] = SparseRemoved(SparseCleaned(w, s)[n - 1], s[n])
<1> DEFINE base == w
           StepOf(v, n) == SparseRemoved(v, s[n])
           Solves(f, k) == f = [n \in 0 .. k |-> IF n = 0 THEN base ELSE StepOf(f[n - 1], n)]
           S == {k \in 0 .. Len(s) : \E f : Solves(f, k)}
<1>1. SparseCleaned(w, s) = CHOOSE f : Solves(f, Len(s))
  BY DEF SparseCleaned
<1> HIDE DEF base, StepOf
<1>2. 0 \in S
  <2> DEFINE f0 == [n \in 0 .. 0 |-> base]
  <2>1. Solves(f0, 0)
    OBVIOUS
  <2> HIDE DEF f0, Solves
  <2>2. QED
    BY <2>1
<1>3. ASSUME NEW k \in 1 .. Len(s), k - 1 \in S
      PROVE  k \in S
  <2>1. PICK f : Solves(f, k - 1)
    BY <1>3
  <2> DEFINE g == [n \in 0 .. k |-> IF n = k THEN StepOf(f[k - 1], k) ELSE f[n]]
  <2>2. \A n \in 0 .. k - 1 : g[n] = f[n]
    OBVIOUS
  <2>3. \A n \in 0 .. k - 1 : f[n] = IF n = 0 THEN base ELSE StepOf(f[n - 1], n)
    BY <2>1
  <2>4. \A n \in 0 .. k : g[n] = IF n = 0 THEN base ELSE StepOf(g[n - 1], n)
    <3> SUFFICES ASSUME NEW n \in 0 .. k
                 PROVE  g[n] = IF n = 0 THEN base ELSE StepOf(g[n - 1], n)
      OBVIOUS
    <3>1. CASE n = k
      <4>1. g[n] = StepOf(f[n - 1], n) /\ g[n - 1] = f[n - 1] /\ n # 0
        BY <2>2, <3>1
      <4>2. QED
        BY <4>1
    <3>2. CASE n # k
      <4>1. n \in 0 .. k - 1 /\ (n # 0 => n - 1 \in 0 .. k - 1)
        BY <3>2
      <4>2. QED
        BY <4>1, <2>2, <2>3
    <3>3. QED
      BY <3>1, <3>2
  <2>5. g = [n \in 0 .. k |-> g[n]]
    OBVIOUS
  <2> HIDE DEF g
  <2>6. Solves(g, k)
    BY <2>4, <2>5
  <2>7. QED
    BY <2>6
<1> HIDE DEF S
<1>4. Len(s) \in S
  <2>1. \A k \in 1 .. Len(s) : k - 1 \in S => k \in S
    BY <1>3
  <2>2. \A k \in 0 .. Len(s) : k \in S
    BY <1>2, <2>1, UpTo
  <2>3. QED
    BY <2>2
<1>5. \E f : Solves(f, Len(s))
  BY <1>4 DEF S
<1> DEFINE h == SparseCleaned(w, s)
<1>6. Solves(h, Len(s))
  BY <1>1, <1>5
<1> HIDE DEF h
<1>7. h[0] = base /\ \A n \in 1 .. Len(s) : h[n] = StepOf(h[n - 1], n)
  BY <1>6
<1>8. QED
  BY <1>7 DEF h, base, StepOf

LEMMA CutUnfolds ==
  ASSUME NEW w, NEW s, Len(s) \in Nat
  PROVE  /\ RowsCut(w, s)[0] = w
         /\ \A n \in 1 .. Len(s) :
              RowsCut(w, s)[n] = SwapRemoved(RowsCut(w, s)[n - 1], w.loc[s[n].idx].arch, w.loc[s[n].idx].row)
<1> DEFINE base == w
           StepOf(v, n) == SwapRemoved(v, w.loc[s[n].idx].arch, w.loc[s[n].idx].row)
           Solves(f, k) == f = [n \in 0 .. k |-> IF n = 0 THEN base ELSE StepOf(f[n - 1], n)]
           S == {k \in 0 .. Len(s) : \E f : Solves(f, k)}
<1>1. RowsCut(w, s) = CHOOSE f : Solves(f, Len(s))
  BY DEF RowsCut
<1> HIDE DEF base, StepOf
<1>2. 0 \in S
  <2> DEFINE f0 == [n \in 0 .. 0 |-> base]
  <2>1. Solves(f0, 0)
    OBVIOUS
  <2> HIDE DEF f0, Solves
  <2>2. QED
    BY <2>1
<1>3. ASSUME NEW k \in 1 .. Len(s), k - 1 \in S
      PROVE  k \in S
  <2>1. PICK f : Solves(f, k - 1)
    BY <1>3
  <2> DEFINE g == [n \in 0 .. k |-> IF n = k THEN StepOf(f[k - 1], k) ELSE f[n]]
  <2>2. \A n \in 0 .. k - 1 : g[n] = f[n]
    OBVIOUS
  <2>3. \A n \in 0 .. k - 1 : f[n] = IF n = 0 THEN base ELSE StepOf(f[n - 1], n)
    BY <2>1
  <2>4. \A n \in 0 .. k : g[n] = IF n = 0 THEN base ELSE StepOf(g[n - 1], n)
    <3> SUFFICES ASSUME NEW n \in 0 .. k
                 PROVE  g[n] = IF n = 0 THEN base ELSE StepOf(g[n - 1], n)
      OBVIOUS
    <3>1. CASE n = k
      <4>1. g[n] = StepOf(f[n - 1], n) /\ g[n - 1] = f[n - 1] /\ n # 0
        BY <2>2, <3>1
      <4>2. QED
        BY <4>1
    <3>2. CASE n # k
      <4>1. n \in 0 .. k - 1 /\ (n # 0 => n - 1 \in 0 .. k - 1)
        BY <3>2
      <4>2. QED
        BY <4>1, <2>2, <2>3
    <3>3. QED
      BY <3>1, <3>2
  <2>5. g = [n \in 0 .. k |-> g[n]]
    OBVIOUS
  <2> HIDE DEF g
  <2>6. Solves(g, k)
    BY <2>4, <2>5
  <2>7. QED
    BY <2>6
<1> HIDE DEF S
<1>4. Len(s) \in S
  <2>1. \A k \in 1 .. Len(s) : k - 1 \in S => k \in S
    BY <1>3
  <2>2. \A k \in 0 .. Len(s) : k \in S
    BY <1>2, <2>1, UpTo
  <2>3. QED
    BY <2>2
<1>5. \E f : Solves(f, Len(s))
  BY <1>4 DEF S
<1> DEFINE h == RowsCut(w, s)
<1>6. Solves(h, Len(s))
  BY <1>1, <1>5
<1> HIDE DEF h
<1>7. h[0] = base /\ \A n \in 1 .. Len(s) : h[n] = StepOf(h[n - 1], n)
  BY <1>6
<1>8. QED
  BY <1>7 DEF h, base, StepOf

(* The first n of a sequence.                                              *)
First(s, n) == {s[j] : j \in 1 .. n}

LEMMA FirstIs ==
  ASSUME NEW s, NEW n \in Nat, n > 0
  PROVE  /\ First(s, n) = Plus(First(s, n - 1), s[n]) /\ First(s, 0) = {}
         /\ \A f : f \in First(s, n) <=> f = s[n] \/ f \in First(s, n - 1)
<1>1. \A f : f \in First(s, n) <=> f = s[n] \/ f \in First(s, n - 1)
  <2> SUFFICES ASSUME NEW f
               PROVE  f \in First(s, n) <=> f = s[n] \/ f \in First(s, n - 1)
    OBVIOUS
  <2>1. (f \in First(s, n) <=> \E j \in 1 .. n : f = s[j])
        /\ (f \in First(s, n - 1) <=> \E j \in 1 .. n - 1 : f = s[j])
    BY DEF First
  <2>2. \A j \in 1 .. n : j = n \/ j \in 1 .. n - 1
    OBVIOUS
  <2>3. n \in 1 .. n /\ \A j \in 1 .. n - 1 : j \in 1 .. n
    OBVIOUS
  <2>4. QED
    BY <2>1, <2>2, <2>3
<1>2. First(s, 0) = {}
  BY DEF First
<1>3. QED
  BY <1>1, <1>2 DEF Plus

(* Sparse values are cleaned one after the other.                          *)
CleanedTo(w, u, s, n) ==
  /\ OtherSparse(w, u) /\ SparseFits(u)
  /\ \A f \in H : f \in First(s, n) => DenseIndex(u, f) = None
  /\ \A f \in H : f \notin First(s, n) => SameValue(w, u, f)

LEMMA CleanedNext ==
  ASSUME NEW w, NEW G, Fit(w, G), NEW s, NEW n \in Nat, n > 0, s[n] \in H,
         NEW u, CleanedTo(w, u, s, n - 1)
  PROVE  CleanedTo(w, SparseRemoved(u, s[n]), s, n)
<1> DEFINE e == s[n]
           x == SparseRemoved(u, e)
<1>1. /\ OtherSparse(w, u) /\ SparseFits(u)
      /\ \A f \in H : f \in First(s, n - 1) => DenseIndex(u, f) = None
      /\ \A f \in H : f \notin First(s, n - 1) => SameValue(w, u, f)
  BY DEF CleanedTo
<1>2. Fit(u, G)
  BY <1>1, SparseFit
<1>3. /\ OtherSparse(u, x) /\ SparseFits(x) /\ DenseIndex(x, e) = None
      /\ \A f \in H \ {e} : SameValue(u, x, f)
  BY <1>2, SparseRemovedKeeps
<1> HIDE DEF x
<1>4. OtherSparse(w, x)
  BY <1>1, <1>3 DEF OtherSparse
<1>5. \A f : f \in First(s, n) <=> f = e \/ f \in First(s, n - 1)
  BY FirstIs
<1> HIDE DEF e
<1>6. ASSUME NEW f \in H, f \in First(s, n)
      PROVE  DenseIndex(x, f) = None
  <2>1. CASE f = e
    BY <1>3, <2>1
  <2>2. CASE f # e
    <3>1. DenseIndex(u, f) = None /\ SameValue(u, x, f)
      BY <1>1, <1>3, <1>5, <1>6, <2>2
    <3>2. QED
      BY <3>1 DEF SameValue
  <2>3. QED
    BY <2>1, <2>2
<1>7. ASSUME NEW f \in H, f \notin First(s, n)
      PROVE  SameValue(w, x, f)
  <2>1. SameValue(w, u, f) /\ SameValue(u, x, f)
    BY <1>1, <1>3, <1>5, <1>7
  <2>2. QED
    BY <2>1 DEF SameValue
<1>8. QED
  BY <1>3, <1>4, <1>6, <1>7 DEF CleanedTo, x, e

LEMMA CleanedIs ==
  ASSUME NEW w, NEW G, Fit(w, G), NEW s \in Seq(H)
  PROVE  CleanedTo(w, SparseCleaned(w, s)[Len(s)], s, Len(s))
<1> DEFINE c == SparseCleaned(w, s)
           S == {n \in 0 .. Len(s) : CleanedTo(w, c[n], s, n)}
<1>1. Len(s) \in Nat /\ DOMAIN s = 1 .. Len(s) /\ \A n \in DOMAIN s : s[n] \in H
  BY SeqIs
<1>2. c[0] = w /\ \A n \in 1 .. Len(s) : c[n] = SparseRemoved(c[n - 1], s[n])
  BY <1>1, CleanedUnfolds
<1> HIDE DEF c
<1>3. CleanedTo(w, w, s, 0)
  <2>1. OtherSparse(w, w) /\ SparseFits(w)
    BY DEF Fit, OtherSparse
  <2>2. \A f : f \notin First(s, 0)
    BY DEF First
  <2>3. \A f : SameValue(w, w, f)
    BY DEF SameValue
  <2>4. QED
    BY <2>1, <2>2, <2>3 DEF CleanedTo
<1>4. 0 \in S
  BY <1>1, <1>2, <1>3
<1>5. ASSUME NEW n \in 1 .. Len(s), n - 1 \in S
      PROVE  n \in S
  <2>1. CleanedTo(w, c[n - 1], s, n - 1) /\ n \in Nat /\ n > 0 /\ s[n] \in H
    BY <1>1, <1>5
  <2>2. CleanedTo(w, SparseRemoved(c[n - 1], s[n]), s, n)
    BY <2>1, CleanedNext
  <2>3. QED
    BY <1>1, <1>2, <2>2
<1> HIDE DEF S
<1>6. \A n \in 1 .. Len(s) : n - 1 \in S => n \in S
  BY <1>5
<1>7. \A n \in 0 .. Len(s) : n \in S
  BY <1>1, <1>4, <1>6, UpTo
<1>8. Len(s) \in S
  BY <1>1, <1>7
<1>9. QED
  BY <1>8 DEF S, c

(* Rows are cut one after the other, and what is still to come stays.      *)
CutTo(w, u, s, n) ==
  /\ Fit(u, First(s, n)) /\ SameRest(w, u)
  /\ Meaning(u, First(s, n)) = Gone(Meaning(w, {}), First(s, n))
  /\ Live(u, First(s, n)) = Live(w, {}) \ First(s, n)
  /\ \A j \in DOMAIN s : u.loc[s[j].idx] = w.loc[s[j].idx]

Distinct(w, s) ==
  /\ s \in Seq(H) /\ IsInjective(s) /\ Descending(w, s)
  /\ \A j \in DOMAIN s : s[j] \in Live(w, {})

LEMMA GoneTwice ==
  ASSUME NEW m, NEW E, NEW e
  PROVE  Gone(Gone(m, E), {e}) = Gone(m, Plus(E, e))
<1> DEFINE a == Gone(m, E)
           b == Gone(a, {e})
           c == Gone(m, Plus(E, e))
<1>1. /\ DOMAIN a = DOMAIN m \ E /\ \A x \in DOMAIN m \ E : a[x] = m[x]
  BY GoneIs
<1>2. DOMAIN b = DOMAIN a \ {e} /\ IsMap(b) /\ \A x \in DOMAIN a \ {e} : b[x] = a[x]
  BY GoneIs
<1>3. DOMAIN c = DOMAIN m \ Plus(E, e) /\ IsMap(c) /\ \A x \in DOMAIN m \ Plus(E, e) : c[x] = m[x]
  BY GoneIs
<1>4. DOMAIN m \ Plus(E, e) = (DOMAIN m \ E) \ {e}
  BY DEF Plus
<1> HIDE DEF a, b, c
<1>5. DOMAIN b = DOMAIN c /\ \A x \in DOMAIN b : b[x] = c[x]
  BY <1>1, <1>2, <1>3, <1>4
<1>6. b = c
  BY <1>2, <1>3, <1>5, MapEq
<1>7. QED
  BY <1>6 DEF a, b, c

LEMMA CutNext ==
  ASSUME NEW w, Fit(w, {}), NEW s, Distinct(w, s), NEW n \in DOMAIN s, NEW u, CutTo(w, u, s, n - 1)
  PROVE  CutTo(w, SwapRemoved(u, w.loc[s[n].idx].arch, w.loc[s[n].idx].row), s, n)
<1> DEFINE e == s[n]
           G == First(s, n - 1)
           a == w.loc[e.idx].arch
           r == w.loc[e.idx].row
           x == SwapRemoved(u, a, r)
<1>1. /\ Fit(u, G) /\ SameRest(w, u) /\ Meaning(u, G) = Gone(Meaning(w, {}), G)
      /\ Live(u, G) = Live(w, {}) \ G
      /\ \A j \in DOMAIN s : u.loc[s[j].idx] = w.loc[s[j].idx]
  BY DEF CutTo
<1>2. /\ s \in Seq(H) /\ IsInjective(s) /\ Descending(w, s)
      /\ \A j \in DOMAIN s : s[j] \in Live(w, {})
  BY DEF Distinct
<1>3. DOMAIN s = 1 .. Len(s) /\ Len(s) \in Nat /\ n \in Nat /\ n > 0
  BY <1>2, SeqIs
<1>4. \A j \in DOMAIN s : s[j] \in G <=> j < n
  <2> SUFFICES ASSUME NEW j \in DOMAIN s
               PROVE  s[j] \in G <=> j < n
    OBVIOUS
  <2>1. s[j] \in G <=> \E i \in 1 .. n - 1 : s[j] = s[i]
    BY DEF First
  <2>2. \A i \in 1 .. n - 1 : i \in DOMAIN s /\ (s[j] = s[i] => j = i)
    BY <1>2, <1>3 DEF IsInjective
  <2>3. j < n => j \in 1 .. n - 1
    BY <1>3
  <2>4. \A i \in 1 .. n - 1 : i < n
    BY <1>3
  <2>5. QED
    BY <2>1, <2>2, <2>3, <2>4
<1>5. First(s, n) = Plus(G, e)
  BY <1>3, FirstIs
<1>6. e \in Live(u, G) /\ u.loc[e.idx] = w.loc[e.idx] /\ e \in Live(w, {})
  BY <1>1, <1>2, <1>4
<1> HIDE DEF e, G
<1>7. CutFrom(u, x, a, r) /\ e \in H /\ IsAlive(u, e)
  <2>1. /\ u \in Worlds /\ a \in DOMAIN u.archs /\ r \in DOMAIN u.archs[a].rows /\ e \in H
        /\ IsAlive(u, e)
    BY <1>1, <1>6, LiveAt
  <2>2. QED
    BY <2>1, SwapRemovedIs
<1> HIDE DEF x, a, r
<1>8. /\ Fit(x, Plus(G, e)) /\ Live(x, Plus(G, e)) = Minus(Live(u, G), e)
      /\ Meaning(x, Plus(G, e)) = Gone(Meaning(u, G), {e})
      /\ x.loc[e.idx] = u.loc[e.idx] /\ LowerStay(u, x, G, e)
  <2>1. CutFrom(u, x, u.loc[e.idx].arch, u.loc[e.idx].row)
    BY <1>6, <1>7 DEF a, r
  <2>2. Fit(u, G) /\ e \in Live(u, G)
    BY <1>1, <1>6
  <2>3. QED
    BY <2>1, <2>2, CutKeeps
<1>9. Meaning(x, Plus(G, e)) = Gone(Meaning(w, {}), Plus(G, e))
  BY <1>1, <1>8, GoneTwice
<1>10. SameRest(w, x)
  BY <1>1, <1>7 DEF CutFrom, SameRest
<1>11. Live(x, Plus(G, e)) = Live(w, {}) \ Plus(G, e)
  BY <1>1, <1>8 DEF Minus, Plus
<1>12. ASSUME NEW j \in DOMAIN s
       PROVE  x.loc[s[j].idx] = w.loc[s[j].idx]
  <2>1. CASE j = n
    BY <1>6, <1>8, <2>1 DEF e
  <2>2. CASE j > n
    <3>1. s[j] \in Live(u, G)
      BY <1>1, <1>2, <1>3, <1>4, <2>2
    <3>2. w.loc[e.idx].row >= w.loc[s[j].idx].row
      BY <1>2, <2>2 DEF Descending, e
    <3>3. u.loc[s[j].idx] = w.loc[s[j].idx]
      BY <1>1
    <3>4. x.loc[s[j].idx] = u.loc[s[j].idx]
      <4>1. u.loc[s[j].idx].row <= u.loc[e.idx].row
        <5>1. u.loc[s[j].idx] \in Place /\ u.loc[e.idx] \in Place
          BY <1>1, <1>6, <3>1, LiveIs
        <5>2. u.loc[s[j].idx].row \in Nat /\ u.loc[e.idx].row \in Nat
          BY <5>1 DEF Place
        <5>3. QED
          BY <1>6, <3>2, <3>3, <5>2
      <4>2. QED
        BY <1>8, <3>1, <4>1 DEF LowerStay
    <3>5. QED
      BY <3>3, <3>4
  <2>3. CASE j < n
    <3> DEFINE last == Len(u.archs[a].rows)
               moved == u.archs[a].rows[last].ent
    <3>1. s[j] \in G /\ u.loc[s[j].idx] = w.loc[s[j].idx]
      BY <1>1, <1>4, <2>3
    <3>2. s[j] \in H /\ IsAlive(u, s[j]) /\ s[j].idx \in Slots
      <4>1. s[j] \in Live(w, {})
        BY <1>2
      <4>2. s[j] \in H /\ IsAlive(w, s[j])
        BY <4>1 DEF Live, Located
      <4>3. QED
        BY <1>1, <4>2, HandleIs DEF IsAlive, SameRest
    <3>3. CASE r < last
      <4>1. a \in DOMAIN u.archs /\ last \in DOMAIN u.archs[a].rows
        <5>1. u \in Worlds /\ a \in DOMAIN u.archs /\ r \in DOMAIN u.archs[a].rows
          BY <1>1, <1>6, LiveAt DEF a, r
        <5>2. DOMAIN u.archs[a].rows = 1 .. last /\ last \in Nat
          BY <5>1, WorldFields
        <5>3. QED
          BY <5>1, <5>2
      <4>2. moved \in Live(u, G)
        BY <1>1, <4>1, RowIsLive
      <4>3. moved \in H /\ IsAlive(u, moved) /\ moved \notin G
        BY <4>2 DEF Live, Located
      <4>4. moved.idx # s[j].idx
        BY <3>1, <3>2, <4>3, OneAlive
      <4>5. x.loc = [u.loc EXCEPT ![moved.idx] = [arch |-> a, row |-> r]]
        BY <1>7, <3>3 DEF CutFrom
      <4>6. u.loc \in [Slots -> {None} \cup Place]
        BY <1>1, WorldFields DEF Fit
      <4> HIDE DEF moved
      <4>7. QED
        BY <3>1, <3>2, <4>4, <4>5, <4>6
    <3>4. CASE ~(r < last)
      <4>1. x.loc = u.loc
        BY <1>7, <3>4 DEF CutFrom
      <4>2. QED
        BY <3>1, <4>1
    <3>5. QED
      BY <3>3, <3>4
  <2>4. QED
    BY <1>3, <2>1, <2>2, <2>3
<1>13. CutTo(w, x, s, n)
  BY <1>5, <1>8, <1>9, <1>10, <1>11, <1>12 DEF CutTo
<1>14. QED
  BY <1>13 DEF x, a, r, e

LEMMA CutIs ==
  ASSUME NEW w, Fit(w, {}), NEW s, Distinct(w, s)
  PROVE  CutTo(w, RowsCut(w, s)[Len(s)], s, Len(s))
<1> DEFINE c == RowsCut(w, s)
           S == {n \in 0 .. Len(s) : CutTo(w, c[n], s, n)}
<1>1. Len(s) \in Nat /\ DOMAIN s = 1 .. Len(s)
  BY SeqIs DEF Distinct
<1>2. c[0] = w /\ \A n \in 1 .. Len(s) :
        c[n] = SwapRemoved(c[n - 1], w.loc[s[n].idx].arch, w.loc[s[n].idx].row)
  BY <1>1, CutUnfolds
<1> HIDE DEF c
<1>3. CutTo(w, w, s, 0)
  <2>1. First(s, 0) = {}
    BY DEF First
  <2>2. Gone(Meaning(w, {}), {}) = Meaning(w, {})
    BY MeaningIs DEF Gone, Only, IsMap
  <2>3. QED
    BY <2>1, <2>2 DEF CutTo, SameRest
<1>4. 0 \in S
  BY <1>1, <1>2, <1>3
<1>5. ASSUME NEW n \in 1 .. Len(s), n - 1 \in S
      PROVE  n \in S
  <2>1. CutTo(w, c[n - 1], s, n - 1) /\ n \in DOMAIN s
    BY <1>1, <1>5
  <2>2. CutTo(w, SwapRemoved(c[n - 1], w.loc[s[n].idx].arch, w.loc[s[n].idx].row), s, n)
    BY <2>1, CutNext
  <2>3. QED
    BY <1>1, <1>2, <2>2
<1> HIDE DEF S
<1>6. \A n \in 1 .. Len(s) : n - 1 \in S => n \in S
  BY <1>5
<1>7. \A n \in 0 .. Len(s) : n \in S
  BY <1>1, <1>4, <1>6, UpTo
<1>8. Len(s) \in S
  BY <1>1, <1>7
<1>9. QED
  BY <1>8 DEF S, c

LEMMA LiveFinite ==
  ASSUME NEW w, NEW E, E \subseteq Live(w, {})
  PROVE  IsFiniteSet(E)
<1> DEFINE f == [e \in E |-> e.idx]
<1>1. \A e \in E : e \in H /\ IsAlive(w, e) /\ e.idx \in Slots
  BY HandleIs DEF Live, Located
<1>2. f \in [E -> Slots]
  BY <1>1
<1>3. \A d, e \in E : f[d] = f[e] => d = e
  BY <1>1, OneAlive
<1>4. f \in Injection(E, Slots)
  <2>1. DOMAIN f = E
    OBVIOUS
  <2> HIDE DEF f
  <2>2. QED
    BY <1>2, <1>3, <2>1 DEF Injection, IsInjective
<1> HIDE DEF f
<1>5. IsFiniteSet(Slots)
  BY WorldAssumption
<1>6. QED
  BY <1>4, <1>5, FS_Injection

LEMMA DespawnedBatchKeeps ==
  ASSUME NEW w, Fit(w, {}), NEW E, E \subseteq Live(w, {})
  PROVE  /\ Fit(DespawnedBatch(w, E), {}) /\ Freed(w, DespawnedBatch(w, E), E)
         /\ Meaning(DespawnedBatch(w, E), {}) = Gone(Meaning(w, {}), E)
<1> DEFINE s == RowOrder(w, E)
           clean == SparseCleaned(w, s)[Len(s)]
           cut == RowsCut(clean, s)[Len(s)]
           u == DeallocAll(cut, E)
<1>1. DespawnedBatch(w, E) = u
  BY DEF DespawnedBatch
<1>2. InRows(w, E)
  <2>1. \A e \in E : w.loc[e.idx] \in Place
    BY LiveIs
  <2>2. QED
    BY <2>1, LiveFinite DEF Place, InRows
<1>3. /\ s \in [1 .. Cardinality(E) -> E] /\ Cardinality(E) \in Nat
      /\ IsInjective(s) /\ Descending(w, s)
      /\ \A e \in E : \E i \in 1 .. Cardinality(E) : s[i] = e
      /\ s \in Seq(E) /\ Len(s) = Cardinality(E)
  BY <1>2, RowOrderIs
<1> HIDE DEF s
<1>4. s \in Seq(H) /\ DOMAIN s = 1 .. Len(s)
  <2>1. E \subseteq H
    BY DEF Live
  <2>2. s \in [1 .. Len(s) -> H] /\ Len(s) \in Nat
    BY <1>3, <2>1
  <2>3. QED
    BY <2>2
<1>5. First(s, Len(s)) = E
  <2>1. First(s, Len(s)) = {s[i] : i \in 1 .. Len(s)}
    BY DEF First
  <2>2. \A i \in 1 .. Len(s) : s[i] \in E
    BY <1>3
  <2>3. \A e \in E : \E i \in 1 .. Len(s) : s[i] = e
    BY <1>3
  <2>4. QED
    BY ONLY <2>1, <2>2, <2>3
<1>6. CleanedTo(w, clean, s, Len(s))
  BY <1>4, CleanedIs
<1> HIDE DEF clean
<1>7. /\ OtherSparse(w, clean) /\ SparseFits(clean)
      /\ \A f \in H : f \in E => DenseIndex(clean, f) = None
      /\ \A f \in H : f \notin E => SameValue(w, clean, f)
  BY <1>5, <1>6 DEF CleanedTo
<1>8. /\ Fit(clean, {}) /\ Live(clean, {}) = Live(w, {}) /\ \A e : Row(clean, e) = Row(w, e)
  BY <1>7, SparseFit
<1>9. /\ clean.tick = w.tick /\ clean.gens = w.gens /\ clean.free = w.free /\ clean.loc = w.loc
  BY <1>7 DEF OtherSparse
<1>10. Gone(Meaning(clean, {}), E) = Gone(Meaning(w, {}), E)
  <2> DEFINE m == Meaning(clean, {})
             k == Meaning(w, {})
  <2>1. DOMAIN m = Live(w, {}) /\ DOMAIN k = Live(w, {})
    BY <1>8, MeaningIs
  <2>2. ASSUME NEW f \in Live(w, {}) \ E
        PROVE  m[f] = k[f]
    <3>1. SameValue(w, clean, f)
      BY <1>7 DEF Live
    <3>2. Over(clean, f, Row(clean, f).vals) = Over(w, f, Row(w, f).vals)
      BY <1>8, <3>1, SameValueOver
    <3>3. QED
      BY <1>8, <3>2, MeaningAt
  <2> HIDE DEF m, k
  <2>3. Gone(m, E) = Gone(k, E)
    BY <2>1, <2>2 DEF Gone, Only
  <2>4. QED
    BY <2>3 DEF m, k
<1>11. Distinct(clean, s)
  <2>1. \A j \in DOMAIN s : s[j] \in Live(clean, {})
    BY <1>3, <1>8
  <2>2. Descending(clean, s)
    BY <1>3, <1>9 DEF Descending
  <2>3. QED
    BY <1>3, <1>4, <2>1, <2>2 DEF Distinct
<1>12. CutTo(clean, cut, s, Len(s))
  BY <1>8, <1>11, CutIs
<1> HIDE DEF cut
<1>13. /\ Fit(cut, E) /\ SameRest(clean, cut)
       /\ Meaning(cut, E) = Gone(Meaning(clean, {}), E)
       /\ \A j \in DOMAIN s : cut.loc[s[j].idx] = clean.loc[s[j].idx]
  BY <1>5, <1>12 DEF CutTo
<1>14. /\ cut.tick = w.tick /\ cut.gens = w.gens /\ cut.free = w.free
       /\ cut.pages = clean.pages /\ cut.dense = clean.dense
  BY <1>9, <1>13 DEF SameRest
<1>15. ASSUME NEW e \in E
       PROVE  e \in H /\ Located(cut, e) /\ DenseIndex(cut, e) = None
  <2>1. e \in H /\ Located(w, e)
    BY DEF Live
  <2>2. DenseIndex(cut, e) = None
    BY <1>7, <1>14, <2>1, SameDense
  <2>3. PICK j \in DOMAIN s : s[j] = e
    BY <1>3, <1>4
  <2>4. cut.loc[e.idx] = w.loc[e.idx]
    BY <1>9, <1>13, <2>3
  <2>5. Located(cut, e)
    BY <1>14, <2>1, <2>4 DEF Located, IsAlive, IsPlaced
  <2>6. QED
    BY <2>1, <2>2, <2>5
<1>16. Fit(u, {}) /\ Meaning(u, {}) = Meaning(cut, E)
  BY <1>13, <1>15, DeallocKeeps
<1>17. Freed(cut, u, E)
  BY <1>13, DeallocFrees DEF Fit
<1>18. Freed(w, u, E)
  BY <1>14, <1>17 DEF Freed
<1>19. QED
  BY <1>1, <1>10, <1>13, <1>16, <1>18

-----------------------------------------------------------------------------
(* What the callers pass.                                                  *)
LEMMA BundleIs ==
  ASSUME NEW vals \in Bundles \cup Linked
  PROVE  vals \in On(V)
<1>1. DOMAIN vals \subseteq Components /\ vals = [c \in DOMAIN vals |-> vals[c]]
  BY WorldAssumption
<1>2. Range(vals) \subseteq V
  BY DEF V
<1>3. \A c \in DOMAIN vals : vals[c] \in V
  BY <1>2 DEF Range
<1>4. vals \in [DOMAIN vals -> V]
  BY <1>1, <1>3
<1>5. QED
  BY <1>1, <1>4, OnIs

LEMMA ValuesAre ==
  /\ Values \subseteq V /\ SparseValues \subseteq V /\ Key \in Components /\ Sparse \notin Components
<1>1. Key \in Components /\ Sparse \notin Components
  BY KeyIsStored
<1>2. \A x : x \in Values \/ x \in SparseValues => x \in V
  BY DEF V
<1>3. QED
  BY <1>1, <1>2

LEMMA JustOn ==
  ASSUME NEW c \in Components, NEW v \in V
  PROVE  Just(c, v) \in On(V) /\ DOMAIN Just(c, v) = {c}
<1>1. DOMAIN Just(c, v) = {c} /\ Just(c, v) \in [{c} -> V]
  BY DEF Just
<1>2. QED
  BY <1>1, OnIs

(* The components of an entity are those of its archetype.                 *)
LEMMA HasColumn ==
  ASSUME NEW w, Fit(w, {}), NEW e \in Live(w, {}), NEW c \in Components
  PROVE  c \in DOMAIN Meaning(w, {})[e] <=> c \in ArchAt(w, e).ids
<1>1. Row(w, e).vals \in On(V) /\ DOMAIN Row(w, e).vals = ArchAt(w, e).ids
  BY LiveIs
<1>2. Meaning(w, {})[e] = Over(w, e, Row(w, e).vals)
  BY MeaningAt
<1>3. c # Sparse
  BY KeyIsStored
<1> DEFINE vals == Row(w, e).vals
<1>4. \/ DOMAIN Over(w, e, vals) = DOMAIN vals
      \/ DOMAIN Over(w, e, vals) = {Sparse} \cup DOMAIN vals
  BY <1>1, OverIs
<1> HIDE DEF vals
<1>5. c \in DOMAIN Over(w, e, vals) <=> c \in DOMAIN vals
  BY <1>3, <1>4
<1>6. QED
  BY <1>1, <1>2, <1>5 DEF vals

LEMMA MarkSame ==
  ASSUME NEW w, Fit(w, {}), NEW a \in DOMAIN w.archs, NEW cols, NEW tick \in Nat, tick <= w.tick
  PROVE  /\ Fit(Marked(w, a, cols, tick), {}) /\ Steady(w, Marked(w, a, cols, tick))
         /\ Meaning(Marked(w, a, cols, tick), {}) = Meaning(w, {})
<1> DEFINE u == Marked(w, a, cols, tick)
<1>1. MarkedFrom(w, u, {a}, cols, tick)
  BY MarkedIs DEF Fit
<1> HIDE DEF u
<1>2. Fit(u, {}) /\ Meaning(u, {}) = Meaning(w, {})
  BY <1>1, MarkKeeps
<1>3. Steady(w, u)
  BY <1>1 DEF MarkedFrom, SameRest, Steady
<1>4. QED
  BY <1>2, <1>3 DEF u

LEMMA SteadyTwice ==
  ASSUME NEW w, NEW u, NEW x, Steady(w, u), Steady(u, x)
  PROVE  Steady(w, x)
  BY DEF Steady

LEMMA FitTick ==
  ASSUME NEW w, NEW G, Fit(w, G)
  PROVE  w \in Worlds /\ w.tick \in Nat
  BY WorldFields DEF Fit

(* A write in place, and the columns that are marked.                      *)
LEMMA WriteMarkKeeps ==
  ASSUME NEW w, Fit(w, {}), NEW e \in Live(w, {}), NEW vals \in On(V), NEW cols, NEW u,
         DOMAIN vals \subseteq ArchAt(w, e).ids, NEW a, a = w.loc[e.idx].arch,
         u = Marked(Overwritten(w, a, w.loc[e.idx].row, vals), a, cols, w.tick)
  PROVE  /\ Fit(u, {}) /\ Steady(w, u) /\ Meaning(u, {}) = Given(Meaning(w, {}), e, vals)
<1> DEFINE r == w.loc[e.idx].row
           x == Overwritten(w, a, r, vals)
<1>def. InRow(w, e, a, r) /\ u = Marked(x, a, cols, w.tick)
  BY DEF InRow
<1> HIDE DEF r
<1>1. /\ Fit(x, {}) /\ Steady(w, x) /\ SameRows(w, x)
      /\ Meaning(x, {}) = Given(Meaning(w, {}), e, vals)
  BY <1>def, OverwrittenKeeps
<1>2. a \in DOMAIN w.archs
  BY LiveAt
<1> HIDE DEF x
<1>3. a \in DOMAIN x.archs /\ w.tick \in Nat /\ w.tick <= x.tick
  BY <1>1, <1>2, FitTick DEF SameRows, Steady
<1>4. u = Marked(x, a, cols, w.tick)
  BY <1>def
<1>5. Fit(u, {}) /\ Steady(x, u) /\ Meaning(u, {}) = Meaning(x, {})
  BY <1>1, <1>3, <1>4, MarkSame
<1>6. QED
  BY <1>1, <1>5, SteadyTwice

(* Components added by a move.                                             *)
LEMMA AddKeeps ==
  ASSUME NEW w, Fit(w, {}), NEW e \in Live(w, {}), NEW vals \in On(V), NEW all, NEW m, NEW u,
         ~(DOMAIN vals \subseteq ArchAt(w, e).ids), all = Overlay(vals, Row(w, e).vals),
         m = Migrated(w, e, all), u = Marked(m, ArchOf(m, DOMAIN all), DOMAIN all, w.tick)
  PROVE  /\ Fit(u, {}) /\ Steady(w, u) /\ Meaning(u, {}) = Given(Meaning(w, {}), e, vals)
<1>1. Row(w, e).vals \in On(V) /\ DOMAIN Row(w, e).vals = ArchAt(w, e).ids
  BY LiveIs
<1>2. all \in On(V) /\ DOMAIN all = DOMAIN vals \cup DOMAIN Row(w, e).vals
  <2> DEFINE old == Row(w, e).vals
  <2>1. old \in On(V)
    BY <1>1
  <2> HIDE DEF old
  <2>2. Overlay(vals, old) \in On(V)
    BY <2>1, OverlayOn
  <2>3. DOMAIN Overlay(vals, old) = DOMAIN vals \cup DOMAIN old
    BY OverlayIs
  <2>4. QED
    BY <2>2, <2>3 DEF old
<1>3. DOMAIN all # ArchAt(w, e).ids
  BY <1>1, <1>2
<1>4. /\ Fit(m, {}) /\ Steady(w, m)
      /\ Meaning(m, {}) = Overlay(Just(e, Over(w, e, all)), Meaning(w, {}))
      /\ ArchOf(m, DOMAIN all) \in DOMAIN m.archs
  BY <1>2, <1>3, MigratedKeeps
<1>5. w.tick \in Nat /\ w.tick <= m.tick
  BY <1>4, FitTick DEF Steady
<1>6. Fit(u, {}) /\ Steady(m, u) /\ Meaning(u, {}) = Meaning(m, {})
  BY <1>4, <1>5, MarkSame
<1>7. Over(w, e, all) = Overlay(vals, Meaning(w, {})[e])
  <2>1. Overlay(vals, Over(w, e, Row(w, e).vals)) = Over(w, e, Overlay(vals, Row(w, e).vals))
    BY <1>1, OverGiven
  <2>2. Meaning(w, {})[e] = Over(w, e, Row(w, e).vals)
    BY MeaningAt
  <2>3. QED
    BY <2>1, <2>2
<1>8. e \in DOMAIN Meaning(w, {})
  BY MeaningIs
<1>9. Meaning(m, {}) = Given(Meaning(w, {}), e, vals)
  BY <1>4, <1>7, <1>8 DEF Given
<1>10. QED
  BY <1>4, <1>6, <1>9, SteadyTwice

(* A component taken by a move.                                            *)
LEMMA TakeKeeps ==
  ASSUME NEW w, Fit(w, {}), NEW e \in Live(w, {}), NEW c \in Components, c \in ArchAt(w, e).ids,
         NEW kept, NEW m,
         kept = Only(Row(w, e).vals, ArchAt(w, e).ids \ {c}), m = Migrated(w, e, kept)
  PROVE  /\ Fit(m, {}) /\ Steady(w, m) /\ Meaning(m, {}) = Taken(Meaning(w, {}), e, c)
         /\ ArchOf(m, DOMAIN kept) \in DOMAIN m.archs
<1> DEFINE k == Meaning(w, {})
           vals == Row(w, e).vals
<1>1. vals \in On(V) /\ DOMAIN vals = ArchAt(w, e).ids
  BY LiveIs
<1>2. kept \in On(V) /\ DOMAIN kept = DOMAIN vals \ {c} /\ kept = Only(vals, DOMAIN vals \ {c})
  BY <1>1, OnlyOn
<1>3. DOMAIN kept # ArchAt(w, e).ids
  BY <1>1, <1>2
<1>4. /\ Fit(m, {}) /\ Steady(w, m)
      /\ Meaning(m, {}) = Overlay(Just(e, Over(w, e, kept)), k)
      /\ ArchOf(m, DOMAIN kept) \in DOMAIN m.archs
  BY <1>2, <1>3, MigratedKeeps
<1>5. k[e] = Over(w, e, vals)
  BY MeaningAt
<1> HIDE DEF vals
<1>6. Over(w, e, kept) = Only(k[e], DOMAIN k[e] \ {c})
  BY <1>1, <1>2, <1>5, OverTaken
<1>7. e \in DOMAIN k /\ IsMap(k)
  BY MeaningIs
<1> HIDE DEF k
<1>8. Overlay(Just(e, Over(w, e, kept)), k) = Taken(k, e, c)
  <2> DEFINE x == Over(w, e, kept)
             f == Overlay(Just(e, x), k)
             g == [k EXCEPT ![e] = x]
  <2>1. Taken(k, e, c) = g
    BY <1>6 DEF Taken
  <2>2. DOMAIN Just(e, x) = {e} /\ Just(e, x)[e] = x
    BY JustIs
  <2>3. f[e] = x
    BY <2>2, OverlayNew
  <2>4. \A y \in DOMAIN k \ {e} : f[y] = k[y]
    BY <2>2, OverlayOld
  <2>5. DOMAIN f = DOMAIN k /\ IsMap(f)
    <3> DEFINE j == Just(e, x)
    <3> HIDE DEF j
    <3>1. DOMAIN Overlay(j, k) = DOMAIN j \cup DOMAIN k /\ IsMap(Overlay(j, k))
      BY OverlayIs
    <3>2. DOMAIN j = {e}
      BY <2>2 DEF j
    <3>3. QED
      BY <1>7, <3>1, <3>2 DEF j
  <2> HIDE DEF x, f
  <2>6. f = g
    BY <1>7, <2>3, <2>4, <2>5 DEF IsMap
  <2>7. QED
    BY <2>1, <2>6 DEF f, x
<1>9. QED
  BY <1>4, <1>8 DEF k

-----------------------------------------------------------------------------
(* The direct calls.                                                       *)
LEMMA AllocatedKeeps ==
  ASSUME NEW w, Fit(w, {}), NEW s \in Slots
  PROVE  /\ Fit(Allocated(w, s), {}) /\ Meaning(Allocated(w, s), {}) = Meaning(w, {})
         /\ Allocated(w, s).free = w.free \ {s} /\ Allocated(w, s).gens = w.gens
         /\ Allocated(w, s).loc = w.loc /\ Allocated(w, s).tick = w.tick
<1> DEFINE u == Allocated(w, s)
<1>1. /\ w \in Worlds /\ Columns(w) /\ RowsFound(w, {}) /\ LocationsHold(w, {})
      /\ FreeUnplaced(w) /\ SparseFits(w)
  BY DEF Fit
<1>2. /\ u \in Worlds /\ u.free = w.free \ {s} /\ u.gens = w.gens /\ u.loc = w.loc
      /\ u.tick = w.tick /\ u.archs = w.archs /\ u.pages = w.pages /\ u.dense = w.dense
  BY <1>1 DEF Allocated, Worlds
<1> HIDE DEF u
<1>3. \A e : Located(u, e) <=> Located(w, e)
  BY <1>2 DEF Located, IsAlive, IsPlaced
<1>4. Columns(u)
  BY <1>1, <1>2 DEF Columns
<1>5. RowsFound(u, {})
  <2>1. \A h, a, r : FoundAt(w, h, a, r) <=> FoundAt(u, h, a, r)
    BY <1>2 DEF FoundAt
  <2>2. QED
    BY <1>1, <1>2, <2>1 DEF RowsFound
<1>6. LocationsHold(u, {})
  BY Zenon, <1>1, <1>2, <1>3 DEF LocationsHold, Stored, StoredAt
<1>7. FreeUnplaced(u)
  BY <1>1, <1>2 DEF FreeUnplaced
<1>8. SparseFits(u)
  BY <1>1, <1>2, <1>3 DEF SparseFits
<1>9. Live(u, {}) = Live(w, {})
  BY <1>3 DEF Live
<1>10. \A e \in Live(w, {}) : Over(u, e, Row(u, e).vals) = Over(w, e, Row(w, e).vals)
  BY <1>2, SameSparse DEF Row, ArchAt
<1>11. Meaning(u, {}) = Meaning(w, {})
  BY <1>9, <1>10, SameMeaning
<1>12. QED
  BY <1>2, <1>4, <1>5, <1>6, <1>7, <1>8, <1>11 DEF Fit, u

LEMMA SpawnedKeeps ==
  ASSUME NEW w, Fit(w, {}), NEW s \in w.free, NEW vals \in On(V)
  PROVE  /\ Fit(Spawned(w, s, vals), {})
         /\ Meaning(Spawned(w, s, vals), {}) = Given(Meaning(w, {}), Handle(w, s), vals)
         /\ Spawned(w, s, vals).gens = w.gens /\ Spawned(w, s, vals).free = w.free \ {s}
<1> DEFINE t == NextTick(w)
           x == Allocated(t, s)
           e == Handle(w, s)
           u == Placed(x, e, vals, t.tick)
<1>1. Spawned(w, s, vals) = u
  BY DEF Spawned
<1>2. s \in Slots /\ w.loc[s] = None /\ w.gens[s] \in Nat
  BY WorldFields DEF Fit, FreeUnplaced
<1>3. e \in H /\ e.idx = s /\ e.gen = w.gens[s]
  BY <1>2 DEF Handle, H
<1>4. /\ Fit(t, {}) /\ Meaning(t, {}) = Meaning(w, {}) /\ t.gens = w.gens /\ t.free = w.free
      /\ t.loc = w.loc /\ t.tick \in Nat
  BY TickKeeps
<1> HIDE DEF t, e
<1>5. /\ Fit(x, {}) /\ Meaning(x, {}) = Meaning(t, {}) /\ x.free = t.free \ {s}
      /\ x.gens = t.gens /\ x.loc = t.loc /\ x.tick = t.tick
  BY <1>2, <1>4, AllocatedKeeps
<1> HIDE DEF x
<1>6. IsAlive(x, e) /\ ~IsPlaced(x, e) /\ e.idx \notin x.free /\ t.tick <= x.tick
  BY <1>2, <1>3, <1>4, <1>5 DEF IsAlive, IsPlaced
<1>7. Fit(u, {}) /\ Steady(x, u) /\ Meaning(u, {}) = Given(Meaning(x, {}), e, vals)
  BY <1>3, <1>4, <1>5, <1>6, PlacedKeeps
<1>8. u.gens = w.gens /\ u.free = w.free \ {s}
  BY <1>4, <1>5, <1>7 DEF Steady
<1>9. Meaning(u, {}) = Given(Meaning(w, {}), e, vals)
  BY <1>4, <1>5, <1>7
<1>10. QED
  BY <1>1, <1>7, <1>8, <1>9 DEF e

LEMMA SpawnedTwiceKeeps ==
  ASSUME NEW w, Fit(w, {}), NEW s \in w.free, NEW t \in w.free, s # t, NEW vals \in On(V)
  PROVE  /\ Fit(Spawned(Spawned(w, s, vals), t, vals), {})
         /\ Meaning(Spawned(Spawned(w, s, vals), t, vals), {})
              = Given(Given(Meaning(w, {}), Handle(w, s), vals), Handle(w, t), vals)
<1> DEFINE x == Spawned(w, s, vals)
           u == Spawned(x, t, vals)
<1>1. /\ Fit(x, {}) /\ Meaning(x, {}) = Given(Meaning(w, {}), Handle(w, s), vals)
      /\ x.gens = w.gens /\ x.free = w.free \ {s}
  BY SpawnedKeeps
<1> HIDE DEF x
<1>2. t \in x.free
  BY <1>1
<1>3. Fit(u, {}) /\ Meaning(u, {}) = Given(Meaning(x, {}), Handle(x, t), vals)
  BY <1>1, <1>2, SpawnedKeeps
<1>4. Handle(x, t) = Handle(w, t)
  BY <1>1 DEF Handle
<1>5. QED
  BY <1>1, <1>3, <1>4 DEF x

LEMMA TickSame ==
  ASSUME NEW w, Fit(w, {}), NEW e, NEW t, t = NextTick(w)
  PROVE  /\ Fit(t, {}) /\ Meaning(t, {}) = Meaning(w, {}) /\ Live(t, {}) = Live(w, {})
         /\ t.loc = w.loc /\ t.archs = w.archs /\ ArchAt(t, e) = ArchAt(w, e) /\ Row(t, e) = Row(w, e)
<1>1. /\ Fit(t, {}) /\ Meaning(t, {}) = Meaning(w, {}) /\ Live(t, {}) = Live(w, {})
      /\ t.loc = w.loc /\ t.archs = w.archs
  BY TickKeeps
<1>2. QED
  BY <1>1 DEF ArchAt, Row

LEMMA GotMutKeeps ==
  ASSUME NEW w, Fit(w, {}), NEW e \in Live(w, {}), NEW c \in Components, NEW v \in V
  PROVE  /\ Fit(GotMut(w, e, c, v), {})
         /\ Meaning(GotMut(w, e, c, v), {})
              = IF c \in DOMAIN Meaning(w, {})[e] THEN Given(Meaning(w, {}), e, Just(c, v))
                ELSE Meaning(w, {})
<1> DEFINE t == NextTick(w)
           a == w.loc[e.idx].arch
           r == w.loc[e.idx].row
           u == Marked(Overwritten(t, a, r, Just(c, v)), a, {c}, t.tick)
<1>1. GotMut(w, e, c, v) = IF c \in ArchAt(w, e).ids THEN u ELSE t
  BY DEF GotMut
<1>2. c \in DOMAIN Meaning(w, {})[e] <=> c \in ArchAt(w, e).ids
  BY HasColumn
<1>3. /\ Fit(t, {}) /\ Meaning(t, {}) = Meaning(w, {}) /\ Live(t, {}) = Live(w, {})
      /\ t.loc = w.loc /\ ArchAt(t, e) = ArchAt(w, e)
  BY TickSame
<1>4. CASE c \in ArchAt(w, e).ids
  <2>1. Just(c, v) \in On(V) /\ DOMAIN Just(c, v) \subseteq ArchAt(t, e).ids
    BY <1>3, <1>4, JustOn
  <2>2. e \in Live(t, {}) /\ a = t.loc[e.idx].arch /\ r = t.loc[e.idx].row
    BY <1>3
  <2> HIDE DEF t, a, r
  <2>3. u = Marked(Overwritten(t, a, t.loc[e.idx].row, Just(c, v)), a, {c}, t.tick)
    BY <2>2
  <2> HIDE DEF u
  <2>4. Fit(u, {}) /\ Meaning(u, {}) = Given(Meaning(t, {}), e, Just(c, v))
    BY <1>3, <2>1, <2>2, <2>3, WriteMarkKeeps
  <2>5. QED
    BY <1>1, <1>2, <1>3, <1>4, <2>4
<1>5. CASE c \notin ArchAt(w, e).ids
  BY <1>1, <1>2, <1>3, <1>5
<1>6. QED
  BY <1>4, <1>5

LEMMA InsertedKeeps ==
  ASSUME NEW w, Fit(w, {}), NEW e \in Live(w, {}), NEW vals \in On(V)
  PROVE  /\ Fit(Inserted(w, e, vals), {})
         /\ Meaning(Inserted(w, e, vals), {}) = Given(Meaning(w, {}), e, vals)
<1> DEFINE t == NextTick(w)
           a == w.loc[e.idx].arch
           r == w.loc[e.idx].row
           all == Overlay(vals, Row(w, e).vals)
           m == Migrated(t, e, all)
           u == Marked(Overwritten(t, a, r, vals), a, DOMAIN vals, t.tick)
           x == Marked(m, ArchOf(m, DOMAIN all), DOMAIN all, t.tick)
<1>1. Inserted(w, e, vals) = IF DOMAIN vals \subseteq ArchAt(w, e).ids THEN u ELSE x
  BY DEF Inserted
<1>2. /\ Fit(t, {}) /\ Meaning(t, {}) = Meaning(w, {}) /\ Live(t, {}) = Live(w, {})
      /\ t.loc = w.loc /\ ArchAt(t, e) = ArchAt(w, e) /\ Row(t, e) = Row(w, e)
  BY TickSame
<1>3. /\ e \in Live(t, {}) /\ a = t.loc[e.idx].arch /\ r = t.loc[e.idx].row
      /\ all = Overlay(vals, Row(t, e).vals)
  BY <1>2
<1> HIDE DEF t, a, r, all
<1>4. CASE DOMAIN vals \subseteq ArchAt(w, e).ids
  <2>1. u = Marked(Overwritten(t, a, t.loc[e.idx].row, vals), a, DOMAIN vals, t.tick)
    BY <1>3
  <2> HIDE DEF u
  <2>2. Fit(u, {}) /\ Meaning(u, {}) = Given(Meaning(t, {}), e, vals)
    BY <1>2, <1>3, <1>4, <2>1, WriteMarkKeeps
  <2>3. QED
    BY <1>1, <1>2, <1>4, <2>2
<1>5. CASE ~(DOMAIN vals \subseteq ArchAt(w, e).ids)
  <2>1. m = Migrated(t, e, all) /\ x = Marked(m, ArchOf(m, DOMAIN all), DOMAIN all, t.tick)
    OBVIOUS
  <2> HIDE DEF m, x
  <2>2. Fit(x, {}) /\ Meaning(x, {}) = Given(Meaning(t, {}), e, vals)
    BY <1>2, <1>3, <1>5, <2>1, AddKeeps
  <2>3. QED
    BY <1>1, <1>2, <1>5, <2>2
<1>6. QED
  BY <1>4, <1>5

LEMMA NothingTaken ==
  ASSUME NEW m, IsMap(m), NEW e \in DOMAIN m, IsMap(m[e]), NEW c, c \notin DOMAIN m[e]
  PROVE  Taken(m, e, c) = m
<1> DEFINE f == m[e]
<1>1. Only(f, DOMAIN f \ {c}) = f
  BY DEF Only, IsMap
<1>2. Taken(m, e, c) = [m EXCEPT ![e] = f]
  BY <1>1 DEF Taken
<1>3. QED
  BY <1>2 DEF IsMap

LEMMA RemovedKeeps ==
  ASSUME NEW w, Fit(w, {}), NEW e \in Live(w, {}), NEW c \in Components
  PROVE  /\ Fit(Removed(w, e, c), {})
         /\ Meaning(Removed(w, e, c), {}) = Taken(Meaning(w, {}), e, c)
<1> DEFINE kept == Only(Row(w, e).vals, ArchAt(w, e).ids \ {c})
           m == Migrated(w, e, kept)
           k == Meaning(w, {})
<1>1. Removed(w, e, c) = IF c \in ArchAt(w, e).ids THEN m ELSE w
  BY DEF Removed
<1>2. c \in DOMAIN k[e] <=> c \in ArchAt(w, e).ids
  BY HasColumn
<1>3. CASE c \in ArchAt(w, e).ids
  <2>1. kept = Only(Row(w, e).vals, ArchAt(w, e).ids \ {c}) /\ m = Migrated(w, e, kept)
    OBVIOUS
  <2> HIDE DEF kept, m
  <2>2. Fit(m, {}) /\ Meaning(m, {}) = Taken(k, e, c)
    BY <1>3, <2>1, TakeKeeps
  <2>3. QED
    BY <1>1, <1>3, <2>2
<1>4. CASE c \notin ArchAt(w, e).ids
  <2>1. IsMap(k) /\ e \in DOMAIN k
    BY MeaningIs
  <2>2. IsMap(k[e])
    <3> DEFINE vals == Row(w, e).vals
    <3>1. k[e] = Over(w, e, vals) /\ vals \in On(V)
      BY MeaningAt, LiveIs
    <3> HIDE DEF vals, k
    <3>2. IsMap(Over(w, e, vals))
      BY <3>1, OverIs
    <3>3. QED
      BY <3>1, <3>2
  <2> HIDE DEF k
  <2>4. Taken(k, e, c) = k
    BY <1>2, <1>4, <2>1, <2>2, NothingTaken
  <2>5. QED
    BY <1>1, <1>4, <2>4 DEF k
<1>5. QED
  BY <1>3, <1>4

(* The rows of some archetypes are those of the entities located there.    *)
LEMMA EntitiesAre ==
  ASSUME NEW w, NEW A, NEW e
  PROVE  e \in EntitiesOf(w, A)
           <=> \E a \in A : \E r \in DOMAIN w.archs[a].rows : w.archs[a].rows[r].ent = e
<1>1. ASSUME e \in EntitiesOf(w, A)
      PROVE  \E a \in A : \E r \in DOMAIN w.archs[a].rows : w.archs[a].rows[r].ent = e
  <2>1. PICK x \in RowsOf(w, A) : x.ent = e
    BY <1>1 DEF EntitiesOf
  <2>2. PICK a \in A : x \in Range(w.archs[a].rows)
    BY <2>1 DEF RowsOf
  <2>3. PICK r \in DOMAIN w.archs[a].rows : w.archs[a].rows[r] = x
    BY <2>2 DEF Range
  <2>4. QED
    BY <2>1, <2>3
<1>2. ASSUME NEW a \in A, NEW r \in DOMAIN w.archs[a].rows, w.archs[a].rows[r].ent = e
      PROVE  e \in EntitiesOf(w, A)
  <2>1. w.archs[a].rows[r] \in Range(w.archs[a].rows)
    BY DEF Range
  <2>2. w.archs[a].rows[r] \in RowsOf(w, A)
    BY <2>1 DEF RowsOf
  <2>3. QED
    BY <1>2, <2>2 DEF EntitiesOf
<1>3. QED
  BY <1>1, <1>2

LEMMA EntitiesAt ==
  ASSUME NEW w, Fit(w, {}), NEW A, A \subseteq DOMAIN w.archs, NEW e \in Live(w, {})
  PROVE  e \in EntitiesOf(w, A) <=> w.loc[e.idx].arch \in A
<1>1. e \in EntitiesOf(w, A)
        <=> \E a \in A : \E r \in DOMAIN w.archs[a].rows : w.archs[a].rows[r].ent = e
  BY EntitiesAre
<1>2. ASSUME NEW a \in A, NEW r \in DOMAIN w.archs[a].rows, w.archs[a].rows[r].ent = e
      PROVE  w.loc[e.idx].arch = a
  <2>1. w.loc[e.idx] = [arch |-> a, row |-> r]
    BY <1>2, RowIsLive
  <2>2. QED
    BY <2>1
<1> DEFINE a == w.loc[e.idx].arch
           r == w.loc[e.idx].row
<1>3. a \in DOMAIN w.archs /\ r \in DOMAIN w.archs[a].rows /\ w.archs[a].rows[r].ent = e
  BY LiveAt
<1>4. QED
  BY <1>1, <1>2, <1>3

LEMMA MarkAllSame ==
  ASSUME NEW w, Fit(w, {}), NEW A, NEW cols, NEW tick \in Nat, tick <= w.tick
  PROVE  /\ Fit(MarkedAll(w, A, cols, tick), {})
         /\ Meaning(MarkedAll(w, A, cols, tick), {}) = Meaning(w, {})
         /\ Live(MarkedAll(w, A, cols, tick), {}) = Live(w, {})
         /\ Steady(w, MarkedAll(w, A, cols, tick))
         /\ \A e \in Live(w, {}) : ArchAt(MarkedAll(w, A, cols, tick), e).ids = ArchAt(w, e).ids
<1> DEFINE u == MarkedAll(w, A, cols, tick)
<1>1. MarkedFrom(w, u, A, cols, tick)
  BY MarkedAllIs DEF Fit
<1> HIDE DEF u
<1>2. Fit(u, {}) /\ Meaning(u, {}) = Meaning(w, {}) /\ Live(u, {}) = Live(w, {})
  BY <1>1, MarkKeeps
<1>3. Steady(w, u)
  BY <1>1 DEF MarkedFrom, SameRest, Steady
<1>4. ASSUME NEW e \in Live(w, {})
      PROVE  ArchAt(u, e).ids = ArchAt(w, e).ids
  <2> DEFINE a == w.loc[e.idx].arch
  <2>1. a \in DOMAIN w.archs
    BY LiveAt
  <2>2. ArchAt(w, e) = w.archs[a] /\ ArchAt(u, e) = u.archs[a]
    BY <1>1 DEF ArchAt, MarkedFrom
  <2> HIDE DEF a
  <2>3. QED
    BY <1>1, <2>1, <2>2 DEF MarkedFrom
<1>5. QED
  BY <1>2, <1>3, <1>4 DEF u

(* A value for one component of many entities.                             *)
Swept(m, E, c, v) == [e \in DOMAIN m |-> IF e \in E THEN Overlay(Just(c, v), m[e]) ELSE m[e]]

LEMMA SweptIs ==
  ASSUME NEW m, NEW E, NEW F, NEW c, NEW v, \A e \in DOMAIN m : e \in E <=> e \in F
  PROVE  Swept(m, E, c, v) = Swept(m, F, c, v)
  BY DEF Swept

LEMMA RewrittenMeans ==
  ASSUME NEW w, NEW E, NEW c \in Components, NEW v \in V, Fit(w, {}),
         \A e \in Live(w, {}) : e \in E => c \in ArchAt(w, e).ids
  PROVE  /\ Fit(Rewritten(w, E, c, v), {}) /\ Steady(w, Rewritten(w, E, c, v))
         /\ Meaning(Rewritten(w, E, c, v), {}) = Swept(Meaning(w, {}), E, c, v)
<1>1. DOMAIN Meaning(w, {}) = Live(w, {})
  BY MeaningIs
<1>2. QED
  BY <1>1, RewrittenKeeps DEF Swept

LEMMA GotBatchMutKeeps ==
  ASSUME NEW w, Fit(w, {}), NEW E, E \subseteq Live(w, {}), NEW c \in Components, NEW v \in V,
         NEW F, \A e \in Live(w, {}) : e \in F <=> e \in E /\ c \in DOMAIN Meaning(w, {})[e]
  PROVE  /\ Fit(GotBatchMut(w, E, c, v), {})
         /\ Meaning(GotBatchMut(w, E, c, v), {}) = Swept(Meaning(w, {}), F, c, v)
<1> DEFINE t == NextTick(w)
           found == {e \in E : c \in ArchAt(w, e).ids}
           x == Rewritten(t, found, c, v)
           A == {w.loc[e.idx].arch : e \in found}
           u == MarkedAll(x, A, {c}, t.tick)
<1>1. GotBatchMut(w, E, c, v) = u
  BY DEF GotBatchMut
<1>2. \A e : ArchAt(t, e) = ArchAt(w, e)
  BY TickSame
<1>3. /\ Fit(t, {}) /\ Meaning(t, {}) = Meaning(w, {}) /\ Live(t, {}) = Live(w, {})
      /\ t.tick \in Nat
  BY TickKeeps
<1> HIDE DEF t
<1>4. \A e \in Live(t, {}) : e \in found => c \in ArchAt(t, e).ids
  BY <1>2
<1>5. ASSUME NEW e \in DOMAIN Meaning(w, {})
      PROVE  e \in found <=> e \in F
  <2>1. e \in Live(w, {})
    BY MeaningIs
  <2>2. c \in DOMAIN Meaning(w, {})[e] <=> c \in ArchAt(w, e).ids
    BY <2>1, HasColumn
  <2>3. QED
    BY <2>1, <2>2
<1> HIDE DEF found, A
<1>6. Fit(x, {}) /\ Steady(t, x) /\ Meaning(x, {}) = Swept(Meaning(t, {}), found, c, v)
  BY <1>3, <1>4, RewrittenMeans
<1>7. Swept(Meaning(w, {}), found, c, v) = Swept(Meaning(w, {}), F, c, v)
  BY <1>5, SweptIs
<1> HIDE DEF x
<1>8. t.tick <= x.tick
  BY <1>3, <1>6 DEF Steady
<1>9. Fit(u, {}) /\ Meaning(u, {}) = Meaning(x, {})
  BY <1>3, <1>6, <1>8, MarkAllSame
<1>10. QED
  BY <1>1, <1>3, <1>6, <1>7, <1>9

LEMMA TableMutKeeps ==
  ASSUME NEW w, Fit(w, {}), NEW ids \in SUBSET Components, NEW c \in ids, NEW v \in V,
         NEW F, \A e \in Live(w, {}) : e \in F <=> ArchAt(w, e).ids = ids
  PROVE  /\ Fit(TableMut(w, ids, c, v), {})
         /\ Meaning(TableMut(w, ids, c, v), {}) = Swept(Meaning(w, {}), F, c, v)
<1> DEFINE t == NextTick(w)
           made == GetOrCreate(t, ids)
           a == ArchOf(made, ids)
           x == Marked(made, a, ids, t.tick)
           E == EntitiesOf(made, {a})
           u == Rewritten(x, E, c, v)
<1>1. TableMut(w, ids, c, v) = u
  BY DEF TableMut
<1>2. /\ Fit(t, {}) /\ Meaning(t, {}) = Meaning(w, {}) /\ Live(t, {}) = Live(w, {})
      /\ t.tick \in Nat /\ t.loc = w.loc /\ t.archs = w.archs
  BY TickKeeps
<1> HIDE DEF t
<1>3. GrownFor(t, made, ids)
  BY <1>2, GetOrCreateIs DEF Fit
<1> HIDE DEF made
<1>4. Fit(made, {}) /\ Meaning(made, {}) = Meaning(t, {}) /\ Live(made, {}) = Live(t, {})
  BY <1>2, <1>3, GrowKeeps
<1>5. /\ a \in DOMAIN made.archs /\ made.archs[a].ids = ids /\ made.loc = w.loc
      /\ made.tick = t.tick /\ \A b \in DOMAIN w.archs : made.archs[b] = w.archs[b]
  BY <1>2, <1>3 DEF GrownFor, SameRest
<1> HIDE DEF a
<1>6. MarkedFrom(made, x, {a}, ids, t.tick)
  BY <1>2, <1>4, <1>5, MarkedIs DEF Fit
<1> HIDE DEF x
<1>7. Fit(x, {}) /\ Meaning(x, {}) = Meaning(made, {}) /\ Live(x, {}) = Live(made, {})
  BY <1>2, <1>4, <1>5, <1>6, MarkKeeps
<1>8. ASSUME NEW e \in Live(w, {})
      PROVE  (e \in E <=> e \in F) /\ (e \in E => c \in ArchAt(x, e).ids)
  <2> DEFINE b == w.loc[e.idx].arch
  <2>1. b \in DOMAIN w.archs
    BY LiveAt
  <2>2. ArchAt(w, e) = w.archs[b] /\ ArchAt(made, e) = w.archs[b] /\ ArchAt(x, e) = x.archs[b]
    BY <1>5, <1>6, <2>1 DEF ArchAt, MarkedFrom
  <2>3. made.loc[e.idx].arch = b /\ e \in Live(made, {}) /\ b \in DOMAIN made.archs
    <3>1. e \in Live(made, {})
      BY <1>2, <1>4
    <3>2. QED
      BY <1>4, <1>5, <3>1, LiveAt
  <2> HIDE DEF b
  <2>4. e \in E <=> b \in {a}
    BY <1>4, <1>5, <2>3, EntitiesAt
  <2>5. made.archs[b] = w.archs[b]
    BY <1>5, <2>1
  <2>6. b = a <=> w.archs[b].ids = ids
    <3>1. Columns(made)
      BY <1>4 DEF Fit
    <3>2. QED
      BY <1>5, <2>3, <2>5, <3>1 DEF Columns
  <2>7. x.archs[b].ids = w.archs[b].ids
    BY <1>6, <2>3, <2>5 DEF MarkedFrom
  <2>8. QED
    BY <2>2, <2>4, <2>6, <2>7
<1> HIDE DEF E
<1>9. \A e \in Live(x, {}) : e \in E => c \in ArchAt(x, e).ids
  BY <1>2, <1>4, <1>7, <1>8
<1>10. c \in Components
  OBVIOUS
<1>11. Fit(u, {}) /\ Meaning(u, {}) = Swept(Meaning(x, {}), E, c, v)
  BY <1>7, <1>9, <1>10, RewrittenMeans
<1>12. \A e \in DOMAIN Meaning(w, {}) : e \in E <=> e \in F
  BY <1>8, MeaningIs
<1>13. Swept(Meaning(w, {}), E, c, v) = Swept(Meaning(w, {}), F, c, v)
  BY <1>12, SweptIs
<1>14. QED
  BY <1>1, <1>2, <1>4, <1>7, <1>11, <1>13

(* A walk with writes over archetypes that have the component.             *)
LEMMA WalkKeeps ==
  ASSUME NEW w, Fit(w, {}), NEW A, NEW c \in Components, A \subseteq Having(w, c), NEW v \in V,
         NEW t, t = NextTick(w),
         NEW u, u = NextTick(Rewritten(MarkedAll(t, A, {c}, t.tick), EntitiesOf(t, A), c, v))
  PROVE  Fit(u, {}) /\ Meaning(u, {}) = Swept(Meaning(w, {}), EntitiesOf(w, A), c, v)
<1> DEFINE x == MarkedAll(t, A, {c}, t.tick)
           E == EntitiesOf(t, A)
           y == Rewritten(x, E, c, v)
<1>1. u = NextTick(y)
  OBVIOUS
<1>2. /\ Fit(t, {}) /\ Meaning(t, {}) = Meaning(w, {}) /\ Live(t, {}) = Live(w, {})
      /\ t.tick \in Nat /\ t.archs = w.archs /\ t.loc = w.loc
  BY TickKeeps
<1>3. E = EntitiesOf(w, A)
  BY <1>2 DEF EntitiesOf, RowsOf
<1>4. /\ Fit(x, {}) /\ Meaning(x, {}) = Meaning(t, {}) /\ Live(x, {}) = Live(t, {})
      /\ \A e \in Live(t, {}) : ArchAt(x, e).ids = ArchAt(t, e).ids
  BY <1>2, MarkAllSame
<1>5. ASSUME NEW e \in Live(x, {}), e \in E
      PROVE  c \in ArchAt(x, e).ids
  <2>1. e \in Live(t, {})
    BY <1>4
  <2>2. A \subseteq DOMAIN t.archs /\ \A a \in A : c \in t.archs[a].ids
    BY <1>2 DEF Having
  <2>3. t.loc[e.idx].arch \in A
    BY <1>2, <1>5, <2>1, <2>2, EntitiesAt
  <2>4. c \in ArchAt(t, e).ids
    BY <2>2, <2>3 DEF ArchAt
  <2>5. QED
    BY <1>4, <2>1, <2>4
<1> HIDE DEF x, E
<1>6. Fit(y, {}) /\ Meaning(y, {}) = Swept(Meaning(x, {}), E, c, v)
  BY <1>4, <1>5, RewrittenMeans
<1> HIDE DEF y
<1>7. Fit(u, {}) /\ Meaning(u, {}) = Meaning(y, {})
  BY <1>1, <1>6, TickKeeps
<1>8. QED
  BY <1>2, <1>3, <1>4, <1>6, <1>7

-----------------------------------------------------------------------------
(* The inserts that a changeset holds back.                                *)
LEMMA WrittenUnfolds ==
  ASSUME NEW w, NEW b, Len(b.entries) \in Nat
  PROVE  /\ Written(w, b)[0] = w
         /\ \A n \in 1 .. Len(b.entries) :
              Written(w, b)[n] = Overwritten(Written(w, b)[n - 1], b.arch, b.entries[n].row, Just(b.comp, b.entries[n].val))
<1> DEFINE base == w
           StepOf(v, n) == Overwritten(v, b.arch, b.entries[n].row, Just(b.comp, b.entries[n].val))
           Solves(f, k) == f = [n \in 0 .. k |-> IF n = 0 THEN base ELSE StepOf(f[n - 1], n)]
           S == {k \in 0 .. Len(b.entries) : \E f : Solves(f, k)}
<1>1. Written(w, b) = CHOOSE f : Solves(f, Len(b.entries))
  BY DEF Written
<1> HIDE DEF base, StepOf
<1>2. 0 \in S
  <2> DEFINE f0 == [n \in 0 .. 0 |-> base]
  <2>1. Solves(f0, 0)
    OBVIOUS
  <2> HIDE DEF f0, Solves
  <2>2. QED
    BY <2>1
<1>3. ASSUME NEW k \in 1 .. Len(b.entries), k - 1 \in S
      PROVE  k \in S
  <2>1. PICK f : Solves(f, k - 1)
    BY <1>3
  <2> DEFINE g == [n \in 0 .. k |-> IF n = k THEN StepOf(f[k - 1], k) ELSE f[n]]
  <2>2. \A n \in 0 .. k - 1 : g[n] = f[n]
    OBVIOUS
  <2>3. \A n \in 0 .. k - 1 : f[n] = IF n = 0 THEN base ELSE StepOf(f[n - 1], n)
    BY <2>1
  <2>4. \A n \in 0 .. k : g[n] = IF n = 0 THEN base ELSE StepOf(g[n - 1], n)
    <3> SUFFICES ASSUME NEW n \in 0 .. k
                 PROVE  g[n] = IF n = 0 THEN base ELSE StepOf(g[n - 1], n)
      OBVIOUS
    <3>1. CASE n = k
      <4>1. g[n] = StepOf(f[n - 1], n) /\ g[n - 1] = f[n - 1] /\ n # 0
        BY <2>2, <3>1
      <4>2. QED
        BY <4>1
    <3>2. CASE n # k
      <4>1. n \in 0 .. k - 1 /\ (n # 0 => n - 1 \in 0 .. k - 1)
        BY <3>2
      <4>2. QED
        BY <4>1, <2>2, <2>3
    <3>3. QED
      BY <3>1, <3>2
  <2>5. g = [n \in 0 .. k |-> g[n]]
    OBVIOUS
  <2> HIDE DEF g
  <2>6. Solves(g, k)
    BY <2>4, <2>5
  <2>7. QED
    BY <2>6
<1> HIDE DEF S
<1>4. Len(b.entries) \in S
  <2>1. \A k \in 1 .. Len(b.entries) : k - 1 \in S => k \in S
    BY <1>3
  <2>2. \A k \in 0 .. Len(b.entries) : k \in S
    BY <1>2, <2>1, UpTo
  <2>3. QED
    BY <2>2
<1>5. \E f : Solves(f, Len(b.entries))
  BY <1>4 DEF S
<1> DEFINE h == Written(w, b)
<1>6. Solves(h, Len(b.entries))
  BY <1>1, <1>5
<1> HIDE DEF h
<1>7. h[0] = base /\ \A n \in 1 .. Len(b.entries) : h[n] = StepOf(h[n - 1], n)
  <2> DEFINE K == Len(b.entries)
  <2>1. K \in Nat
    OBVIOUS
  <2>2. h = [n \in 0 .. K |-> IF n = 0 THEN base ELSE StepOf(h[n - 1], n)]
    BY <1>6
  <2> HIDE DEF K
  <2>3. h[0] = base /\ \A n \in 1 .. K : h[n] = StepOf(h[n - 1], n)
    BY <2>1, <2>2
  <2>4. QED
    BY <2>3 DEF K
<1>8. QED
  BY <1>7 DEF h, base, StepOf

BatchType == [arch : Nat, comp : Components, entries : Seq([row : Nat, val : V])]

(* Every write goes to a row that is there, in a column that is there.     *)
BatchFits(w, b) ==
  /\ b \in BatchType
  /\ \A i \in DOMAIN b.entries :
       /\ b.arch \in DOMAIN w.archs /\ b.comp \in w.archs[b.arch].ids
       /\ b.entries[i].row \in DOMAIN w.archs[b.arch].rows

Wrote(w, b) == Written(w, b)[Len(b.entries)]

More(b, x) == [b EXCEPT !.entries = Append(b.entries, x)]

LEMMA BatchIs ==
  ASSUME NEW b \in BatchType
  PROVE  /\ b.arch \in Nat /\ b.comp \in Components /\ b.entries \in Seq([row : Nat, val : V])
         /\ Len(b.entries) \in Nat /\ DOMAIN b.entries = 1 .. Len(b.entries)
         /\ \A i \in DOMAIN b.entries : b.entries[i].row \in Nat /\ b.entries[i].val \in V
<1>1. b.arch \in Nat /\ b.comp \in Components /\ b.entries \in Seq([row : Nat, val : V])
  BY DEF BatchType
<1>2. /\ Len(b.entries) \in Nat /\ DOMAIN b.entries = 1 .. Len(b.entries)
      /\ \A i \in DOMAIN b.entries : b.entries[i] \in [row : Nat, val : V]
  BY <1>1, SeqIs
<1>3. QED
  BY <1>1, <1>2

LEMMA MoreIs ==
  ASSUME NEW b \in BatchType, NEW x \in [row : Nat, val : V]
  PROVE  /\ More(b, x) \in BatchType /\ More(b, x).arch = b.arch /\ More(b, x).comp = b.comp
         /\ More(b, x).entries = Append(b.entries, x)
         /\ Len(More(b, x).entries) = Len(b.entries) + 1
         /\ \A i \in 1 .. Len(b.entries) : More(b, x).entries[i] = b.entries[i]
         /\ More(b, x).entries[Len(b.entries) + 1] = x
<1> DEFINE c == More(b, x)
<1>1. b.entries \in Seq([row : Nat, val : V])
  BY BatchIs
<1>2. c.arch = b.arch /\ c.comp = b.comp /\ c.entries = Append(b.entries, x)
  BY DEF More, BatchType
<1>3. Append(b.entries, x) \in Seq([row : Nat, val : V])
  BY <1>1
<1>4. c \in BatchType
  BY <1>1, <1>3 DEF More, BatchType
<1> HIDE DEF c
<1>5. /\ Len(Append(b.entries, x)) = Len(b.entries) + 1
      /\ \A i \in 1 .. Len(b.entries) : Append(b.entries, x)[i] = b.entries[i]
      /\ Append(b.entries, x)[Len(b.entries) + 1] = x
  BY <1>1, AppendIs
<1>6. QED
  BY <1>2, <1>4, <1>5 DEF c

(* One entry more is one write more.                                       *)
LEMMA WroteMore ==
  ASSUME NEW w, NEW b \in BatchType, NEW x \in [row : Nat, val : V]
  PROVE  Wrote(w, More(b, x)) = Overwritten(Wrote(w, b), b.arch, x.row, Just(b.comp, x.val))
<1> DEFINE c == More(b, x)
           N == Len(b.entries)
           f == Written(w, b)
           g == Written(w, c)
           S == {n \in 0 .. N : f[n] = g[n]}
<1>1. N \in Nat
  BY BatchIs
<1>2. /\ c.arch = b.arch /\ c.comp = b.comp /\ Len(c.entries) = N + 1
      /\ \A i \in 1 .. N : c.entries[i] = b.entries[i]
      /\ c.entries[N + 1] = x
  BY MoreIs
<1> HIDE DEF c
<1>3. f[0] = w /\ \A n \in 1 .. N :
        f[n] = Overwritten(f[n - 1], b.arch, b.entries[n].row, Just(b.comp, b.entries[n].val))
  BY <1>1, WrittenUnfolds
<1>4. g[0] = w /\ \A n \in 1 .. N + 1 :
        g[n] = Overwritten(g[n - 1], b.arch, c.entries[n].row, Just(b.comp, c.entries[n].val))
  BY <1>1, <1>2, WrittenUnfolds
<1> HIDE DEF N, f, g
<1>5. 0 \in S
  BY <1>1, <1>3, <1>4
<1>6. \A n \in 1 .. N : n - 1 \in S => n \in S
  <2> SUFFICES ASSUME NEW n \in 1 .. N, f[n - 1] = g[n - 1]
               PROVE  f[n] = g[n]
    BY <1>1
  <2>1. f[n] = Overwritten(f[n - 1], b.arch, b.entries[n].row, Just(b.comp, b.entries[n].val))
    BY <1>3
  <2>2. g[n] = Overwritten(g[n - 1], b.arch, c.entries[n].row, Just(b.comp, c.entries[n].val))
    <3>1. n \in 1 .. N + 1
      BY <1>1
    <3>2. QED
      BY <1>4, <3>1
  <2>3. c.entries[n] = b.entries[n]
    BY <1>2
  <2>4. QED
    BY <2>1, <2>2, <2>3
<1> HIDE DEF S
<1>7. \A n \in 0 .. N : n \in S
  BY <1>1, <1>5, <1>6, UpTo
<1>8. f[N] = g[N]
  BY <1>1, <1>7 DEF S
<1>9. g[N + 1] = Overwritten(f[N], b.arch, x.row, Just(b.comp, x.val))
  <2>1. N + 1 \in 1 .. N + 1 /\ (N + 1) - 1 = N
    BY <1>1
  <2>2. QED
    BY <1>2, <1>4, <1>8, <2>1
<1>10. QED
  BY <1>2, <1>9 DEF Wrote, f, g, N, c

LEMMA SameRowsTwice ==
  ASSUME NEW w, NEW u, NEW x, SameRows(w, u), SameRows(u, x)
  PROVE  SameRows(w, x)
<1>1. x \in Worlds /\ SameRest(w, x) /\ x.loc = w.loc /\ DOMAIN x.archs = DOMAIN w.archs
  BY DEF SameRows, SameRest
<1>2. ASSUME NEW b \in DOMAIN w.archs
      PROVE  /\ x.archs[b].ids = w.archs[b].ids /\ x.archs[b].ticks = w.archs[b].ticks
             /\ DOMAIN x.archs[b].rows = DOMAIN w.archs[b].rows
             /\ \A r \in DOMAIN w.archs[b].rows : x.archs[b].rows[r].ent = w.archs[b].rows[r].ent
  BY DEF SameRows
<1>3. QED
  BY <1>1, <1>2 DEF SameRows

LEMMA LiveSame ==
  ASSUME NEW w, NEW u, u.gens = w.gens, u.loc = w.loc
  PROVE  Live(u, {}) = Live(w, {}) /\ \A e : Located(u, e) <=> Located(w, e)
<1>1. \A e : Located(u, e) <=> Located(w, e)
  BY DEF Located, IsAlive, IsPlaced
<1>2. QED
  BY <1>1 DEF Live

WroteTo(w, u) == Fit(u, {}) /\ SameRows(w, u) /\ Steady(w, u)

LEMMA WroteNext ==
  ASSUME NEW w, NEW b, BatchFits(w, b), NEW n \in DOMAIN b.entries, NEW u, WroteTo(w, u)
  PROVE  WroteTo(w, Overwritten(u, b.arch, b.entries[n].row, Just(b.comp, b.entries[n].val)))
<1> DEFINE a == b.arch
           r == b.entries[n].row
           c == b.comp
           v == b.entries[n].val
           x == Overwritten(u, a, r, Just(c, v))
           e == u.archs[a].rows[r].ent
<1>1. /\ b \in BatchType /\ a \in DOMAIN w.archs /\ c \in w.archs[a].ids
      /\ r \in DOMAIN w.archs[a].rows
  BY DEF BatchFits
<1>2. c \in Components /\ v \in V
  BY <1>1, BatchIs
<1>3. Fit(u, {}) /\ SameRows(w, u) /\ Steady(w, u)
  BY DEF WroteTo
<1>4. a \in DOMAIN u.archs /\ c \in u.archs[a].ids /\ r \in DOMAIN u.archs[a].rows
  BY <1>1, <1>3 DEF SameRows
<1> HIDE DEF a, r, c, v
<1>5. e \in Live(u, {}) /\ u.loc[e.idx] = [arch |-> a, row |-> r]
  BY <1>3, <1>4, RowIsLive
<1> HIDE DEF e
<1>6. InRow(u, e, a, r)
  BY <1>5 DEF InRow
<1>7. ArchAt(u, e) = u.archs[a]
  BY <1>6 DEF InRow, ArchAt
<1>8. Just(c, v) \in On(V) /\ DOMAIN Just(c, v) \subseteq ArchAt(u, e).ids
  BY <1>2, <1>4, <1>7, JustOn
<1>9. x = Overwritten(u, a, r, Just(c, v))
  OBVIOUS
<1> HIDE DEF x
<1>10. Fit(x, {}) /\ Steady(u, x) /\ SameRows(u, x)
  BY <1>3, <1>5, <1>6, <1>8, <1>9, OverwrittenKeeps
<1>11. SameRows(w, x) /\ Steady(w, x)
  BY <1>3, <1>10, SameRowsTwice, SteadyTwice
<1>12. QED
  BY <1>10, <1>11 DEF WroteTo, x, a, r, c, v

LEMMA WroteKeeps ==
  ASSUME NEW w, Fit(w, {}), NEW b, BatchFits(w, b), NEW u, u = Wrote(w, b)
  PROVE  /\ Fit(u, {}) /\ SameRows(w, u) /\ Steady(w, u)
         /\ Live(u, {}) = Live(w, {}) /\ u.loc = w.loc
         /\ b.entries = << >> => u = w
<1> DEFINE N == Len(b.entries)
           f == Written(w, b)
           S == {n \in 0 .. N : WroteTo(w, f[n])}
<1>1. N \in Nat /\ DOMAIN b.entries = 1 .. N
  BY BatchIs DEF BatchFits
<1>2. f[0] = w /\ \A n \in 1 .. N :
        f[n] = Overwritten(f[n - 1], b.arch, b.entries[n].row, Just(b.comp, b.entries[n].val))
  BY <1>1, WrittenUnfolds
<1>3. u = f[N]
  BY DEF Wrote
<1>4. b.entries = << >> => N = 0
  OBVIOUS
<1> HIDE DEF N, f
<1>5. WroteTo(w, w)
  BY DEF WroteTo, SameRows, SameRest, Steady, Fit
<1>6. 0 \in S
  BY <1>1, <1>2, <1>5
<1>7. \A n \in 1 .. N : n - 1 \in S => n \in S
  <2> SUFFICES ASSUME NEW n \in 1 .. N, WroteTo(w, f[n - 1])
               PROVE  WroteTo(w, f[n])
    BY <1>1
  <2>1. n \in DOMAIN b.entries
    BY <1>1
  <2>2. WroteTo(w, Overwritten(f[n - 1], b.arch, b.entries[n].row, Just(b.comp, b.entries[n].val)))
    BY <2>1, WroteNext
  <2>3. QED
    BY <1>2, <2>2
<1> HIDE DEF S
<1>8. \A n \in 0 .. N : n \in S
  BY <1>1, <1>6, <1>7, UpTo
<1>9. WroteTo(w, u)
  BY <1>1, <1>3, <1>8 DEF S
<1>10. Fit(u, {}) /\ SameRows(w, u) /\ Steady(w, u)
  BY <1>9 DEF WroteTo
<1>11. u.gens = w.gens /\ u.loc = w.loc
  BY <1>10 DEF SameRows, Steady
<1>12. QED
  BY <1>2, <1>3, <1>4, <1>10, <1>11, LiveSame

-----------------------------------------------------------------------------
(* The states of an apply.                                                 *)
IsState(s) == s = [w |-> s.w, batch |-> s.batch, failed |-> s.failed, rows |-> s.rows,
                   dense |-> s.dense]

(* What the world will hold once the held back inserts are made.           *)
Held(s) == Meaning(Wrote(s.w, s.batch), {})

Sound(s, tick) ==
  /\ IsState(s) /\ Fit(s.w, {}) /\ BatchFits(s.w, s.batch) /\ s.w.tick = tick

LEMMA WorldSet ==
  ASSUME NEW s, IsState(s), NEW x
  PROVE  /\ IsState([s EXCEPT !.w = x]) /\ [s EXCEPT !.w = x].w = x
         /\ [s EXCEPT !.w = x].batch = s.batch /\ [s EXCEPT !.w = x].failed = s.failed
<1> DEFINE r == [w |-> s.w, batch |-> s.batch, failed |-> s.failed, rows |-> s.rows,
                 dense |-> s.dense]
           q == [w |-> x, batch |-> s.batch, failed |-> s.failed, rows |-> s.rows,
                 dense |-> s.dense]
<1>1. [r EXCEPT !.w = x] = q
  OBVIOUS
<1>2. [s EXCEPT !.w = x] = [r EXCEPT !.w = x]
  BY DEF IsState
<1>3. q.w = x /\ q.batch = s.batch /\ q.failed = s.failed /\ q.rows = s.rows /\ q.dense = s.dense
  OBVIOUS
<1>4. IsState(q)
  BY <1>3 DEF IsState
<1> HIDE DEF q, r
<1>5. [s EXCEPT !.w = x] = q
  BY <1>1, <1>2
<1>6. QED
  BY <1>3, <1>4, <1>5

LEMMA BatchSet ==
  ASSUME NEW s, IsState(s), NEW x
  PROVE  /\ IsState([s EXCEPT !.batch = x]) /\ [s EXCEPT !.batch = x].w = s.w
         /\ [s EXCEPT !.batch = x].batch = x /\ [s EXCEPT !.batch = x].failed = s.failed
<1> DEFINE r == [w |-> s.w, batch |-> s.batch, failed |-> s.failed, rows |-> s.rows,
                 dense |-> s.dense]
           q == [w |-> s.w, batch |-> x, failed |-> s.failed, rows |-> s.rows,
                 dense |-> s.dense]
<1>1. [r EXCEPT !.batch = x] = q
  OBVIOUS
<1>2. [s EXCEPT !.batch = x] = [r EXCEPT !.batch = x]
  BY DEF IsState
<1>3. q.w = s.w /\ q.batch = x /\ q.failed = s.failed /\ q.rows = s.rows /\ q.dense = s.dense
  OBVIOUS
<1>4. IsState(q)
  BY <1>3 DEF IsState
<1> HIDE DEF q, r
<1>5. [s EXCEPT !.batch = x] = q
  BY <1>1, <1>2
<1>6. QED
  BY <1>3, <1>4, <1>5

LEMMA FailIs ==
  ASSUME NEW s, IsState(s)
  PROVE  IsState(Fail(s)) /\ Fail(s).w = s.w /\ Fail(s).batch = s.batch /\ Fail(s).failed = TRUE
<1> DEFINE t == TRUE
           r == [w |-> s.w, batch |-> s.batch, failed |-> s.failed, rows |-> s.rows,
                 dense |-> s.dense]
           q == [w |-> s.w, batch |-> s.batch, failed |-> t, rows |-> s.rows, dense |-> s.dense]
<1>1. Fail(s) = [s EXCEPT !.failed = t] /\ t = TRUE
  BY DEF Fail
<1> HIDE DEF t
<1>2. [r EXCEPT !.failed = t] = q
  OBVIOUS
<1>3. [s EXCEPT !.failed = t] = [r EXCEPT !.failed = t]
  BY DEF IsState
<1>4. q.w = s.w /\ q.batch = s.batch /\ q.failed = t /\ q.rows = s.rows /\ q.dense = s.dense
  OBVIOUS
<1>5. IsState(q)
  BY <1>4 DEF IsState
<1> HIDE DEF q, r
<1>6. Fail(s) = q
  BY <1>1, <1>2, <1>3
<1>7. QED
  BY <1>1, <1>4, <1>5, <1>6

LEMMA MostHeldIs ==
  ASSUME NEW s, IsState(s)
  PROVE  /\ IsState(MostHeld(s)) /\ MostHeld(s).w = s.w /\ MostHeld(s).batch = s.batch
         /\ MostHeld(s).failed = s.failed
<1> DEFINE r == [w |-> s.w, batch |-> s.batch, failed |-> s.failed, rows |-> s.rows,
                 dense |-> s.dense]
           most == [a \in DOMAIN s.w.archs |->
                        Max({Len(s.w.archs[a].rows)} \cup IF a \in DOMAIN s.rows THEN {s.rows[a]} ELSE {})]
           more == Max({s.dense, Len(s.w.dense)})
           p == [w |-> s.w, batch |-> s.batch, failed |-> s.failed, rows |-> most, dense |-> s.dense]
           q == [w |-> s.w, batch |-> s.batch, failed |-> s.failed, rows |-> most, dense |-> more]
<1>1. MostHeld(s) = [s EXCEPT !.rows = most, !.dense = more]
  BY DEF MostHeld
<1> HIDE DEF most, more
<1>2. [r EXCEPT !.rows = most] = p
  OBVIOUS
<1>3. [p EXCEPT !.dense = more] = q
  OBVIOUS
<1>4. [s EXCEPT !.rows = most, !.dense = more] = [[s EXCEPT !.rows = most] EXCEPT !.dense = more]
  OBVIOUS
<1>5. [s EXCEPT !.rows = most] = [r EXCEPT !.rows = most]
  BY DEF IsState
<1>6. q.w = s.w /\ q.batch = s.batch /\ q.failed = s.failed /\ q.rows = most /\ q.dense = more
  OBVIOUS
<1>7. IsState(q)
  BY <1>6 DEF IsState
<1> HIDE DEF q, p, r
<1>8. MostHeld(s) = q
  BY <1>1, <1>2, <1>3, <1>4, <1>5
<1>9. QED
  BY <1>6, <1>7, <1>8

LEMMA NoBatchIs ==
  ASSUME NEW w
  PROVE  NoBatch.entries = << >> /\ BatchFits(w, NoBatch) /\ Wrote(w, NoBatch) = w
<1>1. NoBatch.entries = << >> /\ NoBatch.arch = 0 /\ NoBatch.comp = Key
  BY DEF NoBatch
<1>2. << >> \in Seq([row : Nat, val : V]) /\ DOMAIN << >> = {} /\ Len(<< >>) = 0
  OBVIOUS
<1>3. NoBatch \in BatchType
  BY <1>2, KeyIsStored DEF NoBatch, BatchType
<1>4. BatchFits(w, NoBatch)
  BY <1>1, <1>2, <1>3 DEF BatchFits
<1>5. Written(w, NoBatch)[0] = w
  BY <1>1, <1>2, WrittenUnfolds
<1>6. QED
  BY <1>1, <1>2, <1>4, <1>5 DEF Wrote

(* The held back inserts are made.                                         *)
SameColumns(w, u) ==
  /\ u.loc = w.loc /\ DOMAIN u.archs = DOMAIN w.archs
  /\ \A a \in DOMAIN w.archs : u.archs[a].ids = w.archs[a].ids

LEMMA FlushKeeps ==
  ASSUME NEW s, NEW tick, Sound(s, tick), NEW f, f = Flushed(s, tick)
  PROVE  /\ Sound(f, tick) /\ Steady(s.w, f.w) /\ SameColumns(s.w, f.w)
         /\ Held(f) = Held(s) /\ Meaning(f.w, {}) = Held(s)
         /\ f.batch.entries = << >> /\ f.failed = s.failed
         /\ Live(f.w, {}) = Live(s.w, {})
<1> DEFINE b == s.batch
           x == Wrote(s.w, b)
           y == Marked(x, b.arch, {b.comp}, tick)
           g == [s EXCEPT !.w = y]
<1>1. IsState(s) /\ Fit(s.w, {}) /\ BatchFits(s.w, b) /\ s.w.tick = tick /\ tick \in Nat
  BY FitTick DEF Sound
<1>2. /\ Fit(x, {}) /\ SameRows(s.w, x) /\ Steady(s.w, x) /\ Live(x, {}) = Live(s.w, {})
      /\ x.loc = s.w.loc /\ (b.entries = << >> => x = s.w)
  BY <1>1, WroteKeeps
<1>3. Held(s) = Meaning(x, {})
  BY DEF Held
<1>4. CASE b.entries = << >>
  <2>1. f = s
    BY <1>4 DEF Flushed
  <2>2. Steady(s.w, s.w) /\ SameColumns(s.w, s.w)
    BY DEF Steady, SameColumns
  <2>3. QED
    BY <1>2, <1>3, <1>4, <2>1, <2>2
<1>5. CASE b.entries # << >>
  <2>1. f = [s EXCEPT !.w = y, !.batch = NoBatch]
    BY <1>5 DEF Flushed, Wrote
  <2>2. b.arch \in DOMAIN s.w.archs
    <3>1. b \in BatchType
      BY <1>1 DEF BatchFits
    <3>2. 1 \in DOMAIN b.entries
      BY <1>5, <3>1, BatchIs
    <3>3. QED
      BY <1>1, <3>2 DEF BatchFits
  <2> HIDE DEF x
  <2>3. b.arch \in DOMAIN x.archs /\ x.tick = tick /\ x \in Worlds
    BY <1>1, <1>2, <2>2 DEF SameRows, Steady
  <2>4. MarkedFrom(x, y, {b.arch}, {b.comp}, tick)
    BY <1>1, <2>3, MarkedIs
  <2>5. Fit(y, {}) /\ Meaning(y, {}) = Meaning(x, {}) /\ Live(y, {}) = Live(x, {})
    <3>1. tick <= x.tick
      BY <1>1, <2>3
    <3> HIDE DEF y
    <3>2. QED
      BY <1>1, <1>2, <2>4, <3>1, MarkKeeps
  <2>6. Steady(s.w, y) /\ SameColumns(s.w, y)
    <3> HIDE DEF y
    <3>1. Steady(s.w, y)
      BY <1>2, <2>4 DEF MarkedFrom, SameRest, Steady
    <3>2. SameColumns(s.w, y)
      BY <1>2, <2>4 DEF MarkedFrom, SameRows, SameColumns
    <3>3. QED
      BY <3>1, <3>2
  <2> HIDE DEF y
  <2>7. /\ IsState(f) /\ f.w = y /\ f.batch = NoBatch /\ f.failed = s.failed
    <3>1. IsState(g) /\ g.w = y /\ g.failed = s.failed
      BY <1>1, WorldSet
    <3>2. f = [g EXCEPT !.batch = NoBatch]
      BY <2>1
    <3> HIDE DEF g
    <3>3. QED
      BY <3>1, <3>2, BatchSet
  <2>8. BatchFits(f.w, f.batch) /\ f.batch.entries = << >> /\ Wrote(f.w, f.batch) = y
    BY <2>7, NoBatchIs
  <2>9. f.w.tick = tick
    BY <1>1, <2>6, <2>7 DEF Steady
  <2>10. Sound(f, tick)
    BY <2>5, <2>7, <2>8, <2>9, <1>2 DEF Sound
  <2>11. QED
    BY <1>2, <1>3, <2>5, <2>6, <2>7, <2>8, <2>10 DEF Held
<1>6. QED
  BY <1>4, <1>5

LEMMA EmptyBatch ==
  ASSUME NEW w, NEW b \in BatchType, b.entries = << >>
  PROVE  BatchFits(w, b) /\ Wrote(w, b) = w
<1>1. DOMAIN << >> = {} /\ Len(<< >>) = 0
  OBVIOUS
<1>2. BatchFits(w, b)
  BY <1>1 DEF BatchFits
<1>3. Written(w, b)[0] = w
  BY <1>1, WrittenUnfolds
<1>4. QED
  BY <1>1, <1>2, <1>3 DEF Wrote

(* A write that is held back means what it will do.                        *)
LEMMA HoldMore ==
  ASSUME NEW w, Fit(w, {}), NEW b, BatchFits(w, b), NEW e \in Live(w, {}), NEW v \in V,
         b.arch = w.loc[e.idx].arch, b.comp \in ArchAt(w, e).ids,
         NEW x, x = [row |-> w.loc[e.idx].row, val |-> v]
  PROVE  /\ BatchFits(w, More(b, x))
         /\ Meaning(Wrote(w, More(b, x)), {}) = Given(Meaning(Wrote(w, b), {}), e, Just(b.comp, v))
<1> DEFINE a == w.loc[e.idx].arch
           r == w.loc[e.idx].row
           c == b.comp
           y == Wrote(w, b)
           m == More(b, x)
           z == Wrote(w, m)
<1>1. /\ a \in DOMAIN w.archs /\ r \in DOMAIN w.archs[a].rows /\ w \in Worlds
  BY LiveAt
<1>2. a \in Nat /\ r \in Nat
  BY <1>1, WorldFields
<1>3. b \in BatchType /\ c \in Components /\ ArchAt(w, e) = w.archs[a]
  BY BatchIs DEF BatchFits, ArchAt
<1>4. x \in [row : Nat, val : V] /\ x.row = r /\ x.val = v
  BY <1>2
<1>5. /\ m \in BatchType /\ m.arch = a /\ m.comp = c /\ Len(m.entries) = Len(b.entries) + 1
      /\ \A i \in 1 .. Len(b.entries) : m.entries[i] = b.entries[i]
      /\ m.entries[Len(b.entries) + 1] = x
  BY <1>3, <1>4, MoreIs
<1>6. z = Overwritten(y, b.arch, x.row, Just(b.comp, x.val))
  BY <1>3, <1>4, WroteMore
<1> HIDE DEF m
<1>7. BatchFits(w, m)
  <2>1. DOMAIN m.entries = 1 .. Len(b.entries) + 1 /\ Len(b.entries) \in Nat
        /\ DOMAIN b.entries = 1 .. Len(b.entries)
    BY <1>3, <1>5, BatchIs
  <2>2. ASSUME NEW i \in DOMAIN m.entries
        PROVE  /\ m.arch \in DOMAIN w.archs /\ m.comp \in w.archs[m.arch].ids
               /\ m.entries[i].row \in DOMAIN w.archs[m.arch].rows
    <3>1. m.arch \in DOMAIN w.archs /\ m.comp \in w.archs[m.arch].ids
      BY <1>1, <1>3, <1>5
    <3>2. CASE i = Len(b.entries) + 1
      BY <1>1, <1>4, <1>5, <3>1, <3>2
    <3>3. CASE i # Len(b.entries) + 1
      <4>1. i \in DOMAIN b.entries /\ m.entries[i] = b.entries[i]
        BY <1>5, <2>1, <3>3
      <4>2. b.entries[i].row \in DOMAIN w.archs[b.arch].rows
        BY <4>1 DEF BatchFits
      <4>3. QED
        BY <1>5, <3>1, <4>1, <4>2
    <3>4. QED
      BY <3>2, <3>3
  <2>3. QED
    BY <1>5, <2>2 DEF BatchFits
<1>8. /\ Fit(y, {}) /\ SameRows(w, y) /\ Live(y, {}) = Live(w, {}) /\ y.loc = w.loc
  BY WroteKeeps
<1> HIDE DEF y, z, a, r, c
<1>9. e \in Live(y, {}) /\ InRow(y, e, a, r)
  BY <1>8 DEF a, r, InRow
<1>10. ArchAt(y, e).ids = w.archs[a].ids
  BY <1>1, <1>8, <1>9 DEF ArchAt, SameRows, InRow
<1>11. Just(c, v) \in On(V) /\ DOMAIN Just(c, v) \subseteq ArchAt(y, e).ids
  BY <1>3, <1>10, JustOn DEF c
<1>12. z = Overwritten(y, a, r, Just(c, v))
  BY <1>4, <1>6 DEF a, r, c
<1>13. Meaning(z, {}) = Given(Meaning(y, {}), e, Just(c, v))
  BY <1>8, <1>9, <1>11, <1>12, OverwrittenKeeps
<1>14. QED
  BY <1>7, <1>13 DEF m, z, y, c

(* One value is the value of the one component.                            *)
LEMMA SingleIs ==
  ASSUME NEW vals \in On(V), NEW c, DOMAIN vals = {c}
  PROVE  vals = Just(c, vals[c]) /\ vals[c] \in V /\ c \in Components
<1>1. DOMAIN vals \subseteq Components /\ vals \in [DOMAIN vals -> V]
  BY OnIs
<1>2. QED
  BY <1>1 DEF Just

LEMMA SoundIs ==
  ASSUME NEW s, NEW tick, Sound(s, tick)
  PROVE  /\ IsState(s) /\ Fit(s.w, {}) /\ BatchFits(s.w, s.batch) /\ s.w.tick = tick /\ tick \in Nat
         /\ s.batch \in BatchType /\ DOMAIN Held(s) = Live(s.w, {})
<1>1. IsState(s) /\ Fit(s.w, {}) /\ BatchFits(s.w, s.batch) /\ s.w.tick = tick /\ tick \in Nat
  BY FitTick DEF Sound
<1>2. s.batch \in BatchType
  BY <1>1 DEF BatchFits
<1> DEFINE x == Wrote(s.w, s.batch)
<1>3. Live(x, {}) = Live(s.w, {})
  BY <1>1, WroteKeeps
<1>4. DOMAIN Held(s) = Live(s.w, {})
  BY <1>3, MeaningIs DEF Held
<1>5. QED
  BY <1>1, <1>2, <1>4

(* A world in place of another, with nothing held back.                    *)
LEMMA WorldMade ==
  ASSUME NEW f, NEW tick, Sound(f, tick), f.batch.entries = << >>,
         NEW x, Fit(x, {}), x.tick = tick, NEW u, u = [f EXCEPT !.w = x]
  PROVE  Sound(u, tick) /\ Held(u) = Meaning(x, {}) /\ u.failed = f.failed /\ u.w = x
<1>1. IsState(f) /\ f.batch \in BatchType
  BY SoundIs
<1>2. IsState(u) /\ u.w = x /\ u.batch = f.batch /\ u.failed = f.failed
  BY <1>1, WorldSet
<1>3. BatchFits(x, f.batch) /\ Wrote(x, f.batch) = x
  BY <1>1, EmptyBatch
<1>4. QED
  BY <1>2, <1>3 DEF Sound, Held

LEMMA FailKeeps ==
  ASSUME NEW f, NEW tick, Sound(f, tick), NEW u, u = Fail(f)
  PROVE  Sound(u, tick) /\ Held(u) = Held(f) /\ u.failed = TRUE /\ u.w = f.w
<1>1. IsState(f)
  BY SoundIs
<1>2. IsState(u) /\ u.w = f.w /\ u.batch = f.batch /\ u.failed = TRUE
  BY <1>1, FailIs
<1>3. QED
  BY <1>2 DEF Sound, Held

(* What one insert of a changeset does, whichever way it is made.          *)
Refused(s, u, tick) == Sound(u, tick) /\ u.failed = TRUE /\ Held(u) = Held(s)

Went(s, u, tick, m) == Sound(u, tick) /\ u.failed = s.failed /\ Held(u) = m

LEMMA InsertStep ==
  ASSUME NEW s, NEW tick, Sound(s, tick), NEW x, x.ent \in H, x.vals \in On(V),
         NEW c, DOMAIN x.vals = {c}, NEW u, u = ApplyInsert(s, x, tick)
  PROVE  /\ ~Located(s.w, x.ent) => Refused(s, u, tick)
         /\ Located(s.w, x.ent) => /\ Went(s, u, tick, Given(Held(s), x.ent, x.vals))
                                   /\ Steady(s.w, u.w)
<1> DEFINE e == x.ent
           vals == x.vals
           at == s.w.loc[e.idx]
           comp == CHOOSE d \in DOMAIN vals : TRUE
           val == vals[comp]
           entry == [row |-> at.row, val |-> val]
           f == Flushed(s, tick)
           new == Overlay(vals, Row(f.w, e).vals)
           moved == Migrated(f.w, e, new)
           b == [arch |-> at.arch, comp |-> comp, entries |-> <<entry>>]
           u1 == [s EXCEPT !.batch = More(s.batch, entry)]
           u2 == [f EXCEPT !.batch = b]
           mm == Marked(moved, ArchOf(moved, DOMAIN new), DOMAIN new, tick)
           u3 == [f EXCEPT !.w = mm]
           Joins == s.batch.entries # << >> /\ s.batch.arch = at.arch /\ s.batch.comp = comp
<1>1. u = IF ~Located(s.w, e) THEN Fail(f)
          ELSE IF Joins THEN u1
          ELSE IF comp \in ArchAt(s.w, e).ids THEN u2 ELSE u3
  BY DEF ApplyInsert, More
<1>2. comp = c
  OBVIOUS
<1> HIDE DEF comp
<1>3. vals = Just(c, val) /\ val \in V /\ c \in Components
  BY <1>2, SingleIs
<1>4. /\ IsState(s) /\ Fit(s.w, {}) /\ BatchFits(s.w, s.batch) /\ s.w.tick = tick /\ tick \in Nat
      /\ s.batch \in BatchType
  BY SoundIs
<1>5. /\ Sound(f, tick) /\ Steady(s.w, f.w) /\ SameColumns(s.w, f.w)
      /\ Held(f) = Held(s) /\ Meaning(f.w, {}) = Held(s)
      /\ f.batch.entries = << >> /\ f.failed = s.failed /\ Live(f.w, {}) = Live(s.w, {})
  BY FlushKeeps
<1> HIDE DEF f
<1>6. Fit(f.w, {}) /\ f.w.tick = tick /\ IsState(f)
  BY <1>5, SoundIs
<1>7. CASE ~Located(s.w, e)
  <2>1. u = Fail(f)
    BY <1>1, <1>7
  <2>2. Sound(u, tick) /\ Held(u) = Held(f) /\ u.failed = TRUE
    BY <1>5, <2>1, FailKeeps
  <2>3. QED
    BY <1>5, <1>7, <2>2 DEF Refused
<1>8. CASE Located(s.w, e)
  <2>1. e \in Live(s.w, {}) /\ e \in Live(f.w, {})
    BY <1>5, <1>8 DEF Live
  <2>2. f.w.loc[e.idx] = at /\ ArchAt(f.w, e).ids = ArchAt(s.w, e).ids /\ at.arch \in Nat
    <3>1. at.arch \in DOMAIN s.w.archs /\ s.w \in Worlds
      BY <1>4, <2>1, LiveAt
    <3>2. f.w.loc = s.w.loc /\ f.w.archs[at.arch].ids = s.w.archs[at.arch].ids
      BY <1>5, <3>1 DEF SameColumns
    <3>3. at \in Place
      BY <1>4, <2>1, LiveIs
    <3>4. at.arch \in Nat
      BY <3>3 DEF Place
    <3>5. ArchAt(f.w, e) = f.w.archs[at.arch] /\ ArchAt(s.w, e) = s.w.archs[at.arch]
      BY <3>2 DEF ArchAt
    <3>6. QED
      BY Zenon, <3>2, <3>4, <3>5
  <2> HIDE DEF at
  <2>3. CASE Joins
    <3>1. u = u1
      BY <1>1, <1>8, <2>3
    <3>2. s.batch.comp \in ArchAt(s.w, e).ids /\ s.batch.arch = s.w.loc[e.idx].arch
      <4>1. 1 \in DOMAIN s.batch.entries
        BY <1>4, <2>3, BatchIs
      <4>2. s.batch.comp \in s.w.archs[s.batch.arch].ids
        BY <1>4, <4>1 DEF BatchFits
      <4>3. QED
        BY <2>3, <4>2 DEF ArchAt, at
    <3>3. entry = [row |-> s.w.loc[e.idx].row, val |-> val]
      BY DEF at
    <3> HIDE DEF entry, val
    <3> DEFINE more == More(s.batch, entry)
    <3>4. /\ BatchFits(s.w, more)
          /\ Meaning(Wrote(s.w, more), {})
               = Given(Meaning(Wrote(s.w, s.batch), {}), e, Just(s.batch.comp, val))
      BY <1>3, <1>4, <2>1, <3>2, <3>3, HoldMore
    <3>5. IsState(u) /\ u.w = s.w /\ u.batch = more /\ u.failed = s.failed
      BY <1>4, <3>1, BatchSet
    <3> HIDE DEF more
    <3>6. Held(u) = Given(Held(s), e, vals)
      BY <1>2, <1>3, <2>3, <3>4, <3>5 DEF Held
    <3>7. Sound(u, tick) /\ Steady(s.w, u.w)
      BY <1>4, <3>4, <3>5 DEF Sound, Steady
    <3>8. QED
      BY <1>8, <3>5, <3>6, <3>7 DEF Went
  <2>4. CASE ~Joins /\ comp \in ArchAt(s.w, e).ids
    <3>1. u = u2
      BY <1>1, <1>8, <2>4
    <3> DEFINE b0 == [arch |-> at.arch, comp |-> comp, entries |-> << >>]
    <3>2. b0 \in BatchType /\ b0.entries = << >> /\ b0.arch = at.arch /\ b0.comp = comp
      BY <1>2, <1>3, <2>2 DEF BatchType
    <3>3. b = More(b0, entry)
      BY DEF More
    <3>4. entry = [row |-> f.w.loc[e.idx].row, val |-> val]
      BY <2>2
    <3> HIDE DEF b, b0, entry, val
    <3>5. BatchFits(f.w, b0) /\ Wrote(f.w, b0) = f.w
      BY <3>2, EmptyBatch
    <3>6. b0.arch = f.w.loc[e.idx].arch /\ b0.comp \in ArchAt(f.w, e).ids
      BY <2>2, <2>4, <3>2
    <3>7. /\ BatchFits(f.w, More(b0, entry))
          /\ Meaning(Wrote(f.w, More(b0, entry)), {})
               = Given(Meaning(Wrote(f.w, b0), {}), e, Just(b0.comp, val))
      BY <1>3, <1>6, <2>1, <3>4, <3>5, <3>6, HoldMore
    <3>8. IsState(u) /\ u.w = f.w /\ u.batch = b /\ u.failed = f.failed
      BY <1>6, <3>1, BatchSet
    <3>9. Held(u) = Given(Held(s), e, vals)
      BY <1>2, <1>3, <1>5, <3>2, <3>3, <3>5, <3>7, <3>8 DEF Held
    <3>10. Sound(u, tick) /\ Steady(s.w, u.w)
      BY <1>5, <1>6, <3>3, <3>7, <3>8 DEF Sound
    <3>11. QED
      BY <1>5, <1>8, <3>8, <3>9, <3>10 DEF Went
  <2>5. CASE ~Joins /\ comp \notin ArchAt(s.w, e).ids
    <3>1. u = u3
      BY <1>1, <1>8, <2>5
    <3>2. ~(DOMAIN vals \subseteq ArchAt(f.w, e).ids)
      BY <1>2, <2>2, <2>5
    <3>3. new = Overlay(vals, Row(f.w, e).vals) /\ moved = Migrated(f.w, e, new)
          /\ mm = Marked(moved, ArchOf(moved, DOMAIN new), DOMAIN new, f.w.tick)
      BY <1>6
    <3> HIDE DEF new, moved, mm
    <3>4. Fit(mm, {}) /\ Steady(f.w, mm) /\ Meaning(mm, {}) = Given(Meaning(f.w, {}), e, vals)
      BY <1>6, <2>1, <3>2, <3>3, AddKeeps
    <3>5. mm.tick = tick
      BY <1>6, <3>4 DEF Steady
    <3>6. Sound(u, tick) /\ Held(u) = Meaning(mm, {}) /\ u.failed = f.failed /\ u.w = mm
      BY <1>5, <3>1, <3>4, <3>5, WorldMade
    <3>7. Steady(s.w, u.w)
      BY <1>5, <3>4, <3>6, SteadyTwice
    <3>8. QED
      BY <1>5, <1>8, <3>4, <3>6, <3>7 DEF Went
  <2>6. QED
    BY <2>3, <2>4, <2>5
<1>9. QED
  BY <1>7, <1>8

(* What the other mutations do, with nothing held back.                    *)
Clear(s, tick) == Sound(s, tick) /\ s.batch.entries = << >> /\ Meaning(s.w, {}) = Held(s)

LEMMA ClearIs ==
  ASSUME NEW s, NEW tick, Clear(s, tick)
  PROVE  /\ Sound(s, tick) /\ IsState(s) /\ Fit(s.w, {}) /\ s.w.tick = tick /\ tick \in Nat
         /\ s.batch.entries = << >> /\ Meaning(s.w, {}) = Held(s)
  BY SoundIs DEF Clear

LEMMA SpawnStep ==
  ASSUME NEW s, NEW tick, Clear(s, tick), NEW x, x.op = "spawn", x.ent \in H, x.vals \in On(V),
         IsAlive(s.w, x.ent), x.ent.idx \notin s.w.free, NEW u, u = ApplyOther(s, x, tick)
  PROVE  /\ Located(s.w, x.ent) => Refused(s, u, tick)
         /\ ~Located(s.w, x.ent) => /\ Went(s, u, tick, Given(Held(s), x.ent, x.vals))
                                    /\ Steady(s.w, u.w)
<1> DEFINE e == x.ent
           y == Placed(s.w, e, x.vals, tick)
<1>1. u = IF IsPlaced(s.w, e) THEN Fail(s) ELSE [s EXCEPT !.w = y]
  BY DEF ApplyOther
<1>2. Located(s.w, e) <=> IsPlaced(s.w, e)
  BY DEF Located
<1>3. /\ Sound(s, tick) /\ Fit(s.w, {}) /\ s.w.tick = tick /\ tick \in Nat
      /\ s.batch.entries = << >> /\ Meaning(s.w, {}) = Held(s)
  BY ClearIs
<1>4. CASE IsPlaced(s.w, e)
  <2>1. u = Fail(s)
    BY <1>1, <1>4
  <2>2. Sound(u, tick) /\ Held(u) = Held(s) /\ u.failed = TRUE
    BY ONLY <1>3, <2>1, FailKeeps
  <2>3. QED
    BY <1>2, <1>4, <2>2 DEF Refused
<1>5. CASE ~IsPlaced(s.w, e)
  <2>1. u = [s EXCEPT !.w = y]
    BY <1>1, <1>5
  <2>2. Fit(y, {}) /\ Steady(s.w, y) /\ Meaning(y, {}) = Given(Meaning(s.w, {}), e, x.vals)
    <3>1. tick <= s.w.tick
      BY <1>3
    <3>2. QED
      BY <1>3, <1>5, <3>1, PlacedKeeps
  <2> HIDE DEF y
  <2>3. y.tick = tick
    BY <1>3, <2>2 DEF Steady
  <2>4. Sound(u, tick) /\ Held(u) = Meaning(y, {}) /\ u.failed = s.failed /\ u.w = y
    BY <1>3, <2>1, <2>2, <2>3, WorldMade
  <2>5. QED
    BY <1>2, <1>3, <1>5, <2>2, <2>4 DEF Went
<1>6. QED
  BY <1>4, <1>5

LEMMA DespawnStep ==
  ASSUME NEW s, NEW tick, Clear(s, tick), NEW x, x.op = "despawn", x.ent \in H,
         NEW u, u = ApplyOther(s, x, tick)
  PROVE  /\ ~Located(s.w, x.ent) => Refused(s, u, tick)
         /\ Located(s.w, x.ent) => /\ Went(s, u, tick, Gone(Held(s), {x.ent}))
                                   /\ Freed(s.w, u.w, {x.ent})
<1> DEFINE e == x.ent
           y == Despawned(s.w, e)
<1>1. u = IF Located(s.w, e) THEN [s EXCEPT !.w = y] ELSE Fail(s)
  BY DEF ApplyOther
<1>2. /\ Sound(s, tick) /\ Fit(s.w, {}) /\ s.w.tick = tick /\ tick \in Nat
      /\ s.batch.entries = << >> /\ Meaning(s.w, {}) = Held(s)
  BY ClearIs
<1>3. CASE ~Located(s.w, e)
  <2>1. u = Fail(s)
    BY <1>1, <1>3
  <2>2. Sound(u, tick) /\ Held(u) = Held(s) /\ u.failed = TRUE
    BY ONLY <1>2, <2>1, FailKeeps
  <2>3. QED
    BY <1>3, <2>2 DEF Refused
<1>4. CASE Located(s.w, e)
  <2>1. u = [s EXCEPT !.w = y]
    BY <1>1, <1>4
  <2>2. e \in Live(s.w, {})
    BY <1>4 DEF Live
  <2>3. Fit(y, {}) /\ Freed(s.w, y, {e}) /\ Meaning(y, {}) = Gone(Meaning(s.w, {}), {e})
    BY <1>2, <2>2, DespawnedKeeps
  <2> HIDE DEF y
  <2>4. y.tick = tick
    BY <1>2, <2>3 DEF Freed
  <2>5. Sound(u, tick) /\ Held(u) = Meaning(y, {}) /\ u.failed = s.failed /\ u.w = y
    BY <1>2, <2>1, <2>3, <2>4, WorldMade
  <2>6. QED
    BY <1>2, <1>4, <2>3, <2>5 DEF Went
<1>5. QED
  BY <1>3, <1>4

LEMMA RemoveStep ==
  ASSUME NEW s, NEW tick, Clear(s, tick), NEW x, x.op = "remove", x.ent \in H,
         x.comp \in Components, NEW u, u = ApplyOther(s, x, tick)
  PROVE  /\ ~Located(s.w, x.ent) => Refused(s, u, tick)
         /\ Located(s.w, x.ent) => /\ Went(s, u, tick, Taken(Held(s), x.ent, x.comp))
                                   /\ Steady(s.w, u.w)
<1> DEFINE e == x.ent
           c == x.comp
           kept == Only(Row(s.w, e).vals, ArchAt(s.w, e).ids \ {c})
           moved == Migrated(s.w, e, kept)
           y == Marked(moved, ArchOf(moved, DOMAIN kept), DOMAIN kept, tick)
<1>1. u = IF ~Located(s.w, e) THEN Fail(s)
          ELSE IF c \notin ArchAt(s.w, e).ids THEN s ELSE [s EXCEPT !.w = y]
  BY DEF ApplyOther, ApplyRemove
<1>2. /\ Sound(s, tick) /\ Fit(s.w, {}) /\ s.w.tick = tick /\ tick \in Nat
      /\ s.batch.entries = << >> /\ Meaning(s.w, {}) = Held(s)
  BY ClearIs
<1>3. CASE ~Located(s.w, e)
  <2>1. u = Fail(s)
    BY <1>1, <1>3
  <2>2. Sound(u, tick) /\ Held(u) = Held(s) /\ u.failed = TRUE
    BY ONLY <1>2, <2>1, FailKeeps
  <2>3. QED
    BY <1>3, <2>2 DEF Refused
<1>4. CASE Located(s.w, e) /\ c \notin ArchAt(s.w, e).ids
  <2> DEFINE k == Meaning(s.w, {})
  <2>1. u = s /\ e \in Live(s.w, {})
    BY <1>1, <1>4 DEF Live
  <2>2. IsMap(k) /\ e \in DOMAIN k /\ c \notin DOMAIN k[e]
    BY <1>2, <1>4, <2>1, MeaningIs, HasColumn
  <2>3. IsMap(k[e])
    <3> DEFINE vals == Row(s.w, e).vals
    <3>1. k[e] = Over(s.w, e, vals) /\ vals \in On(V)
      BY <1>2, <2>1, MeaningAt, LiveIs
    <3> HIDE DEF vals, k
    <3>2. IsMap(Over(s.w, e, vals))
      BY <3>1, OverIs
    <3>3. QED
      BY <3>1, <3>2
  <2> HIDE DEF k
  <2>4. Taken(k, e, c) = k
    BY <2>2, <2>3, NothingTaken
  <2>5. QED
    BY <1>2, <1>4, <2>1, <2>4 DEF Went, Steady, k
<1>5. CASE Located(s.w, e) /\ c \in ArchAt(s.w, e).ids
  <2>1. u = [s EXCEPT !.w = y]
    BY <1>1, <1>5
  <2>2. e \in Live(s.w, {})
    BY <1>5 DEF Live
  <2>3. kept = Only(Row(s.w, e).vals, ArchAt(s.w, e).ids \ {c}) /\ moved = Migrated(s.w, e, kept)
    OBVIOUS
  <2>11. c \in Components
    OBVIOUS
  <2> HIDE DEF kept, moved, c, e
  <2>4. Fit(moved, {}) /\ Steady(s.w, moved) /\ Meaning(moved, {}) = Taken(Meaning(s.w, {}), e, c)
    <3> DEFINE w == s.w
    <3>1. /\ Fit(w, {}) /\ e \in Live(w, {}) /\ c \in Components /\ c \in ArchAt(w, e).ids
          /\ kept = Only(Row(w, e).vals, ArchAt(w, e).ids \ {c}) /\ moved = Migrated(w, e, kept)
      BY <1>2, <1>5, <2>2, <2>3, <2>11
    <3> HIDE DEF w
    <3>2. Fit(moved, {}) /\ Steady(w, moved) /\ Meaning(moved, {}) = Taken(Meaning(w, {}), e, c)
      BY <3>1, TakeKeeps
    <3>3. QED
      BY <3>2 DEF w
  <2>12. ArchOf(moved, DOMAIN kept) \in DOMAIN moved.archs
    BY <1>2, <1>5, <2>2, <2>3, <2>11, TakeKeeps
  <2>5. tick <= moved.tick
    BY <1>2, <2>4 DEF Steady
  <2>6. Fit(y, {}) /\ Steady(moved, y) /\ Meaning(y, {}) = Meaning(moved, {})
    BY <1>2, <2>4, <2>5, <2>12, MarkSame
  <2> HIDE DEF y
  <2>7. Steady(s.w, y)
    BY <2>4, <2>6, SteadyTwice
  <2>8. y.tick = tick
    BY <1>2, <2>7 DEF Steady
  <2>9. Sound(u, tick) /\ Held(u) = Meaning(y, {}) /\ u.failed = s.failed /\ u.w = y
    BY <1>2, <2>1, <2>6, <2>8, WorldMade
  <2>10. QED
    BY <1>2, <1>5, <2>4, <2>6, <2>7, <2>9 DEF Went, c, e
<1>6. QED
  BY <1>3, <1>4, <1>5

LEMMA SparseInsertStep ==
  ASSUME NEW s, NEW tick, Clear(s, tick), NEW x, x.op = "sparse_insert", x.ent \in H,
         NEW v \in V, x.vals = Just(Sparse, v), IsAlive(s.w, x.ent) <=> Located(s.w, x.ent),
         NEW u, u = ApplyOther(s, x, tick)
  PROVE  /\ ~Located(s.w, x.ent) => Refused(s, u, tick)
         /\ Located(s.w, x.ent) => /\ Went(s, u, tick, Given(Held(s), x.ent, x.vals))
                                   /\ Steady(s.w, u.w)
<1> DEFINE e == x.ent
           y == SparseInserted(s.w, e, v)
<1>1. x.vals[Sparse] = v
  BY JustIs
<1>2. u = IF IsAlive(s.w, e) THEN [s EXCEPT !.w = y] ELSE Fail(s)
  BY <1>1 DEF ApplyOther
<1>3. /\ Sound(s, tick) /\ Fit(s.w, {}) /\ s.w.tick = tick /\ tick \in Nat
      /\ s.batch.entries = << >> /\ Meaning(s.w, {}) = Held(s)
  BY ClearIs
<1>4. CASE ~Located(s.w, e)
  <2>1. u = Fail(s)
    BY <1>2, <1>4
  <2>2. Sound(u, tick) /\ Held(u) = Held(s) /\ u.failed = TRUE
    BY ONLY <1>3, <2>1, FailKeeps
  <2>3. QED
    BY <1>4, <2>2 DEF Refused
<1>5. CASE Located(s.w, e)
  <2>1. u = [s EXCEPT !.w = y]
    BY <1>2, <1>5
  <2>2. e \in Live(s.w, {})
    BY <1>5 DEF Live
  <2>3. /\ Fit(y, {}) /\ Steady(s.w, y)
        /\ Meaning(y, {}) = Given(Meaning(s.w, {}), e, Just(Sparse, v))
    BY <1>3, <2>2, SparseInsertedMeans
  <2> HIDE DEF y
  <2>4. y.tick = tick
    BY <1>3, <2>3 DEF Steady
  <2>5. Sound(u, tick) /\ Held(u) = Meaning(y, {}) /\ u.failed = s.failed /\ u.w = y
    BY <1>3, <2>1, <2>3, <2>4, WorldMade
  <2>6. QED
    BY <1>3, <1>5, <2>3, <2>5 DEF Went
<1>6. QED
  BY <1>4, <1>5

LEMMA SparseRemoveStep ==
  ASSUME NEW s, NEW tick, Clear(s, tick), NEW x, x.op = "sparse_remove", x.ent \in H,
         x.comp = Sparse, IsAlive(s.w, x.ent) <=> Located(s.w, x.ent),
         NEW u, u = ApplyOther(s, x, tick)
  PROVE  /\ ~Located(s.w, x.ent) => Refused(s, u, tick)
         /\ Located(s.w, x.ent) => /\ Went(s, u, tick, Taken(Held(s), x.ent, x.comp))
                                   /\ Steady(s.w, u.w)
<1> DEFINE e == x.ent
           y == SparseRemoved(s.w, e)
<1>1. u = IF IsAlive(s.w, e) THEN [s EXCEPT !.w = y] ELSE Fail(s)
  BY DEF ApplyOther
<1>2. /\ Sound(s, tick) /\ Fit(s.w, {}) /\ s.w.tick = tick /\ tick \in Nat
      /\ s.batch.entries = << >> /\ Meaning(s.w, {}) = Held(s)
  BY ClearIs
<1>3. CASE ~Located(s.w, e)
  <2>1. u = Fail(s)
    BY <1>1, <1>3
  <2>2. Sound(u, tick) /\ Held(u) = Held(s) /\ u.failed = TRUE
    BY ONLY <1>2, <2>1, FailKeeps
  <2>3. QED
    BY <1>3, <2>2 DEF Refused
<1>4. CASE Located(s.w, e)
  <2>1. u = [s EXCEPT !.w = y]
    BY <1>1, <1>4
  <2>2. e \in Live(s.w, {})
    BY <1>4 DEF Live
  <2>3. Fit(y, {}) /\ Steady(s.w, y) /\ Meaning(y, {}) = Taken(Meaning(s.w, {}), e, Sparse)
    BY <1>2, <2>2, SparseRemovedMeans
  <2> HIDE DEF y
  <2>4. y.tick = tick
    BY <1>2, <2>3 DEF Steady
  <2>5. Sound(u, tick) /\ Held(u) = Meaning(y, {}) /\ u.failed = s.failed /\ u.w = y
    BY <1>2, <2>1, <2>3, <2>4, WorldMade
  <2>6. QED
    BY <1>2, <1>4, <2>3, <2>5 DEF Went
<1>5. QED
  BY <1>3, <1>4

-----------------------------------------------------------------------------
(* What a mutation means, and how far a changeset got.                     *)
IsMeant(k) == k = [m |-> k.m, failed |-> k.failed]

LEMMA MeantFails ==
  ASSUME NEW k, IsMeant(k), NEW x, k.failed \/ ((x.op = "spawn") <=> (x.ent \in DOMAIN k.m))
  PROVE  IsMeant(MeantBy(k, x)) /\ MeantBy(k, x).m = k.m /\ MeantBy(k, x).failed = TRUE
<1> DEFINE t == TRUE
           r == [m |-> k.m, failed |-> k.failed]
           q == [m |-> k.m, failed |-> t]
<1>1. MeantBy(k, x) = [k EXCEPT !.failed = TRUE]
  BY DEF MeantBy
<1>2. [k EXCEPT !.failed = TRUE] = [k EXCEPT !.failed = t] /\ t = TRUE
  OBVIOUS
<1> HIDE DEF t
<1>3. [r EXCEPT !.failed = t] = q
  OBVIOUS
<1>4. [k EXCEPT !.failed = t] = [r EXCEPT !.failed = t]
  BY DEF IsMeant
<1>5. q.m = k.m /\ q.failed = t
  OBVIOUS
<1>6. IsMeant(q)
  BY <1>5 DEF IsMeant
<1> HIDE DEF q, r
<1>7. QED
  BY <1>1, <1>2, <1>3, <1>4, <1>5, <1>6

LEMMA MeantSet ==
  ASSUME NEW k, IsMeant(k), NEW m
  PROVE  IsMeant([k EXCEPT !.m = m]) /\ [k EXCEPT !.m = m].m = m /\ [k EXCEPT !.m = m].failed = k.failed
<1> DEFINE r == [m |-> k.m, failed |-> k.failed]
           q == [m |-> m, failed |-> k.failed]
<1>1. [r EXCEPT !.m = m] = q
  OBVIOUS
<1>2. [k EXCEPT !.m = m] = [r EXCEPT !.m = m]
  BY DEF IsMeant
<1>3. q.m = m /\ q.failed = k.failed
  OBVIOUS
<1>4. IsMeant(q)
  BY <1>3 DEF IsMeant
<1> HIDE DEF q, r
<1>5. QED
  BY <1>1, <1>2, <1>3, <1>4

LEMMA MeantGoes ==
  ASSUME NEW k, IsMeant(k), NEW x, ~k.failed, ~((x.op = "spawn") <=> (x.ent \in DOMAIN k.m)),
         NEW m,
         \/ x.op \in {"spawn", "insert", "sparse_insert"} /\ m = Given(k.m, x.ent, x.vals)
         \/ x.op \in {"remove", "sparse_remove"} /\ m = Taken(k.m, x.ent, x.comp)
         \/ x.op = "despawn" /\ m = Gone(k.m, {x.ent})
  PROVE  IsMeant(MeantBy(k, x)) /\ MeantBy(k, x).m = m /\ MeantBy(k, x).failed = k.failed
<1>1. MeantBy(k, x) = [k EXCEPT !.m = m]
  <2>1. CASE x.op \in {"spawn", "insert", "sparse_insert"} /\ m = Given(k.m, x.ent, x.vals)
    BY <2>1 DEF MeantBy
  <2>2. CASE x.op \in {"remove", "sparse_remove"} /\ m = Taken(k.m, x.ent, x.comp)
    BY <2>2 DEF MeantBy
  <2>3. CASE x.op = "despawn" /\ m = Gone(k.m, {x.ent})
    BY <2>3 DEF MeantBy
  <2>4. QED
    BY <2>1, <2>2, <2>3
<1>2. QED
  BY <1>1, MeantSet

(* From w0 to w the entities D were despawned and no others.               *)
KeptAlive(w0, w, D, h) ==
  IF h \in D THEN ~IsAlive(w, h) ELSE IsAlive(w, h) /\ h.idx \notin w.free

Since(w0, w, D) ==
  /\ w0 \in Worlds /\ w \in Worlds
  /\ \A s \in Slots : w.gens[s] >= w0.gens[s]
  /\ \A h \in H : IsAlive(w0, h) /\ h.idx \notin w0.free => KeptAlive(w0, w, D, h)
  /\ \A h \in H : Located(w0, h) /\ h \notin D => Located(w, h)

LEMMA SinceSteady ==
  ASSUME NEW w0, NEW w, NEW D, Since(w0, w, D), NEW u \in Worlds, Steady(w, u),
         Live(w, {}) \subseteq Live(u, {})
  PROVE  Since(w0, u, D)
<1>1. u.gens = w.gens /\ u.free = w.free
  BY DEF Steady
<1>2. \A h : IsAlive(u, h) <=> IsAlive(w, h)
  BY <1>1 DEF IsAlive
<1>3. \A h \in H : Located(w, h) => Located(u, h)
  BY DEF Live
<1>4. w0 \in Worlds /\ \A s \in Slots : u.gens[s] >= w0.gens[s]
  BY <1>1 DEF Since
<1>5. \A h \in H : IsAlive(w0, h) /\ h.idx \notin w0.free => KeptAlive(w0, u, D, h)
  BY <1>1, <1>2 DEF Since, KeptAlive
<1>6. \A h \in H : Located(w0, h) /\ h \notin D => Located(u, h)
  BY <1>3 DEF Since
<1>7. QED
  BY <1>4, <1>5, <1>6 DEF Since

LEMMA SinceFreed ==
  ASSUME NEW w0, NEW w, NEW D, Since(w0, w, D), NEW u \in Worlds, NEW e \in Live(w, {}),
         Freed(w, u, {e}), Live(u, {}) = Live(w, {}) \ {e}
  PROVE  Since(w0, u, Plus(D, e))
<1>1. /\ w0 \in Worlds /\ w \in Worlds /\ w.gens \in [Slots -> Nat] /\ w0.gens \in [Slots -> Nat]
      /\ u.gens \in [Slots -> Nat]
  BY WorldFields DEF Since
<1>2. e \in H /\ IsAlive(w, e) /\ e.idx \in Slots /\ e.gen \in Nat
  BY HandleIs DEF Live, Located
<1>3. \A s : InSlots({e}, s) <=> s = e.idx
  BY DEF InSlots
<1>4. /\ \A s : s \in u.free <=> s \in w.free \/ s = e.idx
      /\ \A s \in Slots : u.gens[s] = IF s = e.idx THEN w.gens[s] + 1 ELSE w.gens[s]
  BY <1>3 DEF Freed
<1>5. \A s \in Slots : u.gens[s] >= w0.gens[s] /\ u.gens[s] >= w.gens[s]
  <2> SUFFICES ASSUME NEW s \in Slots
               PROVE  u.gens[s] >= w0.gens[s] /\ u.gens[s] >= w.gens[s]
    OBVIOUS
  <2>1. w.gens[s] >= w0.gens[s]
    BY DEF Since
  <2>2. w.gens[s] \in Nat /\ w0.gens[s] \in Nat
    BY <1>1
  <2>3. QED
    BY <1>4, <2>1, <2>2
<1>6. ASSUME NEW h \in H, IsAlive(w0, h), h.idx \notin w0.free
      PROVE  KeptAlive(w0, u, Plus(D, e), h)
  <2>1. KeptAlive(w0, w, D, h) /\ h.idx \in Slots /\ h.gen \in Nat /\ w0.gens[h.idx] = h.gen
    BY <1>6, HandleIs DEF Since, IsAlive
  <2>2. CASE h = e
    <3>1. u.gens[h.idx] = h.gen + 1
      BY <1>2, <1>4, <2>2 DEF IsAlive
    <3>2. u.gens[h.idx] # h.gen
      BY <2>1, <3>1
    <3>3. QED
      BY <2>2, <3>2 DEF KeptAlive, Plus, IsAlive
  <2>3. CASE h # e /\ h \in D
    <3>1. w.gens[h.idx] # h.gen /\ w.gens[h.idx] >= h.gen
      BY <2>1, <2>3 DEF KeptAlive, IsAlive, Since
    <3>2. u.gens[h.idx] >= w.gens[h.idx]
      BY <1>5, <2>1
    <3>3. u.gens[h.idx] # h.gen
      <4>1. u.gens[h.idx] \in Nat /\ w.gens[h.idx] \in Nat
        BY <1>1, <2>1
      <4>2. QED
        BY <2>1, <3>1, <3>2, <4>1
    <3>4. QED
      BY <2>3, <3>3 DEF KeptAlive, Plus, IsAlive
  <2>4. CASE h # e /\ h \notin D
    <3>1. IsAlive(w, h) /\ h.idx \notin w.free
      BY <2>1, <2>4 DEF KeptAlive
    <3>2. h.idx # e.idx
      BY <1>2, <2>4, <3>1, OneAlive
    <3>3. IsAlive(u, h) /\ h.idx \notin u.free
      BY <1>4, <2>1, <3>1, <3>2 DEF IsAlive
    <3>4. QED
      BY <2>4, <3>3 DEF KeptAlive, Plus
  <2>5. QED
    BY <2>2, <2>3, <2>4
<1>7. ASSUME NEW h \in H, Located(w0, h), h \notin Plus(D, e)
      PROVE  Located(u, h)
  <2>1. h \notin D /\ h # e
    BY <1>7 DEF Plus
  <2>2. Located(w, h)
    BY <1>7, <2>1 DEF Since
  <2>3. h \in Live(u, {})
    BY <2>1, <2>2 DEF Live
  <2>4. QED
    BY <2>3 DEF Live
<1>8. QED
  BY <1>1, <1>5, <1>6, <1>7 DEF Since

(* The world and what it should mean, after part of a changeset.           *)
Agree(w0, s, k, tick, D) ==
  /\ Sound(s, tick) /\ IsMeant(k) /\ (s.failed <=> k.failed) /\ Held(s) = k.m
  /\ ~s.failed => Since(w0, s.w, D)

LEMMA AgreeMost ==
  ASSUME NEW w0, NEW s, NEW k, NEW tick, NEW D, Agree(w0, s, k, tick, D)
  PROVE  Agree(w0, MostHeld(s), k, tick, D)
<1> DEFINE u == MostHeld(s)
<1>1. /\ Sound(s, tick) /\ IsMeant(k) /\ (s.failed <=> k.failed) /\ Held(s) = k.m
      /\ (~s.failed => Since(w0, s.w, D))
  BY DEF Agree
<1>2. IsState(u) /\ u.w = s.w /\ u.batch = s.batch /\ u.failed = s.failed
  BY <1>1, SoundIs, MostHeldIs
<1> HIDE DEF u
<1>3. Sound(u, tick) /\ Held(u) = Held(s)
  BY <1>1, <1>2 DEF Sound, Held
<1>4. Agree(w0, u, k, tick, D)
  BY <1>1, <1>2, <1>3 DEF Agree
<1>5. QED
  BY <1>4 DEF u

LEMMA AgreeRefused ==
  ASSUME NEW w0, NEW s, NEW k, NEW tick, NEW D, IsMeant(k), Held(s) = k.m,
         NEW x, k.failed \/ ((x.op = "spawn") <=> (x.ent \in DOMAIN k.m)),
         NEW u, Refused(s, u, tick)
  PROVE  Agree(w0, u, MeantBy(k, x), tick, D)
<1>1. IsMeant(MeantBy(k, x)) /\ MeantBy(k, x).m = k.m /\ MeantBy(k, x).failed = TRUE
  BY MeantFails
<1>2. Sound(u, tick) /\ u.failed = TRUE /\ Held(u) = Held(s)
  BY DEF Refused
<1>3. QED
  BY <1>1, <1>2 DEF Agree

LEMMA AgreeSteady ==
  ASSUME NEW w0, NEW s, NEW k, NEW tick, NEW D, Agree(w0, s, k, tick, D), ~s.failed,
         NEW x, ~((x.op = "spawn") <=> (x.ent \in DOMAIN k.m)), NEW m,
         \/ x.op \in {"spawn", "insert", "sparse_insert"} /\ m = Given(k.m, x.ent, x.vals)
         \/ x.op \in {"remove", "sparse_remove"} /\ m = Taken(k.m, x.ent, x.comp),
         NEW u, Went(s, u, tick, m), Steady(s.w, u.w)
  PROVE  Agree(w0, u, MeantBy(k, x), tick, D)
<1>1. /\ Sound(s, tick) /\ IsMeant(k) /\ ~k.failed /\ Held(s) = k.m /\ Since(w0, s.w, D)
  BY DEF Agree
<1>2. IsMeant(MeantBy(k, x)) /\ MeantBy(k, x).m = m /\ MeantBy(k, x).failed = k.failed
  <2>1. MeantBy(k, x) = [k EXCEPT !.m = m]
    <3>1. CASE x.op \in {"spawn", "insert", "sparse_insert"} /\ m = Given(k.m, x.ent, x.vals)
      BY <1>1, <3>1 DEF MeantBy
    <3>2. CASE x.op \in {"remove", "sparse_remove"} /\ m = Taken(k.m, x.ent, x.comp)
      BY <1>1, <3>2 DEF MeantBy
    <3>3. QED
      BY <3>1, <3>2
  <2>2. QED
    BY <1>1, <2>1 DEF IsMeant
<1>3. Sound(u, tick) /\ u.failed = s.failed /\ Held(u) = m
  BY DEF Went
<1>4. DOMAIN k.m \subseteq DOMAIN m
  <2>1. CASE m = Given(k.m, x.ent, x.vals)
    <3> DEFINE j == Just(x.ent, IF x.ent \in DOMAIN k.m THEN Overlay(x.vals, k.m[x.ent]) ELSE x.vals)
    <3>1. m = Overlay(j, k.m)
      BY <2>1 DEF Given
    <3> HIDE DEF j
    <3>2. QED
      BY <3>1, OverlayIs
  <2>2. CASE m = Taken(k.m, x.ent, x.comp)
    BY <2>2 DEF Taken
  <2>3. QED
    BY <2>1, <2>2
<1>5. Live(s.w, {}) \subseteq Live(u.w, {}) /\ u.w \in Worlds
  <2>1. DOMAIN Held(s) = Live(s.w, {}) /\ DOMAIN Held(u) = Live(u.w, {}) /\ Fit(u.w, {})
    BY <1>1, <1>3, SoundIs
  <2>2. QED
    BY <1>1, <1>3, <1>4, <2>1 DEF Fit
<1>6. Since(w0, u.w, D)
  BY <1>1, <1>5, SinceSteady
<1>7. QED
  BY <1>1, <1>2, <1>3, <1>6 DEF Agree

LEMMA AgreeFreed ==
  ASSUME NEW w0, NEW s, NEW k, NEW tick, NEW D, Agree(w0, s, k, tick, D), ~s.failed,
         NEW x, x.op = "despawn", x.ent \in DOMAIN k.m,
         NEW u, Went(s, u, tick, Gone(k.m, {x.ent})), Freed(s.w, u.w, {x.ent})
  PROVE  Agree(w0, u, MeantBy(k, x), tick, Plus(D, x.ent))
<1> DEFINE m == Gone(k.m, {x.ent})
           e == x.ent
<1>1. /\ Sound(s, tick) /\ IsMeant(k) /\ ~k.failed /\ Held(s) = k.m /\ Since(w0, s.w, D)
  BY DEF Agree
<1>2. IsMeant(MeantBy(k, x)) /\ MeantBy(k, x).m = m /\ MeantBy(k, x).failed = k.failed
  <2>1. ~((x.op = "spawn") <=> (x.ent \in DOMAIN k.m))
    OBVIOUS
  <2>2. QED
    BY <1>1, <2>1, MeantGoes
<1>3. Sound(u, tick) /\ u.failed = s.failed /\ Held(u) = m
  BY DEF Went
<1>4. DOMAIN m = DOMAIN k.m \ {e}
  BY GoneIs
<1> HIDE DEF m
<1>5. Live(u.w, {}) = Live(s.w, {}) \ {e} /\ u.w \in Worlds /\ e \in Live(s.w, {})
  <2>1. DOMAIN Held(s) = Live(s.w, {}) /\ DOMAIN Held(u) = Live(u.w, {}) /\ Fit(u.w, {})
    BY <1>1, <1>3, SoundIs
  <2>2. QED
    BY <1>1, <1>3, <1>4, <2>1 DEF Fit
<1>6. Since(w0, u.w, Plus(D, e))
  BY <1>1, <1>5, SinceFreed
<1>7. QED
  BY <1>1, <1>2, <1>3, <1>6 DEF Agree, e

LEMMA AgreeFlushed ==
  ASSUME NEW w0, NEW s, NEW k, NEW tick, NEW D, Agree(w0, s, k, tick, D),
         NEW f, f = Flushed(s, tick)
  PROVE  Agree(w0, f, k, tick, D) /\ Clear(f, tick) /\ f.failed = s.failed
<1>1. /\ Sound(s, tick) /\ IsMeant(k) /\ (s.failed <=> k.failed) /\ Held(s) = k.m
      /\ (~s.failed => Since(w0, s.w, D))
  BY DEF Agree
<1>2. /\ Sound(f, tick) /\ Steady(s.w, f.w)
      /\ Held(f) = Held(s) /\ Meaning(f.w, {}) = Held(s)
      /\ f.batch.entries = << >> /\ f.failed = s.failed /\ Live(f.w, {}) = Live(s.w, {})
  BY <1>1, FlushKeeps
<1>3. f.w \in Worlds
  BY <1>2, SoundIs DEF Fit
<1>4. ~s.failed => Since(w0, f.w, D)
  BY <1>1, <1>2, <1>3, SinceSteady
<1>5. QED
  BY <1>1, <1>2, <1>4 DEF Agree, Clear

(* The handles that a changeset may name.                                  *)
KnownAt(w0, h) ==
  h \in H /\ (h.gen < w0.gens[h.idx] \/ (IsAlive(w0, h) /\ h.idx \notin w0.free))

Valid(w0, x) ==
  /\ KnownAt(w0, x.ent)
  /\ \/ x.op = "spawn" /\ x.vals \in On(V) /\ IsAlive(w0, x.ent) /\ ~IsPlaced(w0, x.ent)
     \/ x.op = "insert" /\ x.vals \in On(V) /\ \E c : DOMAIN x.vals = {c}
     \/ x.op = "remove" /\ x.comp \in Components
     \/ x.op = "despawn"
     \/ /\ x.op = "sparse_insert" /\ (\E v \in V : x.vals = Just(Sparse, v))
        /\ (IsAlive(w0, x.ent) => IsPlaced(w0, x.ent))
     \/ /\ x.op = "sparse_remove" /\ x.comp = Sparse
        /\ (IsAlive(w0, x.ent) => IsPlaced(w0, x.ent))

LEMMA StillAlive ==
  ASSUME NEW w0, NEW w, NEW D, Since(w0, w, D), NEW e, KnownAt(w0, e)
  PROVE  /\ IsAlive(w0, e) /\ e \notin D => IsAlive(w, e) /\ e.idx \notin w.free
         /\ (IsAlive(w0, e) => IsPlaced(w0, e)) => (IsAlive(w, e) <=> Located(w, e))
<1>1. e \in H /\ e.idx \in Slots /\ e.gen \in Nat
  BY HandleIs DEF KnownAt
<1>2. w0.gens[e.idx] \in Nat /\ w.gens[e.idx] \in Nat /\ w.gens[e.idx] >= w0.gens[e.idx]
  BY <1>1, WorldFields DEF Since
<1>3. IsAlive(w0, e) => e.idx \notin w0.free
  BY <1>1, <1>2 DEF KnownAt, IsAlive
<1>4. IsAlive(w0, e) => KeptAlive(w0, w, D, e)
  BY <1>1, <1>3 DEF Since
<1>5. ~IsAlive(w0, e) => ~IsAlive(w, e)
  BY <1>1, <1>2 DEF KnownAt, IsAlive
<1>6. Located(w0, e) /\ e \notin D => Located(w, e)
  BY <1>1 DEF Since
<1>7. QED
  BY <1>4, <1>5, <1>6 DEF KeptAlive, Located

Buried(D, x) == IF x.op = "despawn" THEN Plus(D, x.ent) ELSE D

LEMMA ApplyAfterFailure ==
  ASSUME NEW w0, NEW s, NEW k, NEW tick, NEW D, Agree(w0, s, k, tick, D), s.failed,
         NEW x, NEW F
  PROVE  Agree(w0, ApplyOne(s, x, tick), MeantBy(k, x), tick, F)
<1>1. Sound(s, tick) /\ IsMeant(k) /\ (s.failed <=> k.failed) /\ Held(s) = k.m
  BY DEF Agree
<1>2. IsMeant(MeantBy(k, x)) /\ MeantBy(k, x).m = k.m /\ MeantBy(k, x).failed = TRUE
  BY <1>1, MeantFails
<1>3. ApplyOne(s, x, tick) = s
  BY DEF ApplyOne
<1>4. Agree(w0, s, MeantBy(k, x), tick, F)
  BY <1>1, <1>2 DEF Agree
<1>5. QED
  BY <1>3, <1>4

LEMMA InsertAgrees ==
  ASSUME NEW w0, NEW s, NEW k, NEW tick, NEW D, Agree(w0, s, k, tick, D), ~s.failed,
         NEW x, x.op = "insert", Valid(w0, x), NEW u, u = ApplyInsert(s, x, tick)
  PROVE  Agree(w0, u, MeantBy(k, x), tick, D)
<1>1. Sound(s, tick) /\ IsMeant(k) /\ (s.failed <=> k.failed) /\ Held(s) = k.m
  BY DEF Agree
<1>2. x.ent \in H /\ x.vals \in On(V)
  BY DEF Valid, KnownAt
<1>3. PICK c : DOMAIN x.vals = {c}
  BY DEF Valid
<1>4. /\ ~Located(s.w, x.ent) => Refused(s, u, tick)
      /\ Located(s.w, x.ent) => Went(s, u, tick, Given(Held(s), x.ent, x.vals))
                                /\ Steady(s.w, u.w)
  BY <1>1, <1>2, <1>3, InsertStep
<1>5. Located(s.w, x.ent) <=> x.ent \in DOMAIN k.m
  <2>1. DOMAIN Held(s) = Live(s.w, {})
    BY <1>1, SoundIs
  <2>2. QED
    BY <1>1, <1>2, <2>1 DEF Live
<1>6. CASE x.ent \notin DOMAIN k.m
  <2>1. Refused(s, u, tick)
    BY <1>4, <1>5, <1>6
  <2>2. k.failed \/ ((x.op = "spawn") <=> (x.ent \in DOMAIN k.m))
    BY <1>6
  <2>3. QED
    BY <1>1, <2>1, <2>2, AgreeRefused
<1>7. CASE x.ent \in DOMAIN k.m
  <2> DEFINE m == Given(k.m, x.ent, x.vals)
  <2>1. Went(s, u, tick, m) /\ Steady(s.w, u.w)
    BY <1>1, <1>4, <1>5, <1>7
  <2>2. ~((x.op = "spawn") <=> (x.ent \in DOMAIN k.m))
    BY <1>7
  <2>3. x.op \in {"spawn", "insert", "sparse_insert"} /\ m = Given(k.m, x.ent, x.vals)
    OBVIOUS
  <2> HIDE DEF m
  <2>4. QED
    BY <2>1, <2>2, <2>3, AgreeSteady
<1>8. QED
  BY <1>6, <1>7

(* The other mutations, on a changeset whose writes have been flushed.     *)
LEMMA OtherAgrees ==
  ASSUME NEW w0, NEW s, NEW k, NEW tick, NEW D, Agree(w0, s, k, tick, D), ~s.failed, Clear(s, tick),
         NEW x, x.op # "insert", Valid(w0, x), x.op = "spawn" => x.ent \notin D,
         NEW u, u = ApplyOther(s, x, tick)
  PROVE  Agree(w0, u, MeantBy(k, x), tick, Buried(D, x))
<1>1. /\ Sound(s, tick) /\ IsMeant(k) /\ (s.failed <=> k.failed) /\ Held(s) = k.m
      /\ Since(w0, s.w, D)
  BY DEF Agree
<1>2. KnownAt(w0, x.ent) /\ x.ent \in H
  BY DEF Valid, KnownAt
<1>3. Located(s.w, x.ent) <=> x.ent \in DOMAIN k.m
  <2>1. DOMAIN Held(s) = Live(s.w, {})
    BY <1>1, SoundIs
  <2>2. QED
    BY <1>1, <1>2, <2>1 DEF Live
<1> DEFINE w == s.w
           e == x.ent
<1>4. /\ IsAlive(w0, e) /\ e \notin D => IsAlive(w, e) /\ e.idx \notin w.free
      /\ (IsAlive(w0, e) => IsPlaced(w0, e)) => (IsAlive(w, e) <=> Located(w, e))
  <2>1. Since(w0, w, D) /\ KnownAt(w0, e)
    BY <1>1, <1>2
  <2> HIDE DEF w, e
  <2>2. QED
    BY <2>1, StillAlive
<1>5. CASE x.op = "spawn"
  <2>1. x.vals \in On(V) /\ IsAlive(w0, e) /\ e \notin D
    BY <1>5 DEF Valid
  <2>2. IsAlive(s.w, x.ent) /\ x.ent.idx \notin s.w.free
    BY <1>4, <2>1
  <2>3. /\ Located(s.w, x.ent) => Refused(s, u, tick)
        /\ ~Located(s.w, x.ent) => Went(s, u, tick, Given(Held(s), x.ent, x.vals))
                                   /\ Steady(s.w, u.w)
    BY <1>2, <1>5, <2>1, <2>2, SpawnStep
  <2>4. Buried(D, x) = D
    BY <1>5 DEF Buried
  <2>5. CASE x.ent \in DOMAIN k.m
    <3>1. Refused(s, u, tick) /\ (k.failed \/ ((x.op = "spawn") <=> (x.ent \in DOMAIN k.m)))
      BY <1>3, <1>5, <2>3, <2>5
    <3>2. Agree(w0, u, MeantBy(k, x), tick, D)
      BY <1>1, <3>1, AgreeRefused
    <3>3. QED
      BY <2>4, <3>2
  <2>6. CASE x.ent \notin DOMAIN k.m
    <3> DEFINE m == Given(k.m, x.ent, x.vals)
    <3>1. Went(s, u, tick, m) /\ Steady(s.w, u.w)
      BY <1>1, <1>3, <2>3, <2>6
    <3>2. ~((x.op = "spawn") <=> (x.ent \in DOMAIN k.m))
      BY <1>5, <2>6
    <3>3. x.op \in {"spawn", "insert", "sparse_insert"} /\ m = Given(k.m, x.ent, x.vals)
      BY <1>5
    <3> HIDE DEF m
    <3>4. Agree(w0, u, MeantBy(k, x), tick, D)
      BY <3>1, <3>2, <3>3, AgreeSteady
    <3>5. QED
      BY <2>4, <3>4
  <2>7. QED
    BY <2>5, <2>6
<1>6. CASE x.op = "despawn"
  <2>1. /\ ~Located(s.w, x.ent) => Refused(s, u, tick)
        /\ Located(s.w, x.ent) => Went(s, u, tick, Gone(Held(s), {x.ent}))
                                  /\ Freed(s.w, u.w, {x.ent})
    BY <1>2, <1>6, DespawnStep
  <2>2. Buried(D, x) = Plus(D, x.ent)
    BY <1>6 DEF Buried
  <2>3. CASE x.ent \notin DOMAIN k.m
    <3>1. Refused(s, u, tick) /\ (k.failed \/ ((x.op = "spawn") <=> (x.ent \in DOMAIN k.m)))
      BY <1>3, <1>6, <2>1, <2>3
    <3> DEFINE F == Buried(D, x)
    <3> HIDE DEF F
    <3>2. Agree(w0, u, MeantBy(k, x), tick, F)
      BY <1>1, <3>1, AgreeRefused
    <3>3. QED
      BY <3>2 DEF F
  <2>4. CASE x.ent \in DOMAIN k.m
    <3>1. Went(s, u, tick, Gone(k.m, {x.ent})) /\ Freed(s.w, u.w, {x.ent})
      BY <1>1, <1>3, <2>1, <2>4
    <3>2. Agree(w0, u, MeantBy(k, x), tick, Plus(D, x.ent))
      BY <1>6, <2>4, <3>1, AgreeFreed
    <3>3. QED
      BY <2>2, <3>2
  <2>5. QED
    BY <2>3, <2>4
<1>7. CASE x.op = "remove" \/ x.op = "sparse_remove"
  <2>1. /\ ~Located(s.w, x.ent) => Refused(s, u, tick)
        /\ Located(s.w, x.ent) => Went(s, u, tick, Taken(Held(s), x.ent, x.comp))
                                  /\ Steady(s.w, u.w)
    <3>1. CASE x.op = "remove"
      <4>1. x.comp \in Components
        BY <3>1 DEF Valid
      <4>2. QED
        BY <1>2, <3>1, <4>1, RemoveStep
    <3>2. CASE x.op = "sparse_remove"
      <4>1. x.comp = Sparse /\ (IsAlive(s.w, x.ent) <=> Located(s.w, x.ent))
        BY <1>4, <3>2 DEF Valid
      <4>2. QED
        BY <1>2, <3>2, <4>1, SparseRemoveStep
    <3>3. QED
      BY <1>7, <3>1, <3>2
  <2>2. Buried(D, x) = D
    BY <1>7 DEF Buried
  <2>3. CASE x.ent \notin DOMAIN k.m
    <3>1. Refused(s, u, tick) /\ (k.failed \/ ((x.op = "spawn") <=> (x.ent \in DOMAIN k.m)))
      BY <1>3, <1>7, <2>1, <2>3
    <3>2. Agree(w0, u, MeantBy(k, x), tick, D)
      BY <1>1, <3>1, AgreeRefused
    <3>3. QED
      BY <2>2, <3>2
  <2>4. CASE x.ent \in DOMAIN k.m
    <3> DEFINE m == Taken(k.m, x.ent, x.comp)
    <3>1. Went(s, u, tick, m) /\ Steady(s.w, u.w)
      BY <1>1, <1>3, <2>1, <2>4
    <3>2. ~((x.op = "spawn") <=> (x.ent \in DOMAIN k.m))
      BY <1>7, <2>4
    <3>3. x.op \in {"remove", "sparse_remove"} /\ m = Taken(k.m, x.ent, x.comp)
      BY <1>7
    <3> HIDE DEF m
    <3>4. Agree(w0, u, MeantBy(k, x), tick, D)
      BY <3>1, <3>2, <3>3, AgreeSteady
    <3>5. QED
      BY <2>2, <3>4
  <2>5. QED
    BY <2>3, <2>4
<1>8. CASE x.op = "sparse_insert"
  <2>1. PICK v \in V : x.vals = Just(Sparse, v)
    BY <1>8 DEF Valid
  <2>2. IsAlive(s.w, x.ent) <=> Located(s.w, x.ent)
    BY <1>4, <1>8 DEF Valid
  <2>3. /\ ~Located(s.w, x.ent) => Refused(s, u, tick)
        /\ Located(s.w, x.ent) => Went(s, u, tick, Given(Held(s), x.ent, x.vals))
                                  /\ Steady(s.w, u.w)
    BY <1>2, <1>8, <2>1, <2>2, SparseInsertStep
  <2>4. Buried(D, x) = D
    BY <1>8 DEF Buried
  <2>5. CASE x.ent \notin DOMAIN k.m
    <3>1. Refused(s, u, tick) /\ (k.failed \/ ((x.op = "spawn") <=> (x.ent \in DOMAIN k.m)))
      BY <1>3, <1>8, <2>3, <2>5
    <3>2. Agree(w0, u, MeantBy(k, x), tick, D)
      BY <1>1, <3>1, AgreeRefused
    <3>3. QED
      BY <2>4, <3>2
  <2>6. CASE x.ent \in DOMAIN k.m
    <3> DEFINE m == Given(k.m, x.ent, x.vals)
    <3>1. Went(s, u, tick, m) /\ Steady(s.w, u.w)
      BY <1>1, <1>3, <2>3, <2>6
    <3>2. ~((x.op = "spawn") <=> (x.ent \in DOMAIN k.m))
      BY <1>8, <2>6
    <3>3. x.op \in {"spawn", "insert", "sparse_insert"} /\ m = Given(k.m, x.ent, x.vals)
      BY <1>8
    <3> HIDE DEF m
    <3>4. Agree(w0, u, MeantBy(k, x), tick, D)
      BY <3>1, <3>2, <3>3, AgreeSteady
    <3>5. QED
      BY <2>4, <3>4
  <2>7. QED
    BY <2>5, <2>6
<1>9. QED
  BY <1>5, <1>6, <1>7, <1>8 DEF Valid

LEMMA ApplyStep ==
  ASSUME NEW w0, NEW s, NEW k, NEW tick, NEW D, Agree(w0, s, k, tick, D),
         NEW x, Valid(w0, x), x.op = "spawn" => x.ent \notin D
  PROVE  Agree(w0, ApplyOne(s, x, tick), MeantBy(k, x), tick, Buried(D, x))
<1> DEFINE F == Buried(D, x)
           l == MeantBy(k, x)
<1>1. CASE s.failed
  <2> HIDE DEF F
  <2>1. Agree(w0, ApplyOne(s, x, tick), MeantBy(k, x), tick, F)
    BY <1>1, ApplyAfterFailure
  <2>2. QED
    BY <2>1 DEF F
<1>2. CASE ~s.failed /\ x.op = "insert"
  <2> DEFINE u == ApplyInsert(s, x, tick)
  <2>1. F = D
    BY <1>2 DEF Buried
  <2>2. ApplyOne(s, x, tick) = MostHeld(u)
    BY <1>2 DEF ApplyOne
  <2>3. Agree(w0, u, MeantBy(k, x), tick, D)
    BY <1>2, InsertAgrees
  <2> HIDE DEF u, l, F
  <2>4. Agree(w0, u, l, tick, D)
    BY <2>3 DEF l
  <2>5. Agree(w0, MostHeld(u), l, tick, D)
    BY <2>4, AgreeMost
  <2>6. QED
    BY <2>1, <2>2, <2>5 DEF F, l
<1>3. CASE ~s.failed /\ x.op # "insert"
  <2> DEFINE f == Flushed(s, tick)
             u == ApplyOther(f, x, tick)
  <2>1. ApplyOne(s, x, tick) = MostHeld(u)
    BY <1>3 DEF ApplyOne
  <2>2. Agree(w0, f, k, tick, D) /\ Clear(f, tick) /\ f.failed = s.failed
    BY AgreeFlushed
  <2> HIDE DEF f
  <2>3. Agree(w0, u, MeantBy(k, x), tick, Buried(D, x))
    BY <1>3, <2>2, OtherAgrees
  <2> HIDE DEF u, l, F
  <2>4. Agree(w0, u, l, tick, F)
    BY <2>3 DEF l, F
  <2>5. Agree(w0, MostHeld(u), l, tick, F)
    BY <2>4, AgreeMost
  <2>6. QED
    BY <2>1, <2>5 DEF F, l
<1>4. QED
  BY <1>1, <1>2, <1>3

LEMMA ApplyingUnfolds ==
  ASSUME NEW w, NEW muts, Len(muts) \in Nat
  PROVE  /\ Applying(w, muts)[0] = MostHeld(Started(NextTick(w)))
         /\ \A n \in 1 .. Len(muts) :
              Applying(w, muts)[n] = ApplyOne(Applying(w, muts)[n - 1], muts[n], NextTick(w).tick)
<1> DEFINE base == MostHeld(Started(NextTick(w)))
           StepOf(v, n) == ApplyOne(v, muts[n], NextTick(w).tick)
           Solves(f, k) == f = [n \in 0 .. k |-> IF n = 0 THEN base ELSE StepOf(f[n - 1], n)]
           S == {k \in 0 .. Len(muts) : \E f : Solves(f, k)}
<1>1. Applying(w, muts) = CHOOSE f : Solves(f, Len(muts))
  BY DEF Applying
<1> HIDE DEF base, StepOf
<1>2. 0 \in S
  <2> DEFINE f0 == [n \in 0 .. 0 |-> base]
  <2>1. Solves(f0, 0)
    OBVIOUS
  <2> HIDE DEF f0, Solves
  <2>2. QED
    BY <2>1
<1>3. ASSUME NEW k \in 1 .. Len(muts), k - 1 \in S
      PROVE  k \in S
  <2>1. PICK f : Solves(f, k - 1)
    BY <1>3
  <2> DEFINE g == [n \in 0 .. k |-> IF n = k THEN StepOf(f[k - 1], k) ELSE f[n]]
  <2>2. \A n \in 0 .. k - 1 : g[n] = f[n]
    OBVIOUS
  <2>3. \A n \in 0 .. k - 1 : f[n] = IF n = 0 THEN base ELSE StepOf(f[n - 1], n)
    BY <2>1
  <2>4. \A n \in 0 .. k : g[n] = IF n = 0 THEN base ELSE StepOf(g[n - 1], n)
    <3> SUFFICES ASSUME NEW n \in 0 .. k
                 PROVE  g[n] = IF n = 0 THEN base ELSE StepOf(g[n - 1], n)
      OBVIOUS
    <3>1. CASE n = k
      <4>1. g[n] = StepOf(f[n - 1], n) /\ g[n - 1] = f[n - 1] /\ n # 0
        BY <2>2, <3>1
      <4>2. QED
        BY <4>1
    <3>2. CASE n # k
      <4>1. n \in 0 .. k - 1 /\ (n # 0 => n - 1 \in 0 .. k - 1)
        BY <3>2
      <4>2. QED
        BY <4>1, <2>2, <2>3
    <3>3. QED
      BY <3>1, <3>2
  <2>5. g = [n \in 0 .. k |-> g[n]]
    OBVIOUS
  <2> HIDE DEF g
  <2>6. Solves(g, k)
    BY <2>4, <2>5
  <2>7. QED
    BY <2>6
<1> HIDE DEF S
<1>4. Len(muts) \in S
  <2>1. \A k \in 1 .. Len(muts) : k - 1 \in S => k \in S
    BY <1>3
  <2>2. \A k \in 0 .. Len(muts) : k \in S
    BY <1>2, <2>1, UpTo
  <2>3. QED
    BY <2>2
<1>5. \E f : Solves(f, Len(muts))
  BY <1>4 DEF S
<1> DEFINE h == Applying(w, muts)
<1>6. Solves(h, Len(muts))
  BY <1>1, <1>5
<1> HIDE DEF h
<1>7. h[0] = base /\ \A n \in 1 .. Len(muts) : h[n] = StepOf(h[n - 1], n)
  BY <1>6
<1>8. QED
  BY <1>7 DEF h, base, StepOf

LEMMA MeantUnfolds ==
  ASSUME NEW m, NEW muts, Len(muts) \in Nat
  PROVE  /\ Meant(m, muts)[0] = [m |-> m, failed |-> FALSE]
         /\ \A n \in 1 .. Len(muts) :
              Meant(m, muts)[n] = MeantBy(Meant(m, muts)[n - 1], muts[n])
<1> DEFINE base == [m |-> m, failed |-> FALSE]
           StepOf(v, n) == MeantBy(v, muts[n])
           Solves(f, k) == f = [n \in 0 .. k |-> IF n = 0 THEN base ELSE StepOf(f[n - 1], n)]
           S == {k \in 0 .. Len(muts) : \E f : Solves(f, k)}
<1>1. Meant(m, muts) = CHOOSE f : Solves(f, Len(muts))
  BY DEF Meant
<1> HIDE DEF base, StepOf
<1>2. 0 \in S
  <2> DEFINE f0 == [n \in 0 .. 0 |-> base]
  <2>1. Solves(f0, 0)
    OBVIOUS
  <2> HIDE DEF f0, Solves
  <2>2. QED
    BY <2>1
<1>3. ASSUME NEW k \in 1 .. Len(muts), k - 1 \in S
      PROVE  k \in S
  <2>1. PICK f : Solves(f, k - 1)
    BY <1>3
  <2> DEFINE g == [n \in 0 .. k |-> IF n = k THEN StepOf(f[k - 1], k) ELSE f[n]]
  <2>2. \A n \in 0 .. k - 1 : g[n] = f[n]
    OBVIOUS
  <2>3. \A n \in 0 .. k - 1 : f[n] = IF n = 0 THEN base ELSE StepOf(f[n - 1], n)
    BY <2>1
  <2>4. \A n \in 0 .. k : g[n] = IF n = 0 THEN base ELSE StepOf(g[n - 1], n)
    <3> SUFFICES ASSUME NEW n \in 0 .. k
                 PROVE  g[n] = IF n = 0 THEN base ELSE StepOf(g[n - 1], n)
      OBVIOUS
    <3>1. CASE n = k
      <4>1. g[n] = StepOf(f[n - 1], n) /\ g[n - 1] = f[n - 1] /\ n # 0
        BY <2>2, <3>1
      <4>2. QED
        BY <4>1
    <3>2. CASE n # k
      <4>1. n \in 0 .. k - 1 /\ (n # 0 => n - 1 \in 0 .. k - 1)
        BY <3>2
      <4>2. QED
        BY <4>1, <2>2, <2>3
    <3>3. QED
      BY <3>1, <3>2
  <2>5. g = [n \in 0 .. k |-> g[n]]
    OBVIOUS
  <2> HIDE DEF g
  <2>6. Solves(g, k)
    BY <2>4, <2>5
  <2>7. QED
    BY <2>6
<1> HIDE DEF S
<1>4. Len(muts) \in S
  <2>1. \A k \in 1 .. Len(muts) : k - 1 \in S => k \in S
    BY <1>3
  <2>2. \A k \in 0 .. Len(muts) : k \in S
    BY <1>2, <2>1, UpTo
  <2>3. QED
    BY <2>2
<1>5. \E f : Solves(f, Len(muts))
  BY <1>4 DEF S
<1> DEFINE h == Meant(m, muts)
<1>6. Solves(h, Len(muts))
  BY <1>1, <1>5
<1> HIDE DEF h
<1>7. h[0] = base /\ \A n \in 1 .. Len(muts) : h[n] = StepOf(h[n - 1], n)
  BY <1>6
<1>8. QED
  BY <1>7 DEF h, base, StepOf

(* The entities the first n mutations despawn.                             *)
BuriedBy(muts, n) == {e \in H : \E i \in 1 .. n : muts[i].op = "despawn" /\ muts[i].ent = e}

LEMMA BuriedNext ==
  ASSUME NEW muts, NEW n \in Nat, n > 0, muts[n].ent \in H
  PROVE  BuriedBy(muts, n) = Buried(BuriedBy(muts, n - 1), muts[n])
<1>1. 1 .. n = (1 .. n - 1) \cup {n}
  OBVIOUS
<1>2. CASE muts[n].op = "despawn"
  BY <1>1, <1>2 DEF BuriedBy, Buried, Plus
<1>3. CASE muts[n].op # "despawn"
  BY <1>1, <1>3 DEF BuriedBy, Buried
<1>4. QED
  BY <1>2, <1>3

LEMMA StartAgrees ==
  ASSUME NEW w, Fit(w, {}), NEW t, t = NextTick(w), NEW k, k = [m |-> Meaning(w, {}), failed |-> FALSE]
  PROVE  Agree(w, MostHeld(Started(t)), k, t.tick, {})
<1> DEFINE s == Started(t)
           tick == t.tick
<1>1. /\ Fit(t, {}) /\ Meaning(t, {}) = Meaning(w, {}) /\ t.gens = w.gens /\ t.loc = w.loc
      /\ t.free = w.free
  BY TickKeeps
<1>2. s.w = t /\ s.batch = NoBatch /\ s.failed = FALSE /\ IsState(s)
  BY DEF Started, IsState
<1>3. BatchFits(t, NoBatch) /\ Wrote(t, NoBatch) = t
  BY NoBatchIs
<1> HIDE DEF s
<1>4. Sound(s, tick) /\ Held(s) = Meaning(w, {})
  BY <1>1, <1>2, <1>3 DEF Sound, Held
<1>5. IsMeant(k) /\ k.m = Meaning(w, {}) /\ k.failed = FALSE
  <2> DEFINE m == Meaning(w, {})
  <2>1. k = [m |-> m, failed |-> FALSE]
    OBVIOUS
  <2> HIDE DEF m
  <2>2. k.m = m /\ k.failed = FALSE
    BY <2>1
  <2>3. IsMeant(k)
    BY <2>1, <2>2 DEF IsMeant
  <2>4. QED
    BY <2>2, <2>3 DEF m
<1>6. Since(w, t, {})
  <2>1. w \in Worlds /\ t \in Worlds /\ w.gens \in [Slots -> Nat]
    BY <1>1, WorldFields DEF Fit
  <2>2. \A h : (IsAlive(t, h) <=> IsAlive(w, h)) /\ (Located(t, h) <=> Located(w, h))
    BY <1>1 DEF IsAlive, IsPlaced, Located
  <2>3. \A x \in Slots : t.gens[x] >= w.gens[x]
    BY <1>1, <2>1
  <2>4. \A h \in H : IsAlive(w, h) /\ h.idx \notin w.free => KeptAlive(w, t, {}, h)
    BY <1>1, <2>2 DEF KeptAlive
  <2>5. QED
    BY <2>1, <2>2, <2>3, <2>4 DEF Since
<1> HIDE DEF tick
<1>7. Agree(w, s, k, tick, {})
  BY <1>2, <1>4, <1>5, <1>6 DEF Agree
<1>8. Agree(w, MostHeld(s), k, tick, {})
  BY <1>7, AgreeMost
<1>9. QED
  BY <1>8 DEF s, tick

(* The changesets of the model, as the proofs use them.                    *)
Sensible(w, muts) ==
  /\ Len(muts) \in Nat /\ DOMAIN muts = 1 .. Len(muts)
  /\ \A i \in DOMAIN muts : Valid(w, muts[i])
  /\ \A i, j \in DOMAIN muts :
       i < j /\ muts[i].op = "despawn" /\ muts[j].op = "spawn" => muts[i].ent # muts[j].ent

(* A changeset, whose inserts are held back and written column by column,  *)
(* leaves the world its mutations mean one after the other.                *)
(* What a sensible changeset may still name at each of its mutations.      *)
LEMMA MutationAt ==
  ASSUME NEW w, NEW muts, Sensible(w, muts), NEW n \in 1 .. Len(muts)
  PROVE  LET x == muts[n]
             D == BuriedBy(muts, n - 1)
         IN /\ Valid(w, x) /\ (x.op = "spawn" => x.ent \notin D)
            /\ BuriedBy(muts, n) = Buried(D, x)
<1> DEFINE x == muts[n]
           D == BuriedBy(muts, n - 1)
<1>1. Len(muts) \in Nat /\ DOMAIN muts = 1 .. Len(muts)
  BY DEF Sensible
<1>2. Valid(w, x) /\ x.ent \in H
  BY <1>1 DEF Sensible, Valid, KnownAt
<1>3. x.op = "spawn" => x.ent \notin D
  <2> SUFFICES ASSUME x.op = "spawn", NEW i \in 1 .. n - 1, muts[i].op = "despawn", muts[i].ent = x.ent
               PROVE  FALSE
    BY DEF BuriedBy
  <2>1. i \in DOMAIN muts /\ n \in DOMAIN muts /\ i < n
    BY <1>1
  <2>2. QED
    BY <2>1 DEF Sensible
<1>4. BuriedBy(muts, n) = Buried(D, x)
  BY <1>1, <1>2, BuriedNext
<1>5. QED
  BY <1>2, <1>3, <1>4

LEMMA ApplyingAgrees ==
  ASSUME NEW w, Fit(w, {}), NEW muts, Sensible(w, muts), NEW i \in 0 .. Len(muts)
  PROVE  Agree(w, Applying(w, muts)[i], Meant(Meaning(w, {}), muts)[i], NextTick(w).tick,
               BuriedBy(muts, i))
<1> DEFINE t == NextTick(w)
           tick == t.tick
           m == Meaning(w, {})
           N == Len(muts)
           a == Applying(w, muts)
           k == Meant(m, muts)
           S == {n \in 0 .. N : Agree(w, a[n], k[n], tick, BuriedBy(muts, n))}
<1>1. N \in Nat /\ DOMAIN muts = 1 .. N
  BY DEF Sensible
<1>2. a[0] = MostHeld(Started(t)) /\ \A n \in 1 .. N : a[n] = ApplyOne(a[n - 1], muts[n], tick)
  BY <1>1, ApplyingUnfolds
<1>3. k[0] = [m |-> m, failed |-> FALSE] /\ \A n \in 1 .. N : k[n] = MeantBy(k[n - 1], muts[n])
  BY <1>1, MeantUnfolds
<1>4. Agree(w, a[0], k[0], tick, BuriedBy(muts, 0))
  <2> DEFINE k0 == [m |-> Meaning(w, {}), failed |-> FALSE]
  <2>1. BuriedBy(muts, 0) = {}
    BY DEF BuriedBy
  <2>2. k[0] = k0
    BY <1>3
  <2> HIDE DEF k0, a, k
  <2>3. Agree(w, MostHeld(Started(t)), k0, t.tick, {})
    BY StartAgrees DEF k0
  <2>4. QED
    BY <1>2, <2>1, <2>2, <2>3
<1> HIDE DEF a, k, m, tick, t, N
<1>5. 0 \in S
  BY <1>1, <1>4
<1>6. ASSUME NEW n \in 1 .. N, n - 1 \in S
      PROVE  n \in S
  <2> DEFINE s == a[n - 1]
             l == k[n - 1]
             x == muts[n]
             D == BuriedBy(muts, n - 1)
  <2>1. Agree(w, s, l, tick, D)
    BY <1>6
  <2>2. /\ Valid(w, x) /\ (x.op = "spawn" => x.ent \notin D)
        /\ BuriedBy(muts, n) = Buried(D, x)
    BY MutationAt DEF N
  <2>3. a[n] = ApplyOne(s, x, tick) /\ k[n] = MeantBy(l, x)
    BY <1>2, <1>3
  <2> HIDE DEF s, l, x, D
  <2>4. Agree(w, ApplyOne(s, x, tick), MeantBy(l, x), tick, Buried(D, x))
    BY <2>1, <2>2, ApplyStep
  <2>5. QED
    BY <2>2, <2>3, <2>4
<1> HIDE DEF S
<1>7. \A n \in 1 .. N : n - 1 \in S => n \in S
  BY <1>6
<1>8. \A n \in 0 .. N : n \in S
  BY <1>1, <1>5, <1>7, UpTo
<1>9. QED
  BY <1>8 DEF S, a, k, m, tick, t, N

LEMMA AppliedKeeps ==
  ASSUME NEW w, Fit(w, {}), NEW muts, Sensible(w, muts), NEW done, done = Applied(w, muts)
  PROVE  Fit(done.w, {}) /\ Meaning(done.w, {}) = Meant(Meaning(w, {}), muts)[Len(muts)].m
<1> DEFINE N == Len(muts)
           tick == NextTick(w).tick
           s == Applying(w, muts)[N]
           l == Meant(Meaning(w, {}), muts)[N]
           D == BuriedBy(muts, N)
<1>1. N \in 0 .. N
  BY DEF Sensible
<1>2. Agree(w, s, l, tick, D)
  BY <1>1, ApplyingAgrees
<1>3. done = Flushed(s, tick)
  BY DEF Applied
<1> HIDE DEF s, l, D, tick
<1>4. Agree(w, done, l, tick, D) /\ Clear(done, tick)
  BY <1>2, <1>3, AgreeFlushed
<1>5. Fit(done.w, {}) /\ Meaning(done.w, {}) = l.m
  BY <1>4, ClearIs DEF Agree
<1>6. QED
  BY <1>5 DEF l, N

LEMMA MutationIs ==
  ASSUME NEW x \in Mutations
  PROVE  \/ x.op = "spawn" /\ x.ent \in Unplaced /\ x.vals \in Carried
         \/ x.op = "insert" /\ x.ent \in Issued /\ x.vals \in Carried /\ Cardinality(DOMAIN x.vals) = 1
         \/ x.op = "remove" /\ x.ent \in Issued /\ x.comp \in Components
         \/ x.op = "despawn" /\ x.ent \in Issued
         \/ /\ x.op = "sparse_insert" /\ x.ent \in Issued \ Unplaced
            /\ \E v \in SparseValues : x.vals = Just(Sparse, v)
         \/ x.op = "sparse_remove" /\ x.ent \in Issued \ Unplaced /\ x.comp = Sparse
<1> DEFINE A == {[op |-> "spawn", ent |-> e, vals |-> v] : e \in Unplaced, v \in Carried}
           B == {[op |-> "insert", ent |-> e, vals |-> v] :
                   e \in Issued, v \in {b \in Carried : Cardinality(DOMAIN b) = 1}}
           C == {[op |-> "remove", ent |-> e, comp |-> c] : e \in Issued, c \in Components}
           D == {[op |-> "despawn", ent |-> e] : e \in {f \in Issued : Mortal({f})}}
           E == {[op |-> "sparse_insert", ent |-> e, vals |-> v] :
                   e \in Issued \ Unplaced, v \in {Just(Sparse, v) : v \in SparseValues}}
           F == {[op |-> "sparse_remove", ent |-> e, comp |-> c] : e \in Issued \ Unplaced, c \in {Sparse}}
<1>1. Mutations = UNION {A, B, C, D, IF subject # "sparse" THEN {} ELSE E \cup F}
  BY DEF Mutations
<1>2. x \in A \/ x \in B \/ x \in C \/ x \in D \/ x \in E \/ x \in F
  <2> HIDE DEF A, B, C, D, E, F
  <2>1. QED
    BY <1>1
<1>3. CASE x \in A
  BY <1>3
<1>4. CASE x \in B
  BY <1>4
<1>5. CASE x \in C
  <2>1. PICK e \in Issued, c \in Components : x = [op |-> "remove", ent |-> e, comp |-> c]
    BY <1>5
  <2>2. x.op = "remove" /\ x.ent = e /\ x.comp = c
    BY <2>1
  <2>3. QED
    BY <2>2
<1>6. CASE x \in D
  <2>1. PICK e \in Issued : x = [op |-> "despawn", ent |-> e]
    BY <1>6
  <2>2. x.op = "despawn" /\ x.ent = e
    BY <2>1
  <2>3. QED
    BY <2>2
<1>7. CASE x \in E
  BY <1>7
<1>8. CASE x \in F
  BY <1>8
<1> HIDE DEF A, B, C, D, E, F
<1>9. QED
  BY <1>2, <1>3, <1>4, <1>5, <1>6, <1>7, <1>8

LEMMA MutationsValid ==
  ASSUME NEW x \in Mutations
  PROVE  Valid(world, x)
<1>1. Issued \subseteq H /\ Unplaced \subseteq Issued
  BY WorldAssumption DEF Issued, Unplaced, Handles, H
<1>2. x.ent \in Issued
  BY <1>1, MutationIs
<1>3. KnownAt(world, x.ent)
  BY <1>1, <1>2 DEF Issued, KnownAt
<1>4. \A b \in Carried : b \in On(V) /\ DOMAIN b \subseteq Components
  <2>1. \A b \in Carried : b \in On(V)
    BY BundleIs DEF Carried
  <2>2. QED
    BY <2>1, OnIs
<1>5. CASE x.op = "spawn" /\ x.ent \in Unplaced /\ x.vals \in Carried
  BY <1>3, <1>4, <1>5 DEF Valid, Unplaced
<1>6. CASE /\ x.op = "insert" /\ x.ent \in Issued /\ x.vals \in Carried
           /\ Cardinality(DOMAIN x.vals) = 1
  <2> DEFINE T == DOMAIN x.vals
  <2>1. T \subseteq Components /\ IsFiniteSet(Components) /\ Cardinality(T) = 1
    BY <1>4, <1>6, WorldAssumption
  <2> HIDE DEF T
  <2>2. IsFiniteSet(T)
    BY <2>1, FS_Subset
  <2>3. \E c : T = {c}
    BY <2>1, <2>2, FS_Singleton
  <2>4. QED
    BY <1>3, <1>4, <1>6, <2>3 DEF Valid, T
<1>7. CASE x.op = "remove" /\ x.comp \in Components
  BY <1>3, <1>7 DEF Valid
<1>8. CASE x.op = "despawn"
  BY <1>3, <1>8 DEF Valid
<1>9. CASE /\ x.op = "sparse_insert" /\ x.ent \in Issued \ Unplaced
           /\ \E v \in SparseValues : x.vals = Just(Sparse, v)
  BY <1>3, <1>9, ValuesAre DEF Valid, Unplaced
<1>10. CASE x.op = "sparse_remove" /\ x.ent \in Issued \ Unplaced /\ x.comp = Sparse
  BY <1>3, <1>10 DEF Valid, Unplaced
<1>11. QED
  BY <1>5, <1>6, <1>7, <1>8, <1>9, <1>10, MutationIs

LEMMA ChangesetsSensible ==
  ASSUME NEW muts \in Changesets
  PROVE  Sensible(world, muts)
<1>1. PICK n \in Nat : muts \in [1 .. n -> Mutations]
  <2>1. \A n \in 1 .. (IF subject \in {"index", "sparse"} THEN MaxMutations ELSE 1) : n \in Nat
    OBVIOUS
  <2>2. QED
    BY <2>1 DEF Changesets
<1>2. Len(muts) = n /\ DOMAIN muts = 1 .. n
  BY <1>1
<1>3. \A i \in DOMAIN muts : Valid(world, muts[i])
  BY <1>1, <1>2, MutationsValid
<1>4. \A i, j \in DOMAIN muts :
        i < j /\ muts[i].op = "despawn" /\ muts[j].op = "spawn" => muts[i].ent # muts[j].ent
  BY DEF Changesets
<1>5. QED
  BY <1>2, <1>3, <1>4 DEF Sensible

-----------------------------------------------------------------------------
(***************************************************************************)
(* The invariant and the calls.                                            *)
(***************************************************************************)
(* The storage is consistent, and what its readers find in it is what the  *)
(* entities were given.                                                    *)
Kept == Fit(world, {}) /\ truth = Meaning(world, {})

LEMMA BecomesKept ==
  ASSUME NEW w, NEW m, Becomes(w, m), Fit(w, {}), Meaning(w, {}) = m
  PROVE  Kept'
BY DEF Kept, Becomes

LEMMA PresentLive ==
  ASSUME NEW e \in Present
  PROVE  e \in Live(world, {})
BY WorldAssumption DEF Present, Handles, Live, H

LEMMA CarriedIs ==
  ASSUME NEW vals \in Carried
  PROVE  vals \in On(V)
BY BundleIs DEF Carried

LEMMA AllocEntityKeeps ==
  ASSUME Kept, NEW s \in Slots, AllocEntity(s)
  PROVE  Kept'
<1> DEFINE w == Allocated(world, s)
<1>1. Fit(w, {}) /\ Meaning(w, {}) = truth
  BY AllocatedKeeps DEF Kept
<1>2. Becomes(w, truth)
  BY DEF AllocEntity
<1> HIDE DEF w
<1>3. QED
  BY <1>1, <1>2, BecomesKept

LEMMA SpawnKeeps ==
  ASSUME Kept, NEW s \in Slots, NEW vals \in Carried, Spawn(s, vals)
  PROVE  Kept'
<1> DEFINE w == Spawned(world, s, vals)
           m == Given(truth, Handle(world, s), vals)
<1>1. s \in world.free /\ Becomes(w, m)
  BY DEF Spawn
<1>2. Fit(w, {}) /\ Meaning(w, {}) = m
  BY <1>1, CarriedIs, SpawnedKeeps DEF Kept
<1> HIDE DEF w, m
<1>3. QED
  BY <1>1, <1>2, BecomesKept

LEMMA SpawnBatchKeeps ==
  ASSUME Kept, NEW s \in Slots, NEW t \in Slots, NEW vals \in Carried, SpawnBatch(s, t, vals)
  PROVE  Kept'
<1> DEFINE w == Spawned(Spawned(world, s, vals), t, vals)
           m == Given(Given(truth, Handle(world, s), vals), Handle(world, t), vals)
<1>1. s # t /\ s \in world.free /\ t \in world.free /\ Becomes(w, m)
  BY DEF SpawnBatch
<1>2. Fit(w, {}) /\ Meaning(w, {}) = m
  BY <1>1, CarriedIs, SpawnedTwiceKeeps DEF Kept
<1> HIDE DEF w, m
<1>3. QED
  BY <1>1, <1>2, BecomesKept

LEMMA DespawnKeeps ==
  ASSUME Kept, NEW e \in Present, Despawn(e)
  PROVE  Kept'
<1> DEFINE w == Despawned(world, e)
           m == Gone(truth, {e})
<1>1. Becomes(w, m)
  BY DEF Despawn
<1>2. Fit(w, {}) /\ Meaning(w, {}) = m
  BY PresentLive, DespawnedKeeps DEF Kept
<1> HIDE DEF w, m
<1>3. QED
  BY <1>1, <1>2, BecomesKept

LEMMA DespawnBatchKeeps ==
  ASSUME Kept, NEW E \in Batches, DespawnBatch(E)
  PROVE  Kept'
<1> DEFINE w == DespawnedBatch(world, E)
           m == Gone(truth, E)
<1>1. Becomes(w, m)
  BY DEF DespawnBatch
<1>2. E \subseteq Live(world, {})
  BY PresentLive DEF Batches
<1>3. Fit(w, {}) /\ Meaning(w, {}) = m
  BY <1>2, DespawnedBatchKeeps DEF Kept
<1> HIDE DEF w, m
<1>4. QED
  BY <1>1, <1>3, BecomesKept

LEMMA GetMutKeeps ==
  ASSUME Kept, NEW e \in Present, NEW v \in Values, GetMut(e, v)
  PROVE  Kept'
<1> DEFINE w == GotMut(world, e, Key, v)
           m == IF Key \in DOMAIN truth[e] THEN Given(truth, e, Just(Key, v)) ELSE truth
<1>1. Becomes(w, m)
  BY DEF GetMut
<1>2. Fit(w, {}) /\ Meaning(w, {}) = m
  BY PresentLive, ValuesAre, GotMutKeeps DEF Kept
<1> HIDE DEF w, m
<1>3. QED
  BY <1>1, <1>2, BecomesKept

LEMMA GetBatchMutKeeps ==
  ASSUME Kept, NEW E \in Batches, NEW v \in Values, GetBatchMut(E, v)
  PROVE  Kept'
<1> DEFINE w == GotBatchMut(world, E, Key, v)
           F == {e \in E : Key \in DOMAIN truth[e]}
           m == Swept(truth, F, Key, v)
<1>1. Becomes(w, m)
  BY DEF GetBatchMut, Swept
<1>2. E \subseteq Live(world, {})
  BY PresentLive DEF Batches
<1>3. \A e \in Live(world, {}) : e \in F <=> e \in E /\ Key \in DOMAIN Meaning(world, {})[e]
  BY DEF Kept
<1>4. Fit(w, {}) /\ Meaning(w, {}) = m
  <2> HIDE DEF F
  <2>1. QED
    BY <1>2, <1>3, ValuesAre, GotBatchMutKeeps DEF Kept
<1> HIDE DEF w, m
<1>5. QED
  BY <1>1, <1>4, BecomesKept

LEMMA DenseDomain ==
  ASSUME Kept, NEW e \in Live(world, {})
  PROVE  DOMAIN Dense(truth[e]) = ArchAt(world, e).ids
<1>1. DOMAIN Dense(truth[e]) = DOMAIN truth[e] \cap Components
  BY DEF Dense, Only
<1>2. \A c \in Components : c \in DOMAIN truth[e] <=> c \in ArchAt(world, e).ids
  BY HasColumn DEF Kept
<1>3. ArchAt(world, e).ids \subseteq Components
  BY LiveIs, WorldFields DEF Kept, Fit
<1>4. QED
  BY <1>1, <1>2, <1>3

LEMMA QueryTableMutKeeps ==
  ASSUME Kept, NEW ids \in Tables, NEW v \in Values, QueryTableMut(ids, v)
  PROVE  Kept'
<1> DEFINE w == TableMut(world, ids, Key, v)
           F == {e \in DOMAIN truth : DOMAIN Dense(truth[e]) = ids}
           m == Swept(truth, F, Key, v)
<1>1. Becomes(w, m)
  BY DEF QueryTableMut, Swept
<1>2. ids \in SUBSET Components /\ Key \in ids
  BY CarriedIs, OnIs DEF Tables
<1>3. \A e \in Live(world, {}) : e \in F <=> ArchAt(world, e).ids = ids
  BY DenseDomain, MeaningIs DEF Kept
<1>4. Fit(w, {}) /\ Meaning(w, {}) = m
  <2> HIDE DEF F
  <2>1. QED
    BY <1>2, <1>3, ValuesAre, TableMutKeeps DEF Kept
<1> HIDE DEF w, m
<1>5. QED
  BY <1>1, <1>4, BecomesKept

LEMMA InsertKeeps ==
  ASSUME Kept, NEW e \in Present, NEW vals \in Carried, Insert(e, vals)
  PROVE  Kept'
<1> DEFINE w == Inserted(world, e, vals)
           m == Given(truth, e, vals)
<1>1. Becomes(w, m)
  BY DEF Insert
<1>2. Fit(w, {}) /\ Meaning(w, {}) = m
  BY PresentLive, CarriedIs, InsertedKeeps DEF Kept
<1> HIDE DEF w, m
<1>3. QED
  BY <1>1, <1>2, BecomesKept

LEMMA RemoveFromKeeps ==
  ASSUME Kept, NEW e \in Present, NEW c \in Removable, RemoveFrom(e, c)
  PROVE  Kept'
<1> DEFINE w == Removed(world, e, c)
           m == Taken(truth, e, c)
<1>1. Becomes(w, m)
  BY DEF RemoveFrom
<1>2. Fit(w, {}) /\ Meaning(w, {}) = m
  BY PresentLive, WorldAssumption, RemovedKeeps DEF Kept
<1> HIDE DEF w, m
<1>3. QED
  BY <1>1, <1>2, BecomesKept

LEMMA InsertSparseKeeps ==
  ASSUME Kept, NEW e \in Present, NEW v \in SparseValues, InsertSparse(e, v)
  PROVE  Kept'
<1> DEFINE w == SparseInserted(world, e, v)
           m == Given(truth, e, Just(Sparse, v))
<1>1. Becomes(w, m)
  BY DEF InsertSparse
<1>2. Fit(w, {}) /\ Meaning(w, {}) = m
  BY PresentLive, ValuesAre, SparseInsertedMeans DEF Kept
<1> HIDE DEF w, m
<1>3. QED
  BY <1>1, <1>2, BecomesKept

LEMMA TickedKept ==
  ASSUME Kept, world' = NextTick(world), truth' = truth
  PROVE  Kept'
BY TickKeeps DEF Kept

LEMMA UnchangedKept ==
  ASSUME Kept, world' = world, truth' = truth
  PROVE  Kept'
BY DEF Kept

LEMMA QueryMutKeeps ==
  ASSUME Kept, NEW v \in Values, QueryMut(v)
  PROVE  Kept'
<1> DEFINE t == NextTick(world)
           A == Having(world, Key)
           w == NextTick(Rewritten(MarkedAll(t, A, {Key}, t.tick), EntitiesOf(t, A), Key, v))
           m == SweptTruth(EntitiesOf(world, A), v)
<1>1. Becomes(w, m)
  BY DEF QueryMut
<1>2. m = Swept(truth, EntitiesOf(world, A), Key, v)
  BY DEF SweptTruth, Swept
<1>3. A \subseteq Having(world, Key)
  OBVIOUS
<1>4. Fit(w, {}) /\ Meaning(w, {}) = m
  <2> HIDE DEF A
  <2>1. QED
    BY <1>2, <1>3, ValuesAre, WalkKeeps DEF Kept
<1> HIDE DEF w, m
<1>5. QED
  BY <1>1, <1>4, BecomesKept

LEMMA CallWriterKeeps ==
  ASSUME Kept, NEW v \in Values, CallWriter(v)
  PROVE  Kept'
<1> DEFINE t == NextTick(world)
           A == ChangedSince(world, Key, writer)
           w == NextTick(Rewritten(MarkedAll(t, A, {Key}, t.tick), EntitiesOf(t, A), Key, v))
           m == SweptTruth(EntitiesOf(world, A), v)
<1>1. world' = w /\ truth' = m
  BY DEF CallWriter
<1>2. m = Swept(truth, EntitiesOf(world, A), Key, v)
  BY DEF SweptTruth, Swept
<1>3. A \subseteq Having(world, Key)
  BY DEF ChangedSince
<1>4. Fit(w, {}) /\ Meaning(w, {}) = m
  <2> HIDE DEF A
  <2>1. QED
    BY <1>2, <1>3, ValuesAre, WalkKeeps DEF Kept
<1> HIDE DEF w, m
<1>5. QED
  BY <1>1, <1>4 DEF Kept

LEMMA ApplyKeeps ==
  ASSUME Kept, NEW muts \in Changesets, Apply(muts)
  PROVE  Kept'
<1> DEFINE done == Applied(world, muts)
           w == done.w
           m == Meant(truth, muts)[Len(muts)].m
<1>1. Becomes(w, m)
  BY DEF Apply
<1>2. Sensible(world, muts)
  BY ChangesetsSensible
<1>3. Fit(w, {}) /\ Meaning(w, {}) = m
  BY <1>2, AppliedKeeps DEF Kept
<1> HIDE DEF w, m
<1>4. QED
  BY <1>1, <1>3, BecomesKept

LEMMA InitKeeps ==
  ASSUME Init
  PROVE  Kept
<1> DEFINE w == EmptyWorld
<1>1. world = w /\ truth = << >>
  BY DEF Init
<1>2. /\ w.tick = 0 /\ w.gens = [s \in Slots |-> 0] /\ w.free = Slots
      /\ w.loc = [s \in Slots |-> None] /\ w.archs = << >>
      /\ w.pages = [s \in Slots |-> None] /\ w.dense = << >>
  BY DEF EmptyWorld
<1>3. w \in Worlds
  <2>1. /\ [s \in Slots |-> 0] \in [Slots -> Nat] /\ [s \in Slots |-> None] \in [Slots -> {None} \cup Place]
        /\ << >> \in Seq(ArchType) /\ [s \in Slots |-> None] \in [Slots -> {None} \cup (Nat \ {0})]
        /\ << >> \in Seq([ent : H, val : V]) /\ 0 \in Nat /\ Slots \in SUBSET Slots
    OBVIOUS
  <2> HIDE DEF w
  <2>2. EmptyWorld \in Worlds
    BY <2>1 DEF EmptyWorld, Worlds
  <2>3. QED
    BY <2>2 DEF w
<1>4. DOMAIN w.archs = {} /\ DOMAIN w.dense = {}
  BY <1>2
<1>5. \A e \in H : ~Located(w, e)
  <2>1. \A e \in H : w.loc[e.idx] = None
    BY <1>2, HandleIs
  <2>2. QED
    BY <2>1 DEF Located, IsPlaced
<1>6. \A s \in w.free : w.loc[s] = None
  BY <1>2
<1> HIDE DEF w
<1>7. Fit(w, {})
  BY <1>3, <1>4, <1>5, <1>6 DEF Fit, Columns, RowsFound, LocationsHold, FreeUnplaced, SparseFits
<1>8. Meaning(w, {}) = << >>
  <2>1. Live(w, {}) = {}
    BY <1>5 DEF Live
  <2>2. Meaning(w, {}) = [e \in {} |-> Full(w, e)]
    BY <2>1 DEF Meaning
  <2>3. [e \in {} |-> Full(w, e)] = << >>
    <3> DEFINE f == [e \in {} |-> Full(w, e)]
    <3>1. f \in [1 .. 0 -> Nat]
      OBVIOUS
    <3>2. DOMAIN f = 1 .. 0
      OBVIOUS
    <3> HIDE DEF f
    <3>3. f \in Seq(Nat) /\ Len(f) = 0
      BY <3>1, <3>2
    <3>4. f = << >>
      BY <3>3
    <3>5. QED
      BY <3>4 DEF f
  <2>4. QED
    BY <2>2, <2>3
<1>9. QED
  BY <1>1, <1>7, <1>8 DEF Kept

LEMMA CallKeeps ==
  ASSUME Kept, Call
  PROVE  Kept'
<1>1. ASSUME NEW s \in Slots, AllocEntity(s)
      PROVE  Kept'
  BY <1>1, AllocEntityKeeps
<1>2. ASSUME NEW s \in Slots, NEW vals \in Carried, Spawn(s, vals)
      PROVE  Kept'
  BY <1>2, SpawnKeeps
<1>3. ASSUME NEW s \in Slots, NEW t \in Slots, NEW vals \in Carried, SpawnBatch(s, t, vals)
      PROVE  Kept'
  BY <1>3, SpawnBatchKeeps
<1>4. ASSUME NEW e \in Present, Despawn(e)
      PROVE  Kept'
  BY <1>4, DespawnKeeps
<1>5. ASSUME NEW E \in Batches, DespawnBatch(E)
      PROVE  Kept'
  BY <1>5, DespawnBatchKeeps
<1>6. ASSUME NEW E \in Batches, NEW v \in Values, GetBatchMut(E, v)
      PROVE  Kept'
  BY <1>6, GetBatchMutKeeps
<1>7. ASSUME NEW e \in Present, NEW v \in Values, GetMut(e, v)
      PROVE  Kept'
  BY <1>7, GetMutKeeps
<1>8. ASSUME NEW ids \in Tables, NEW v \in Values, QueryTableMut(ids, v)
      PROVE  Kept'
  BY <1>8, QueryTableMutKeeps
<1>9. ASSUME NEW e \in Present, NEW vals \in Carried, Insert(e, vals)
      PROVE  Kept'
  BY <1>9, InsertKeeps
<1>10. ASSUME NEW e \in Present, NEW c \in Removable, RemoveFrom(e, c)
       PROVE  Kept'
  BY <1>10, RemoveFromKeeps
<1>11. ASSUME NEW e \in Present, NEW v \in SparseValues, InsertSparse(e, v)
       PROVE  Kept'
  BY <1>11, InsertSparseKeeps
<1>12. ASSUME NEW use \in {"drop", "next", "chunks"}, Query(use)
       PROVE  Kept'
  <2>1. world' = NextTick(world) /\ truth' = truth
    BY <1>12 DEF Query
  <2>2. QED
    BY <2>1, TickedKept
<1>13. CASE AdvanceQueryTick \/ RebuildIndex \/ Plan
  <2>1. world' = NextTick(world) /\ truth' = truth
    BY <1>13 DEF AdvanceQueryTick, RebuildIndex, Plan
  <2>2. QED
    BY <2>1, TickedKept
<1>14. ASSUME NEW v \in Values, QueryMut(v)
       PROVE  Kept'
  BY <1>14, QueryMutKeeps
<1>15. ASSUME NEW v \in Values, CallWriter(v)
       PROVE  Kept'
  BY <1>15, CallWriterKeeps
<1>16. CASE UpdateIndex \/ Invalidate
  <2>1. world' = world /\ truth' = truth
    BY <1>16 DEF UpdateIndex, Invalidate
  <2>2. QED
    BY <2>1, UnchangedKept
<1>17. CASE Refresh
  <2>1. truth' = truth /\ (world' = NextTick(world) \/ world' = world)
    BY <1>17 DEF Refresh
  <2>2. QED
    BY <2>1, TickedKept, UnchangedKept
<1>18. ASSUME NEW n \in Policies, SetPolicy(n)
       PROVE  Kept'
  <2>1. world' = world /\ truth' = truth
    BY <1>18 DEF SetPolicy
  <2>2. QED
    BY <2>1, UnchangedKept
<1>19. QED
  BY <1>1, <1>2, <1>3, <1>4, <1>5, <1>6, <1>7, <1>8, <1>9, <1>10, <1>11, <1>12, <1>13, <1>14,
     <1>15, <1>16, <1>17, <1>18 DEF Call

LEMMA NextKeeps ==
  ASSUME Kept, [Next]_vars
  PROVE  Kept'
<1>1. CASE Call
  BY <1>1, CallKeeps
<1>2. ASSUME NEW muts \in Changesets, Apply(muts)
      PROVE  Kept'
  BY <1>2, ApplyKeeps
<1>3. CASE UNCHANGED vars
  <2>1. world' = world /\ truth' = truth
    BY <1>3 DEF vars
  <2>2. QED
    BY <2>1, UnchangedKept
<1>4. QED
  BY <1>1, <1>2, <1>3 DEF Next

(* The storage stays consistent: rows, locations, generations and sparse   *)
(* pages agree, and what they hold is what the calls and changesets mean   *)
(* on a plain map.                                                         *)
THEOREM StorageIsKept == Spec => []Kept
<1>1. Init => Kept
  BY InitKeeps
<1>2. Kept /\ [Next]_vars => Kept'
  BY NextKeeps
<1>3. QED
  BY <1>1, <1>2, PTL DEF Spec

LEMMA LookupIs ==
  ASSUME Kept, NEW e \in Live(world, {})
  PROVE  Lookup(world, e) = Dense(truth[e])
<1> DEFINE g == Row(world, e).vals
           x == Over(world, e, g)
           y == Dense(x)
<1>1. Located(world, e) /\ g \in On(V)
  BY LiveIs DEF Kept
<1>2. truth[e] = x
  BY MeaningAt DEF Kept
<1>3. DOMAIN g \subseteq Components /\ g = [c \in DOMAIN g |-> g[c]]
  BY <1>1 DEF On
<1> HIDE DEF g
<1>4. ASSUME NEW c \in DOMAIN g
      PROVE  c \in DOMAIN x /\ x[c] = g[c]
  BY <1>1, OverAt
<1>5. DOMAIN x \cap Components = DOMAIN g
  <2>1. DOMAIN x = DOMAIN g \/ DOMAIN x = {Sparse} \cup DOMAIN g
    BY <1>1, OverIs
  <2>2. QED
    BY <1>3, <2>1, ValuesAre
<1> HIDE DEF x
<1>6. y = [c \in DOMAIN g |-> x[c]]
  BY <1>5 DEF Dense, Only
<1>7. y = g
  BY <1>3, <1>4, <1>6
<1>8. Lookup(world, e) = g
  BY <1>1 DEF Lookup, g
<1>9. QED
  BY <1>2, <1>7, <1>8

LEMMA SparseLookupIs ==
  ASSUME Kept, NEW e \in H
  PROVE  SparseLookup(world, e) =
           IF e \in DOMAIN truth /\ Sparse \in DOMAIN truth[e] THEN truth[e][Sparse] ELSE None
<1> DEFINE d == DenseIndex(world, e)
<1>1. e \in DOMAIN truth <=> Located(world, e)
  <2>1. DOMAIN truth = Live(world, {})
    BY MeaningIs DEF Kept
  <2>2. QED
    BY <2>1 DEF Live
<1>2. CASE e \in DOMAIN truth
  <2> DEFINE g == Row(world, e).vals
  <2>1. e \in Live(world, {}) /\ g \in On(V)
    BY <1>2, MeaningIs, LiveIs DEF Kept
  <2>2. truth[e] = Over(world, e, g)
    BY <2>1, MeaningAt DEF Kept
  <2> HIDE DEF g
  <2> DEFINE x == Over(world, e, g)
  <2>3. /\ Sparse \notin DOMAIN g
        /\ d = None => x = g
        /\ d # None => DOMAIN x = {Sparse} \cup DOMAIN g /\ x[Sparse] = world.dense[d].val
    BY <2>1, OverIs
  <2>4. truth[e] = x /\ Located(world, e)
    BY <1>1, <1>2, <2>2
  <2>5. SparseLookup(world, e) = IF d # None THEN world.dense[d].val ELSE None
    BY <2>4 DEF SparseLookup
  <2> HIDE DEF x, d
  <2>6. SparseLookup(world, e) = IF Sparse \in DOMAIN x THEN x[Sparse] ELSE None
    BY <2>3, <2>5
  <2>7. QED
    BY <1>2, <2>4, <2>6
<1>3. CASE e \notin DOMAIN truth
  BY <1>1, <1>3 DEF SparseLookup
<1>4. QED
  BY <1>2, <1>3

(* Whatever rows were swapped, moved or recycled by the calls and the      *)
(* changesets before, World::get and the sparse set answer for every       *)
(* handle what it was given, and an iteration yields the placed entities,  *)
(* each once.                                                              *)
THEOREM StorageHolds == Spec => []StorageHoldsWhatWasGiven
<1>1. Kept => StorageHoldsWhatWasGiven
  <2> SUFFICES ASSUME Kept PROVE StorageHoldsWhatWasGiven
    OBVIOUS
  <2>1. Fit(world, {}) /\ world \in Worlds /\ SparseFits(world) /\ DOMAIN truth = Live(world, {})
    BY MeaningIs DEF Kept, Fit
  <2>2. ASSUME NEW a \in DOMAIN world.archs, NEW r \in DOMAIN world.archs[a].rows
        PROVE  LET e == world.archs[a].rows[r].ent
               IN IsAlive(world, e) /\ world.loc[e.idx] = [arch |-> a, row |-> r]
    BY <2>1, <2>2, RowIsLive DEF Live, Located
  <2>3. ASSUME NEW e \in Handles
        PROVE  /\ e \in DOMAIN truth <=> Located(world, e)
               /\ e \in DOMAIN truth => Lookup(world, e) = Dense(truth[e])
               /\ SparseLookup(world, e) =
                    IF e \in DOMAIN truth /\ Sparse \in DOMAIN truth[e] THEN truth[e][Sparse] ELSE None
    <3>1. e \in H
      BY WorldAssumption DEF Handles, H
    <3>2. e \in DOMAIN truth <=> Located(world, e)
      BY <2>1, <3>1 DEF Live
    <3>3. e \in DOMAIN truth => Lookup(world, e) = Dense(truth[e])
      BY <2>1, LookupIs
    <3>4. QED
      BY <3>1, <3>2, <3>3, SparseLookupIs
  <2>4. ASSUME NEW d \in DOMAIN world.dense
        PROVE  DenseIndex(world, world.dense[d].ent) = d
    BY <2>1, <2>4, WorldFields, DenseIs
  <2>5. QED
    BY <2>2, <2>3, <2>4 DEF StorageHoldsWhatWasGiven
<1>2. QED
  BY <1>1, StorageIsKept, PTL

-----------------------------------------------------------------------------
(***************************************************************************)
(* What the change ticks say.  The columns of u are those of w and each at *)
(* least as new.                                                           *)
(***************************************************************************)
Later(w, u) ==
  \A a \in DOMAIN w.archs :
    /\ a \in DOMAIN u.archs /\ u.archs[a].ids = w.archs[a].ids
    /\ \A c \in w.archs[a].ids :
         /\ w.archs[a].ticks[c] \in Nat /\ u.archs[a].ticks[c] \in Nat
         /\ w.archs[a].ticks[c] <= u.archs[a].ticks[c]

LEMMA LaterIs ==
  ASSUME NEW w, NEW G, Fit(w, G), NEW u, NEW tick \in Nat, w.tick <= tick,
         \A a \in DOMAIN w.archs :
           /\ a \in DOMAIN u.archs /\ u.archs[a].ids = w.archs[a].ids
           /\ \A c \in w.archs[a].ids :
                u.archs[a].ticks[c] = w.archs[a].ticks[c] \/ u.archs[a].ticks[c] = tick
  PROVE  Later(w, u)
<1>1. w \in Worlds /\ Columns(w)
  BY DEF Fit
<1>2. ASSUME NEW a \in DOMAIN w.archs, NEW c \in w.archs[a].ids
      PROVE  w.archs[a].ticks[c] \in Nat /\ w.archs[a].ticks[c] <= tick
  <2>1. w.archs[a].ticks \in On(Nat) /\ w.tick \in Nat
    BY <1>1, WorldFields
  <2>2. c \in DOMAIN w.archs[a].ticks /\ w.archs[a].ticks[c] <= w.tick
    BY <1>1 DEF Columns
  <2>3. w.archs[a].ticks[c] \in Nat
    BY <2>1, <2>2, OnIs
  <2>4. QED
    BY <2>1, <2>2, <2>3
<1>3. QED
  BY <1>2 DEF Later

LEMMA LaterTwice ==
  ASSUME NEW w, NEW u, NEW x, Later(w, u), Later(u, x)
  PROVE  Later(w, x)
<1> SUFFICES ASSUME NEW a \in DOMAIN w.archs
             PROVE  /\ a \in DOMAIN x.archs /\ x.archs[a].ids = w.archs[a].ids
                    /\ \A c \in w.archs[a].ids :
                         /\ w.archs[a].ticks[c] \in Nat /\ x.archs[a].ticks[c] \in Nat
                         /\ w.archs[a].ticks[c] <= x.archs[a].ticks[c]
  BY DEF Later
<1>1. /\ a \in DOMAIN u.archs /\ u.archs[a].ids = w.archs[a].ids
      /\ \A c \in w.archs[a].ids :
           /\ w.archs[a].ticks[c] \in Nat /\ u.archs[a].ticks[c] \in Nat
           /\ w.archs[a].ticks[c] <= u.archs[a].ticks[c]
  BY DEF Later
<1>2. /\ a \in DOMAIN x.archs /\ x.archs[a].ids = u.archs[a].ids
      /\ \A c \in u.archs[a].ids :
           /\ u.archs[a].ticks[c] \in Nat /\ x.archs[a].ticks[c] \in Nat
           /\ u.archs[a].ticks[c] <= x.archs[a].ticks[c]
  BY <1>1 DEF Later
<1>3. QED
  BY <1>1, <1>2

(* The operations that leave the columns as they are.                      *)
LEMMA LaterSame ==
  ASSUME NEW w, NEW G, Fit(w, G), NEW u,
         \A a \in DOMAIN w.archs :
           /\ a \in DOMAIN u.archs /\ u.archs[a].ids = w.archs[a].ids
           /\ u.archs[a].ticks = w.archs[a].ticks
  PROVE  Later(w, u)
<1>1. w.tick \in Nat /\ w.tick <= w.tick
  BY FitTick
<1>2. QED
  BY <1>1, LaterIs

LEMMA LaterMarked ==
  ASSUME NEW w, NEW G, Fit(w, G), NEW u, NEW A, NEW cols, NEW tick \in Nat, w.tick <= tick,
         MarkedFrom(w, u, A, cols, tick)
  PROVE  Later(w, u)
<1>1. \A a \in DOMAIN w.archs : w.archs[a].ids = DOMAIN w.archs[a].ticks
  BY DEF Fit, Columns
<1>2. /\ DOMAIN u.archs = DOMAIN w.archs
      /\ \A a \in DOMAIN w.archs :
           /\ u.archs[a].ids = w.archs[a].ids
           /\ \A c \in DOMAIN w.archs[a].ticks :
                u.archs[a].ticks[c] = w.archs[a].ticks[c] \/ u.archs[a].ticks[c] = tick
  BY DEF MarkedFrom
<1>3. QED
  BY <1>1, <1>2, LaterIs

LEMMA LaterWritten ==
  ASSUME NEW w, NEW G, Fit(w, G), NEW u, SameRows(w, u)
  PROVE  Later(w, u)
BY LaterSame DEF SameRows

LEMMA LaterGrown ==
  ASSUME NEW w, NEW G, Fit(w, G), NEW u, NEW ids, GrownFor(w, u, ids)
  PROVE  Later(w, u)
BY LaterSame DEF GrownFor

(* A cut needs no more than a world.                                       *)
LEMMA CutColumns ==
  ASSUME NEW w \in Worlds, NEW a, NEW r, NEW u, u = SwapRemoved(w, a, r)
  PROVE  /\ DOMAIN u.archs = DOMAIN w.archs
         /\ \A b \in DOMAIN w.archs :
              u.archs[b].ids = w.archs[b].ids /\ u.archs[b].ticks = w.archs[b].ticks
<1> DEFINE rows == w.archs[a].rows
           last == Len(rows)
           new == Front(ReplaceAt(rows, r, rows[last]))
           cut == [w EXCEPT !.archs[a].rows = new]
<1>1. u.archs = cut.archs
  BY DEF SwapRemoved, Worlds
<1> HIDE DEF new
<1>2. cut.archs = [w.archs EXCEPT ![a] = [w.archs[a] EXCEPT !.rows = new]]
  BY DEF Worlds
<1>3. \A b \in DOMAIN w.archs : w.archs[b] \in ArchType
  BY WorldFields
<1> DEFINE f == [w.archs EXCEPT ![a] = [w.archs[a] EXCEPT !.rows = new]]
<1>4. DOMAIN f = DOMAIN w.archs
  OBVIOUS
<1>5. ASSUME NEW b \in DOMAIN w.archs
      PROVE  f[b].ids = w.archs[b].ids /\ f[b].ticks = w.archs[b].ticks
  <2>1. CASE b = a
    <3> DEFINE g == w.archs[a]
    <3>1. g \in ArchType /\ f[b] = [g EXCEPT !.rows = new]
      BY <1>3, <2>1
    <3> HIDE DEF g, f
    <3>2. [g EXCEPT !.rows = new].ids = g.ids /\ [g EXCEPT !.rows = new].ticks = g.ticks
      BY <3>1 DEF ArchType
    <3>3. QED
      BY <2>1, <3>1, <3>2 DEF g
  <2>2. CASE b # a
    BY <2>2
  <2>3. QED
    BY <2>1, <2>2
<1>6. QED
  BY <1>1, <1>2, <1>4, <1>5

LEMMA LaterCut ==
  ASSUME NEW w, NEW G, Fit(w, G), NEW a, NEW r
  PROVE  Later(w, SwapRemoved(w, a, r))
<1> DEFINE u == SwapRemoved(w, a, r)
<1>1. w \in Worlds
  BY FitTick
<1>2. /\ DOMAIN u.archs = DOMAIN w.archs
      /\ \A b \in DOMAIN w.archs :
           u.archs[b].ids = w.archs[b].ids /\ u.archs[b].ticks = w.archs[b].ticks
  BY <1>1, CutColumns
<1> HIDE DEF u
<1>3. Later(w, u)
  BY <1>2, LaterSame
<1>4. QED
  BY <1>3 DEF u

(***************************************************************************)
(* What a reader can see of the step from w to u: an entity's Key was left *)
(* as it was in a column no older than before, or it stands in a column    *)
(* newer than t, the tick the step began with.                             *)
(***************************************************************************)
KeyTick(w, e) == ArchAt(w, e).ticks[Key]

Fresh(t, u, e) == Key \in ArchAt(u, e).ids => KeyTick(u, e) > t

AsBefore(w, u, e) ==
  /\ e \in Live(w, {}) /\ Key \in DOMAIN Meaning(w, {})[e]
  /\ Meaning(u, {})[e][Key] = Meaning(w, {})[e][Key]
  /\ KeyTick(w, e) \in Nat /\ KeyTick(w, e) <= KeyTick(u, e)

Shown(t, w, u, e) ==
  Key \in DOMAIN Meaning(u, {})[e] => KeyTick(u, e) > t \/ AsBefore(w, u, e)

Shows(t, w, u) == \A e \in Live(u, {}) : Shown(t, w, u, e)

LEMMA KeyTickIs ==
  ASSUME NEW w, Fit(w, {}), NEW e \in Live(w, {}), Key \in DOMAIN Meaning(w, {})[e]
  PROVE  KeyTick(w, e) \in Nat /\ KeyTick(w, e) <= w.tick
<1>1. Key \in Components
  BY KeyIsStored
<1>2. Key \in ArchAt(w, e).ids
  BY <1>1, HasColumn
<1> DEFINE a == w.loc[e.idx].arch
<1>3. w \in Worlds /\ a \in DOMAIN w.archs /\ ArchAt(w, e) = w.archs[a]
  BY LiveAt, LiveIs
<1> HIDE DEF a
<1>4. w.archs[a].ticks \in On(Nat) /\ w.tick \in Nat
  BY <1>3, WorldFields
<1>5. DOMAIN w.archs[a].ticks = w.archs[a].ids /\ w.archs[a].ticks[Key] <= w.tick
  BY <1>2, <1>3 DEF Fit, Columns
<1>6. w.archs[a].ticks[Key] \in Nat
  BY <1>2, <1>3, <1>4, <1>5, OnIs
<1>7. QED
  BY <1>3, <1>5, <1>6 DEF KeyTick

LEMMA FreshShown ==
  ASSUME NEW u, Fit(u, {}), NEW e \in Live(u, {}), NEW t, NEW w, Fresh(t, u, e)
  PROVE  Shown(t, w, u, e)
BY HasColumn, KeyIsStored DEF Shown, Fresh

(* An entity that keeps its components keeps its archetype.                *)
SameKind(w, u, e) ==
  /\ \A c \in Components : c \in DOMAIN Meaning(u, {})[e] <=> c \in DOMAIN Meaning(w, {})[e]
  /\ Key \in DOMAIN Meaning(w, {})[e] => Meaning(u, {})[e][Key] = Meaning(w, {})[e][Key]

LEMMA SameColumn ==
  ASSUME NEW w, Fit(w, {}), NEW u, Fit(u, {}), Later(w, u),
         NEW e, e \in Live(w, {}), e \in Live(u, {}), SameKind(w, u, e)
  PROVE  u.loc[e.idx].arch = w.loc[e.idx].arch
<1> DEFINE a == w.loc[e.idx].arch
           b == u.loc[e.idx].arch
<1>1. /\ w \in Worlds /\ a \in DOMAIN w.archs /\ ArchAt(w, e) = w.archs[a]
      /\ u \in Worlds /\ b \in DOMAIN u.archs /\ ArchAt(u, e) = u.archs[b]
  BY LiveAt, LiveIs
<1> HIDE DEF a, b
<1>2. w.archs[a].ids \subseteq Components /\ u.archs[b].ids \subseteq Components
  BY <1>1, WorldFields
<1>3. \A c \in Components : c \in w.archs[a].ids <=> c \in u.archs[b].ids
  <2> SUFFICES ASSUME NEW c \in Components PROVE c \in w.archs[a].ids <=> c \in u.archs[b].ids
    OBVIOUS
  <2>1. c \in DOMAIN Meaning(u, {})[e] <=> c \in ArchAt(u, e).ids
    BY HasColumn
  <2>2. c \in DOMAIN Meaning(w, {})[e] <=> c \in ArchAt(w, e).ids
    BY HasColumn
  <2>3. QED
    BY <1>1, <2>1, <2>2 DEF SameKind
<1>4. a \in DOMAIN u.archs /\ u.archs[a].ids = u.archs[b].ids
  BY <1>1, <1>2, <1>3 DEF Later
<1>5. a = b
  BY <1>1, <1>4 DEF Fit, Columns
<1>6. QED
  BY <1>5 DEF a, b

LEMMA StaysShown ==
  ASSUME NEW w, Fit(w, {}), NEW u, Fit(u, {}), Later(w, u),
         NEW e, e \in Live(w, {}), e \in Live(u, {}), SameKind(w, u, e), NEW t
  PROVE  Shown(t, w, u, e)
<1> SUFFICES ASSUME Key \in DOMAIN Meaning(u, {})[e]
             PROVE  AsBefore(w, u, e)
  BY DEF Shown
<1>1. Key \in DOMAIN Meaning(w, {})[e] /\ Meaning(u, {})[e][Key] = Meaning(w, {})[e][Key]
  BY KeyIsStored DEF SameKind
<1> DEFINE a == w.loc[e.idx].arch
<1>2. a \in DOMAIN w.archs /\ Key \in w.archs[a].ids
  BY <1>1, HasColumn, KeyIsStored, LiveAt, LiveIs
<1>3. KeyTick(w, e) = w.archs[a].ticks[Key] /\ KeyTick(u, e) = u.archs[a].ticks[Key]
  BY SameColumn DEF KeyTick, ArchAt
<1> HIDE DEF a
<1>4. KeyTick(w, e) \in Nat /\ KeyTick(w, e) <= KeyTick(u, e)
  BY <1>2, <1>3 DEF Later
<1>5. QED
  BY <1>1, <1>4 DEF AsBefore

LEMMA ShowsTwice ==
  ASSUME NEW w, NEW u, NEW x, Fit(u, {}), Fit(x, {}), NEW t \in Nat,
         Shows(t, w, u), Shows(t, u, x)
  PROVE  Shows(t, w, x)
<1> SUFFICES ASSUME NEW e \in Live(x, {}), Key \in DOMAIN Meaning(x, {})[e]
             PROVE  KeyTick(x, e) > t \/ AsBefore(w, x, e)
  BY DEF Shows, Shown
<1>1. KeyTick(x, e) \in Nat
  BY KeyTickIs
<1>2. KeyTick(x, e) > t \/ AsBefore(u, x, e)
  BY DEF Shows, Shown
<1>3. CASE AsBefore(u, x, e)
  <2>1. /\ e \in Live(u, {}) /\ Key \in DOMAIN Meaning(u, {})[e]
        /\ Meaning(x, {})[e][Key] = Meaning(u, {})[e][Key]
        /\ KeyTick(u, e) \in Nat /\ KeyTick(u, e) <= KeyTick(x, e)
    BY <1>3 DEF AsBefore
  <2>2. KeyTick(u, e) > t \/ AsBefore(w, u, e)
    BY <2>1 DEF Shows, Shown
  <2>3. CASE KeyTick(u, e) > t
    BY <1>1, <2>1, <2>3
  <2>4. CASE AsBefore(w, u, e)
    BY <1>1, <2>1, <2>4 DEF AsBefore
  <2>5. QED
    BY <2>2, <2>3, <2>4
<1>4. QED
  BY <1>2, <1>3

(* The steps by what they mean.                                            *)
LEMMA SameShows ==
  ASSUME NEW w, Fit(w, {}), NEW u, Fit(u, {}), Later(w, u), NEW t,
         Meaning(u, {}) = Meaning(w, {})
  PROVE  Shows(t, w, u)
<1> SUFFICES ASSUME NEW e \in Live(u, {})
             PROVE  Shown(t, w, u, e)
  BY DEF Shows
<1>1. e \in Live(w, {})
  BY MeaningIs
<1>2. SameKind(w, u, e)
  BY DEF SameKind
<1>3. QED
  BY <1>1, <1>2, StaysShown

LEMMA GoneShows ==
  ASSUME NEW w, Fit(w, {}), NEW u, Fit(u, {}), Later(w, u), NEW t, NEW E,
         Meaning(u, {}) = Gone(Meaning(w, {}), E)
  PROVE  Shows(t, w, u)
<1> SUFFICES ASSUME NEW e \in Live(u, {})
             PROVE  Shown(t, w, u, e)
  BY DEF Shows
<1> DEFINE m == Meaning(w, {})
<1>1. DOMAIN Gone(m, E) = DOMAIN m \ E /\ \A x \in DOMAIN m \ E : Gone(m, E)[x] = m[x]
  BY GoneIs
<1>2. e \in DOMAIN m \ E /\ DOMAIN m = Live(w, {})
  BY <1>1, MeaningIs
<1>3. Meaning(u, {})[e] = m[e]
  BY <1>1, <1>2
<1>4. SameKind(w, u, e)
  BY <1>3 DEF SameKind
<1>5. QED
  BY <1>2, <1>4, StaysShown

LEMMA GivenShows ==
  ASSUME NEW w, Fit(w, {}), NEW u, Fit(u, {}), Later(w, u), NEW t, NEW e, NEW vals,
         Meaning(u, {}) = Given(Meaning(w, {}), e, vals),
         \/ Fresh(t, u, e)
         \/ /\ e \in Live(w, {}) /\ Key \notin DOMAIN vals
            /\ \A c \in Components : c \in DOMAIN vals => c \in DOMAIN Meaning(w, {})[e]
  PROVE  Shows(t, w, u)
<1> SUFFICES ASSUME NEW f \in Live(u, {})
             PROVE  Shown(t, w, u, f)
  BY DEF Shows
<1> DEFINE m == Meaning(w, {})
           k == Meaning(u, {})
           now == IF e \in DOMAIN m THEN Overlay(vals, m[e]) ELSE vals
           one == Just(e, now)
<1>1. DOMAIN k = Live(u, {}) /\ DOMAIN m = Live(w, {})
  BY MeaningIs
<1>2. k = Overlay(one, m)
  BY DEF Given
<1>3. DOMAIN one = {e} /\ one[e] = now
  BY JustIs
<1> HIDE DEF one, m, k, now
<1>4. DOMAIN k = {e} \cup DOMAIN m /\ k[e] = now
  <2>1. DOMAIN Overlay(one, m) = DOMAIN one \cup DOMAIN m
    BY OverlayIs
  <2>2. Overlay(one, m)[e] = one[e]
    BY <1>3, OverlayNew
  <2>3. QED
    BY <1>2, <1>3, <2>1, <2>2
<1>5. CASE f # e
  <2>1. f \in DOMAIN m /\ f \notin DOMAIN one
    BY <1>1, <1>3, <1>4, <1>5
  <2>2. k[f] = m[f]
    BY <1>2, <2>1, OverlayOld
  <2>3. SameKind(w, u, f)
    BY <2>2 DEF SameKind, k, m
  <2>4. QED
    BY <1>1, <2>1, <2>3, StaysShown DEF m
<1>6. CASE f = e /\ Fresh(t, u, e)
  BY <1>6, FreshShown
<1>7. CASE f = e /\ ~Fresh(t, u, e)
  <2>1. /\ e \in Live(w, {}) /\ Key \notin DOMAIN vals
        /\ \A c \in Components : c \in DOMAIN vals => c \in DOMAIN m[e]
    BY <1>7 DEF m
  <2> DEFINE old == m[e]
  <2>2. k[e] = Overlay(vals, old)
    BY <1>1, <1>4, <2>1 DEF now
  <2> HIDE DEF old
  <2>3. DOMAIN k[e] = DOMAIN vals \cup DOMAIN old
    BY <2>2, OverlayIs
  <2>4. Key \in DOMAIN old => k[e][Key] = old[Key]
    BY <2>1, <2>2, OverlayOld
  <2>5. SameKind(w, u, e)
    BY <2>1, <2>3, <2>4 DEF SameKind, k, m, old
  <2>6. QED
    BY <1>7, <2>1, <2>5, StaysShown
<1>8. QED
  BY <1>5, <1>6, <1>7

LEMMA TakenShows ==
  ASSUME NEW w, Fit(w, {}), NEW u, Fit(u, {}), Later(w, u), NEW t, NEW e, NEW c,
         Meaning(u, {}) = Taken(Meaning(w, {}), e, c),
         Fresh(t, u, e) \/ c = Key \/ c \notin Components
  PROVE  Shows(t, w, u)
<1> SUFFICES ASSUME NEW f \in Live(u, {})
             PROVE  Shown(t, w, u, f)
  BY DEF Shows
<1> DEFINE m == Meaning(w, {})
           k == Meaning(u, {})
<1>1. DOMAIN k = Live(u, {}) /\ DOMAIN m = Live(w, {})
  BY MeaningIs
<1>2. k = [m EXCEPT ![e] = Only(m[e], DOMAIN m[e] \ {c})]
  BY DEF Taken
<1> HIDE DEF m, k
<1>3. f \in DOMAIN m /\ f \in Live(w, {})
  BY <1>1, <1>2
<1>4. CASE f # e
  <2>1. k[f] = m[f]
    BY <1>2, <1>3, <1>4
  <2>2. SameKind(w, u, f)
    BY <2>1 DEF SameKind, k, m
  <2>3. QED
    BY <1>3, <2>2, StaysShown
<1>5. CASE f = e
  <2> DEFINE old == m[e]
  <2>1. k[e] = Only(old, DOMAIN old \ {c})
    BY <1>2, <1>3, <1>5
  <2> HIDE DEF old
  <2>2. DOMAIN k[e] = DOMAIN old \ {c} /\ \A d \in DOMAIN old \ {c} : k[e][d] = old[d]
    BY <2>1 DEF Only
  <2>3. CASE Fresh(t, u, e)
    BY <1>5, <2>3, FreshShown
  <2>4. CASE c = Key
    BY <1>5, <2>2, <2>4 DEF Shown, k
  <2>5. CASE c \notin Components
    <3>1. SameKind(w, u, e)
      BY <2>2, <2>5, KeyIsStored DEF SameKind, k, m, old
    <3>2. QED
      BY <1>3, <1>5, <3>1, StaysShown
  <2>6. QED
    BY <2>3, <2>4, <2>5
<1>6. QED
  BY <1>4, <1>5

LEMMA SweptShows ==
  ASSUME NEW w, Fit(w, {}), NEW u, Fit(u, {}), Later(w, u), NEW t, NEW F, NEW v,
         Meaning(u, {}) = Swept(Meaning(w, {}), F, Key, v),
         \A e \in Live(u, {}) : e \in F => Fresh(t, u, e)
  PROVE  Shows(t, w, u)
<1> SUFFICES ASSUME NEW f \in Live(u, {})
             PROVE  Shown(t, w, u, f)
  BY DEF Shows
<1> DEFINE m == Meaning(w, {})
           k == Meaning(u, {})
<1>1. DOMAIN k = Live(u, {}) /\ DOMAIN m = Live(w, {})
  BY MeaningIs
<1>2. k = Swept(m, F, Key, v)
  OBVIOUS
<1> HIDE DEF m, k
<1>3. f \in DOMAIN m /\ f \in Live(w, {})
  BY <1>1, <1>2 DEF Swept
<1>4. CASE f \notin F
  <2>1. k[f] = m[f]
    BY <1>2, <1>3, <1>4 DEF Swept
  <2>2. SameKind(w, u, f)
    BY <2>1 DEF SameKind, k, m
  <2>3. QED
    BY <1>3, <2>2, StaysShown
<1>5. CASE f \in F
  BY <1>5, FreshShown
<1>6. QED
  BY <1>4, <1>5

(***************************************************************************)
(* The steps of the operations.  First the columns that were just marked.  *)
(***************************************************************************)
LEMMA MarkFresh ==
  ASSUME NEW w, Fit(w, {}), NEW u, NEW A, NEW cols, NEW tick, MarkedFrom(w, u, A, cols, tick),
         NEW e \in Live(w, {}), w.loc[e.idx].arch \in A, Key \in ArchAt(w, e).ids => Key \in cols,
         NEW t, tick > t
  PROVE  Fresh(t, u, e)
<1> DEFINE a == w.loc[e.idx].arch
<1>1. a \in DOMAIN w.archs /\ ArchAt(w, e) = w.archs[a]
  BY LiveAt, LiveIs
<1>2. u.loc = w.loc /\ ArchAt(u, e) = u.archs[a]
  BY DEF MarkedFrom, ArchAt
<1>3. a \in A
  OBVIOUS
<1> HIDE DEF a
<1>4. DOMAIN w.archs[a].ticks = w.archs[a].ids
  BY <1>1 DEF Fit, Columns
<1>5. /\ u.archs[a].ids = w.archs[a].ids
      /\ \A c \in DOMAIN w.archs[a].ticks : c \in cols => u.archs[a].ticks[c] = tick
  BY <1>1, <1>3 DEF MarkedFrom
<1>6. QED
  BY <1>1, <1>2, <1>4, <1>5 DEF Fresh, KeyTick

LEMMA FreshWritten ==
  ASSUME NEW w, Fit(w, {}), NEW u, SameRows(w, u), NEW e \in Live(w, {}), NEW t, Fresh(t, w, e)
  PROVE  Fresh(t, u, e)
<1> DEFINE a == w.loc[e.idx].arch
<1>1. a \in DOMAIN w.archs /\ ArchAt(w, e) = w.archs[a]
  BY LiveAt, LiveIs
<1>2. ArchAt(u, e) = u.archs[a]
  BY DEF SameRows, ArchAt
<1> HIDE DEF a
<1>3. u.archs[a].ids = w.archs[a].ids /\ u.archs[a].ticks = w.archs[a].ticks
  BY <1>1 DEF SameRows
<1>4. QED
  BY <1>1, <1>2, <1>3 DEF Fresh, KeyTick

LEMMA TickLater ==
  ASSUME NEW w, NEW G, Fit(w, G)
  PROVE  Later(w, NextTick(w))
<1>1. NextTick(w).archs = w.archs
  BY TickKeeps
<1>2. QED
  BY <1>1, LaterSame

LEMMA MarkLater ==
  ASSUME NEW w, Fit(w, {}), NEW a \in DOMAIN w.archs, NEW cols
  PROVE  /\ MarkedFrom(w, Marked(w, a, cols, w.tick), {a}, cols, w.tick)
         /\ Later(w, Marked(w, a, cols, w.tick))
<1> DEFINE u == Marked(w, a, cols, w.tick)
<1>1. w \in Worlds /\ w.tick \in Nat /\ w.tick <= w.tick
  BY FitTick
<1>2. MarkedFrom(w, u, {a}, cols, w.tick)
  BY <1>1, MarkedIs
<1> HIDE DEF u
<1>3. Later(w, u)
  BY <1>1, <1>2, LaterMarked
<1>4. QED
  BY <1>2, <1>3 DEF u

(* Written in place, and the written columns marked.                       *)
LEMMA WriteMarkShows ==
  ASSUME NEW w, Fit(w, {}), NEW e \in Live(w, {}), NEW vals \in On(V), NEW u,
         DOMAIN vals \subseteq ArchAt(w, e).ids, NEW a, a = w.loc[e.idx].arch,
         u = Marked(Overwritten(w, a, w.loc[e.idx].row, vals), a, DOMAIN vals, w.tick),
         NEW t \in Nat, t < w.tick
  PROVE  Later(w, u) /\ Shows(t, w, u)
<1> DEFINE r == w.loc[e.idx].row
           x == Overwritten(w, a, r, vals)
<1>1. InRow(w, e, a, r) /\ x = Overwritten(w, a, r, vals)
  BY DEF InRow
<1>2. u = Marked(x, a, DOMAIN vals, w.tick)
  OBVIOUS
<1>3. a \in DOMAIN w.archs
  BY LiveAt
<1>u. Fit(u, {}) /\ Meaning(u, {}) = Given(Meaning(w, {}), e, vals)
  BY WriteMarkKeeps
<1> HIDE DEF x, r
<1>4. /\ Fit(x, {}) /\ Steady(w, x) /\ x.loc = w.loc /\ SameRows(w, x)
      /\ Meaning(x, {}) = Given(Meaning(w, {}), e, vals)
  BY <1>1, OverwrittenKeeps
<1>5. x.tick = w.tick /\ a \in DOMAIN x.archs
  BY <1>3, <1>4 DEF Steady, SameRows
<1>6. MarkedFrom(x, u, {a}, DOMAIN vals, w.tick) /\ Later(x, u)
  BY <1>2, <1>4, <1>5, MarkLater
<1>7. Later(w, x)
  BY <1>4, LaterWritten
<1>8. Later(w, u)
  BY <1>6, <1>7, LaterTwice
<1>9. e \in Live(x, {})
  BY <1>4, LiveSame DEF Steady
<1>10. CASE Key \in DOMAIN vals
  <2>1. x.loc[e.idx].arch \in {a}
    BY <1>4
  <2>2. Fresh(t, u, e)
    BY <1>4, <1>6, <1>9, <1>10, <2>1, FitTick, MarkFresh
  <2>3. QED
    BY <1>u, <1>8, <2>2, GivenShows
<1>11. CASE Key \notin DOMAIN vals
  <2>1. \A c \in Components : c \in DOMAIN vals => c \in DOMAIN Meaning(w, {})[e]
    BY HasColumn
  <2>2. QED
    BY <1>u, <1>8, <1>11, <2>1, GivenShows
<1>12. QED
  BY <1>10, <1>11

(* Where a migration leads.                                                *)
LEMMA MigratedColumns ==
  ASSUME NEW w, Fit(w, {}), NEW e \in Live(w, {}), NEW vals \in On(V),
         DOMAIN vals # ArchAt(w, e).ids, NEW m, m = Migrated(w, e, vals)
  PROVE  /\ Later(w, m) /\ e \in Live(m, {}) /\ ArchAt(m, e).ids = DOMAIN vals
         /\ m.loc[e.idx].arch = ArchOf(m, DOMAIN vals)
<1> DEFINE D == DOMAIN vals
           grown == GetOrCreate(w, D)
           b == ArchOf(grown, D)
           a == w.loc[e.idx].arch
           r == w.loc[e.idx].row
           pushed == Pushed(grown, b, e, vals)
           u == SwapRemoved(pushed, a, r)
<1>1. m = u
  BY DEF Migrated
<1>2. w \in Worlds /\ D \in SUBSET Components
  BY OnIs DEF Fit
<1>3. GrownFor(w, grown, D)
  BY <1>2, GetOrCreateIs
<1>4. Fit(grown, {})
  BY <1>2, <1>3, GrowKeeps
<1>5. b \in DOMAIN grown.archs /\ grown \in Worlds
  BY <1>3 DEF GrownFor
<1>6. e \in H
  BY DEF Live
<1> HIDE DEF grown, b, D
<1>7. PushedTo(grown, pushed, b, e, vals)
  BY <1>5, <1>6, PushedIs
<1> HIDE DEF pushed, a, r
<1>8. pushed \in Worlds /\ SameArchs(grown, pushed, b)
  BY <1>7 DEF PushedTo
<1>9. /\ DOMAIN u.archs = DOMAIN pushed.archs
      /\ \A c \in DOMAIN pushed.archs :
           u.archs[c].ids = pushed.archs[c].ids /\ u.archs[c].ticks = pushed.archs[c].ticks
  BY <1>8, CutColumns
<1> HIDE DEF u
<1>10. Later(grown, u)
  <2>1. \A c \in DOMAIN grown.archs :
          /\ c \in DOMAIN u.archs /\ u.archs[c].ids = grown.archs[c].ids
          /\ u.archs[c].ticks = grown.archs[c].ticks
    BY <1>8, <1>9 DEF SameArchs
  <2>2. QED
    BY <1>4, <2>1, LaterSame
<1>11. Later(w, u)
  BY <1>3, <1>10, LaterGrown, LaterTwice
<1>12. /\ Fit(m, {}) /\ Meaning(m, {}) = Overlay(Just(e, Over(w, e, vals)), Meaning(w, {}))
       /\ ArchOf(m, DOMAIN vals) \in DOMAIN m.archs
  BY MigratedKeeps
<1>13. e \in Live(m, {}) /\ Meaning(m, {})[e] = Over(w, e, vals)
  <2> DEFINE one == Just(e, Over(w, e, vals))
             k == Meaning(w, {})
  <2>1. DOMAIN one = {e} /\ one[e] = Over(w, e, vals)
    BY JustIs
  <2> HIDE DEF one, k
  <2>2. DOMAIN Overlay(one, k) = DOMAIN one \cup DOMAIN k /\ Overlay(one, k)[e] = one[e]
    BY ZenonT(30), <2>1, OverlayIs, OverlayNew
  <2>3. Meaning(m, {}) = Overlay(one, k)
    BY <1>12 DEF one, k
  <2>4. QED
    BY <2>1, <2>2, <2>3, MeaningIs
<1> DEFINE o == Over(w, e, vals)
           h == m.loc[e.idx].arch
           g == ArchOf(m, DOMAIN vals)
<1>14. m \in Worlds /\ h \in DOMAIN m.archs /\ ArchAt(m, e) = m.archs[h]
  BY <1>12, <1>13, LiveAt, LiveIs
<1>15. \A c \in Components : c \in DOMAIN o <=> c \in DOMAIN vals
  <2>1. \/ DOMAIN o = DOMAIN vals
        \/ DOMAIN o = {Sparse} \cup DOMAIN vals
    BY OverIs
  <2>2. QED
    BY <2>1, KeyIsStored
<1> HIDE DEF o, h, g
<1>16. \A c \in Components : c \in DOMAIN vals <=> c \in m.archs[h].ids
  <2> SUFFICES ASSUME NEW c \in Components PROVE c \in DOMAIN vals <=> c \in m.archs[h].ids
    OBVIOUS
  <2>1. c \in DOMAIN Meaning(m, {})[e] <=> c \in ArchAt(m, e).ids
    BY <1>12, <1>13, HasColumn
  <2>2. QED
    BY <1>13, <1>14, <1>15, <2>1 DEF o
<1>17. m.archs[h].ids = DOMAIN vals
  <2>1. m.archs[h].ids \subseteq Components /\ DOMAIN vals \subseteq Components
    BY <1>14, WorldFields, OnIs
  <2>2. QED
    BY <1>16, <2>1
<1>18. m.archs[g].ids = DOMAIN vals /\ g \in DOMAIN m.archs
  <2>1. g \in DOMAIN m.archs
    BY <1>12 DEF g
  <2>2. QED
    BY <1>14, <1>17, <2>1 DEF g, ArchOf
<1>19. h = g
  BY <1>12, <1>14, <1>17, <1>18 DEF Fit, Columns
<1>20. QED
  BY <1>1, <1>11, <1>13, <1>14, <1>17, <1>19 DEF h, g

(* A migration with all columns of the target marked.                      *)
LEMMA MovedFresh ==
  ASSUME NEW w, Fit(w, {}), NEW e \in Live(w, {}), NEW vals \in On(V),
         DOMAIN vals # ArchAt(w, e).ids, NEW m, m = Migrated(w, e, vals),
         NEW u, u = Marked(m, ArchOf(m, DOMAIN vals), DOMAIN vals, w.tick),
         NEW t \in Nat, t < w.tick
  PROVE  Later(w, u) /\ Fresh(t, u, e)
<1> DEFINE g == ArchOf(m, DOMAIN vals)
<1>1. /\ Later(w, m) /\ e \in Live(m, {}) /\ ArchAt(m, e).ids = DOMAIN vals
      /\ m.loc[e.idx].arch = g
  BY MigratedColumns
<1>2. Fit(m, {}) /\ g \in DOMAIN m.archs /\ m.tick = w.tick
  BY MigratedKeeps DEF Steady
<1>3. u = Marked(m, g, DOMAIN vals, m.tick)
  BY <1>2
<1> HIDE DEF g
<1>4. MarkedFrom(m, u, {g}, DOMAIN vals, m.tick) /\ Later(m, u)
  BY <1>2, <1>3, MarkLater
<1>5. m.tick > t
  BY <1>2, FitTick
<1>6. m.loc[e.idx].arch \in {g} /\ (Key \in ArchAt(m, e).ids => Key \in DOMAIN vals)
  BY <1>1
<1>7. Fresh(t, u, e)
  BY <1>1, <1>2, <1>4, <1>5, <1>6, MarkFresh
<1>8. QED
  BY <1>1, <1>4, <1>7, LaterTwice

LEMMA AddShows ==
  ASSUME NEW w, Fit(w, {}), NEW e \in Live(w, {}), NEW vals \in On(V), NEW all, NEW m, NEW u,
         ~(DOMAIN vals \subseteq ArchAt(w, e).ids), all = Overlay(vals, Row(w, e).vals),
         m = Migrated(w, e, all), u = Marked(m, ArchOf(m, DOMAIN all), DOMAIN all, w.tick),
         NEW t \in Nat, t < w.tick
  PROVE  Later(w, u) /\ Shows(t, w, u)
<1>1. Fit(u, {}) /\ Meaning(u, {}) = Given(Meaning(w, {}), e, vals)
  BY AddKeeps
<1>2. all \in On(V) /\ DOMAIN all # ArchAt(w, e).ids
  <2> DEFINE old == Row(w, e).vals
  <2>1. old \in On(V) /\ all = Overlay(vals, old)
    BY LiveIs
  <2> HIDE DEF old
  <2>2. Overlay(vals, old) \in On(V) /\ DOMAIN Overlay(vals, old) = DOMAIN vals \cup DOMAIN old
    BY <2>1, OverlayOn
  <2>3. QED
    BY <2>1, <2>2
<1>3. Later(w, u) /\ Fresh(t, u, e)
  BY <1>2, MovedFresh
<1>4. QED
  BY <1>1, <1>3, GivenShows

LEMMA TakeMarkShows ==
  ASSUME NEW w, Fit(w, {}), NEW e \in Live(w, {}), NEW c \in Components, c \in ArchAt(w, e).ids,
         NEW kept, NEW m, NEW u,
         kept = Only(Row(w, e).vals, ArchAt(w, e).ids \ {c}), m = Migrated(w, e, kept),
         u = Marked(m, ArchOf(m, DOMAIN kept), DOMAIN kept, w.tick),
         NEW t \in Nat, t < w.tick
  PROVE  Later(w, u) /\ Shows(t, w, u)
<1>1. kept \in On(V) /\ DOMAIN kept # ArchAt(w, e).ids
  <2> DEFINE old == Row(w, e).vals
             D == ArchAt(w, e).ids
  <2>1. old \in On(V) /\ DOMAIN old = D /\ kept = Only(old, D \ {c}) /\ c \in D
    BY LiveIs
  <2> HIDE DEF old, D
  <2>2. Only(old, D \ {c}) \in On(V) /\ DOMAIN Only(old, D \ {c}) = D \ {c}
    BY <2>1, OnlyOn
  <2>3. QED
    BY <2>1, <2>2 DEF D
<1>2. Later(w, u) /\ Fresh(t, u, e)
  BY <1>1, MovedFresh
<1>3. /\ Fit(m, {}) /\ m.tick = w.tick /\ Meaning(m, {}) = Taken(Meaning(w, {}), e, c)
      /\ ArchOf(m, DOMAIN kept) \in DOMAIN m.archs
  BY TakeKeeps DEF Steady
<1>4. Fit(u, {}) /\ Meaning(u, {}) = Meaning(m, {})
  BY <1>3, FitTick, MarkSame
<1>5. QED
  BY <1>2, <1>3, <1>4, TakenShows

(***************************************************************************)
(* A whole call: the tick does not go back, and the change shows.          *)
(***************************************************************************)
Goes(w, u) == w.tick <= u.tick /\ Shows(w.tick, w, u)

LEMMA TickIs ==
  ASSUME NEW w, Fit(w, {}), NEW t, t = NextTick(w)
  PROVE  /\ Fit(t, {}) /\ Later(w, t) /\ Live(t, {}) = Live(w, {})
         /\ Meaning(t, {}) = Meaning(w, {}) /\ t.loc = w.loc /\ t.archs = w.archs
         /\ t.tick \in Nat /\ w.tick \in Nat /\ t.tick = w.tick + 1 /\ w.tick < t.tick
<1>1. /\ Fit(t, {}) /\ Live(t, {}) = Live(w, {}) /\ Meaning(t, {}) = Meaning(w, {})
      /\ t.loc = w.loc /\ t.archs = w.archs /\ t.tick = w.tick + 1 /\ w.tick \in Nat
  BY TickKeeps
<1>2. Later(w, t)
  BY TickLater
<1>3. QED
  BY <1>1, <1>2

LEMMA TickGoes ==
  ASSUME NEW w, Fit(w, {})
  PROVE  Goes(w, NextTick(w))
<1> DEFINE t == NextTick(w)
<1>1. /\ Fit(t, {}) /\ Later(w, t) /\ Meaning(t, {}) = Meaning(w, {})
      /\ t.tick \in Nat /\ w.tick \in Nat /\ w.tick < t.tick
  BY TickIs
<1> HIDE DEF t
<1>2. Shows(w.tick, w, t)
  BY <1>1, SameShows
<1>3. QED
  BY <1>1, <1>2 DEF Goes, t

LEMMA AllocatedGoes ==
  ASSUME NEW w, Fit(w, {}), NEW s \in Slots
  PROVE  Goes(w, Allocated(w, s)) /\ Later(w, Allocated(w, s))
<1> DEFINE u == Allocated(w, s)
<1>1. Fit(u, {}) /\ Meaning(u, {}) = Meaning(w, {}) /\ u.tick = w.tick
  BY AllocatedKeeps
<1>2. u.archs = w.archs
  BY DEF Allocated, Fit, Worlds
<1> HIDE DEF u
<1>3. Later(w, u) /\ w.tick \in Nat
  BY <1>2, LaterSame, FitTick
<1>4. Shows(w.tick, w, u)
  BY <1>1, <1>3, SameShows
<1>5. QED
  BY <1>1, <1>3, <1>4 DEF Goes, u

LEMMA PlacedShows ==
  ASSUME NEW w, Fit(w, {}), NEW e \in H, IsAlive(w, e), ~IsPlaced(w, e), e.idx \notin w.free,
         NEW vals \in On(V), NEW u, u = Placed(w, e, vals, w.tick), NEW t \in Nat, t < w.tick
  PROVE  Later(w, u) /\ Fresh(t, u, e) /\ Shows(t, w, u)
<1> DEFINE D == DOMAIN vals
           grown == GetOrCreate(w, D)
           a == ArchOf(grown, D)
           pushed == Pushed(grown, a, e, vals)
<1>1. u = Marked(pushed, a, D, w.tick)
  BY DEF Placed
<1>2. w \in Worlds /\ D \in SUBSET Components /\ w.tick \in Nat
  BY OnIs, FitTick
<1>3. GrownFor(w, grown, D)
  BY <1>2, GetOrCreateIs
<1>4. Fit(grown, {})
  BY <1>2, <1>3, GrowKeeps
<1>5. /\ a \in DOMAIN grown.archs /\ grown.archs[a].ids = D /\ grown \in Worlds
      /\ grown.gens = w.gens /\ grown.free = w.free /\ grown.tick = w.tick /\ grown.loc = w.loc
  BY <1>3 DEF GrownFor, SameRest
<1> HIDE DEF grown, a
<1>6. IsAlive(grown, e) /\ ~Located(grown, e) /\ e.idx \notin grown.free
  BY <1>5 DEF IsAlive, Located, IsPlaced
<1>7. PushedTo(grown, pushed, a, e, vals)
  BY <1>5, PushedIs
<1>8. Fit(pushed, {})
  <2>1. Fit(pushed, Minus({}, e))
    BY <1>4, <1>5, <1>6, <1>7, PushKeeps
  <2>2. Minus({}, e) = {}
    BY DEF Minus
  <2>3. QED
    BY <2>1, <2>2
<1>9. /\ pushed.tick = w.tick /\ pushed.gens = w.gens /\ a \in DOMAIN pushed.archs
      /\ SameArchs(grown, pushed, a)
      /\ pushed.loc = [grown.loc EXCEPT ![e.idx] = [arch |-> a, row |-> Len(grown.archs[a].rows) + 1]]
  BY <1>5, <1>7 DEF PushedTo, SameRest, SameArchs
<1>10. Later(grown, pushed)
  <2>1. \A b \in DOMAIN grown.archs :
          /\ b \in DOMAIN pushed.archs /\ pushed.archs[b].ids = grown.archs[b].ids
          /\ pushed.archs[b].ticks = grown.archs[b].ticks
    BY <1>9 DEF SameArchs
  <2>2. QED
    BY <1>4, <2>1, LaterSame
<1>11. pushed.loc[e.idx].arch = a /\ Located(pushed, e)
  <2>1. e.idx \in Slots /\ grown.loc \in [Slots -> {None} \cup Place]
    BY <1>5, HandleIs, WorldFields
  <2> DEFINE at == [arch |-> a, row |-> Len(grown.archs[a].rows) + 1]
  <2>2. at \in Place
    <3>1. a \in Nat /\ Len(grown.archs[a].rows) \in Nat
      BY <1>5, WorldFields
    <3>2. QED
      BY <3>1 DEF Place
  <2>3. at # None /\ at.arch = a
    BY <2>2, PlaceIs DEF Place
  <2>4. pushed.loc[e.idx] = at
    BY <1>9, <2>1
  <2> HIDE DEF at
  <2>5. QED
    BY <1>9, <2>3, <2>4 DEF Located, IsAlive, IsPlaced
<1> HIDE DEF pushed, D
<1>12. e \in Live(pushed, {})
  BY <1>11 DEF Live
<1>13. ArchAt(pushed, e).ids = D
  BY <1>5, <1>9, <1>11 DEF ArchAt, SameArchs
<1>14. u = Marked(pushed, a, D, pushed.tick)
  BY <1>1, <1>9
<1>15. MarkedFrom(pushed, u, {a}, D, pushed.tick) /\ Later(pushed, u)
  <2>1. a \in DOMAIN pushed.archs
    BY <1>9
  <2> DEFINE x == Marked(pushed, a, D, pushed.tick)
  <2>2. MarkedFrom(pushed, x, {a}, D, pushed.tick) /\ Later(pushed, x)
    BY ONLY <1>8, <2>1, MarkLater
  <2> HIDE DEF x
  <2>3. QED
    BY ONLY <1>14, <2>2 DEF x
<1>16. pushed.tick > t
  BY <1>2, <1>9
<1>17. Fresh(t, u, e)
  <2>1. pushed.loc[e.idx].arch \in {a}
    BY <1>11
  <2>2. QED
    BY <1>8, <1>12, <1>13, <1>15, <1>16, <2>1, MarkFresh
<1>18. Later(w, u)
  BY <1>3, <1>10, <1>15, LaterGrown, LaterTwice
<1>19. Fit(u, {}) /\ Meaning(u, {}) = Given(Meaning(w, {}), e, vals)
  BY <1>2, PlacedKeeps
<1>20. Shows(t, w, u)
  BY ONLY Fit(w, {}), <1>17, <1>18, <1>19, GivenShows
<1>21. QED
  BY <1>17, <1>18, <1>20

LEMMA SpawnedGoes ==
  ASSUME NEW w, Fit(w, {}), NEW s \in w.free, NEW vals \in On(V)
  PROVE  Goes(w, Spawned(w, s, vals))
<1> DEFINE t == NextTick(w)
           x == Allocated(t, s)
           e == Handle(w, s)
           u == Placed(x, e, vals, t.tick)
<1>1. Spawned(w, s, vals) = u
  BY DEF Spawned
<1>2. s \in Slots /\ w.loc[s] = None /\ w.gens[s] \in Nat
  BY WorldFields DEF Fit, FreeUnplaced
<1>3. e \in H /\ e.idx = s /\ e.gen = w.gens[s]
  BY <1>2 DEF Handle, H
<1>4. /\ Fit(t, {}) /\ Meaning(t, {}) = Meaning(w, {}) /\ t.gens = w.gens /\ t.free = w.free
      /\ t.loc = w.loc /\ t.tick \in Nat
  BY TickKeeps
<1>5. w.tick \in Nat /\ w.tick < t.tick /\ Later(w, t)
  BY TickIs
<1> HIDE DEF t, e
<1>6. /\ Fit(x, {}) /\ Meaning(x, {}) = Meaning(t, {}) /\ x.free = t.free \ {s}
      /\ x.gens = t.gens /\ x.loc = t.loc /\ x.tick = t.tick
  BY <1>2, <1>4, AllocatedKeeps
<1>7. Later(t, x)
  BY <1>2, <1>4, AllocatedGoes
<1> HIDE DEF x
<1>8. IsAlive(x, e) /\ ~IsPlaced(x, e) /\ e.idx \notin x.free
  BY <1>2, <1>3, <1>4, <1>6 DEF IsAlive, IsPlaced
<1>9. u = Placed(x, e, vals, x.tick) /\ w.tick < x.tick
  BY <1>5, <1>6
<1>10. Fit(u, {}) /\ u.tick = x.tick /\ Meaning(u, {}) = Given(Meaning(x, {}), e, vals)
  <2>1. x.tick \in Nat /\ x.tick <= x.tick
    BY <1>4, <1>6
  <2>2. QED
    BY <1>3, <1>6, <1>8, <1>9, <2>1, PlacedKeeps DEF Steady
<1> HIDE DEF u
<1>11. Later(x, u) /\ Fresh(w.tick, u, e)
  BY <1>3, <1>5, <1>6, <1>8, <1>9, PlacedShows
<1>12. Later(w, u)
  BY <1>5, <1>7, <1>11, LaterTwice
<1>13. Meaning(u, {}) = Given(Meaning(w, {}), e, vals)
  BY <1>4, <1>6, <1>10
<1>14. Shows(w.tick, w, u)
  BY <1>10, <1>11, <1>12, <1>13, GivenShows
<1>15. w.tick <= u.tick
  <2>1. w.tick \in Nat /\ w.tick < t.tick /\ t.tick \in Nat /\ u.tick = t.tick
    BY <1>4, <1>5, <1>6, <1>10
  <2>2. QED
    BY ONLY <2>1
<1>16. QED
  BY <1>1, <1>14, <1>15 DEF Goes

(* A step that begins later sees the first one's columns as new, too.      *)
LEMMA ShowsSooner ==
  ASSUME NEW w, NEW u, Fit(u, {}), NEW t \in Nat, NEW k \in Nat, k <= t, Shows(t, w, u)
  PROVE  Shows(k, w, u)
<1> SUFFICES ASSUME NEW e \in Live(u, {}), Key \in DOMAIN Meaning(u, {})[e], KeyTick(u, e) > t
             PROVE  KeyTick(u, e) > k
  BY DEF Shows, Shown
<1>1. KeyTick(u, e) \in Nat
  BY KeyTickIs
<1>2. QED
  BY <1>1

LEMMA GoesTwice ==
  ASSUME NEW w, NEW u, NEW x, Fit(w, {}), Fit(u, {}), Fit(x, {}), Goes(w, u), Goes(u, x)
  PROVE  Goes(w, x)
<1>1. w.tick \in Nat /\ u.tick \in Nat /\ x.tick \in Nat /\ w.tick <= u.tick /\ u.tick <= x.tick
  BY FitTick DEF Goes
<1>2. Shows(w.tick, u, x)
  BY <1>1, ShowsSooner DEF Goes
<1>3. Shows(w.tick, w, x)
  BY <1>1, <1>2, ShowsTwice DEF Goes
<1>4. QED
  BY <1>1, <1>3 DEF Goes

LEMMA SpawnedTwiceGoes ==
  ASSUME NEW w, Fit(w, {}), NEW s \in w.free, NEW t \in w.free, s # t, NEW vals \in On(V)
  PROVE  Goes(w, Spawned(Spawned(w, s, vals), t, vals))
<1> DEFINE x == Spawned(w, s, vals)
           u == Spawned(x, t, vals)
<1>1. Fit(x, {}) /\ x.free = w.free \ {s} /\ Goes(w, x)
  BY SpawnedKeeps, SpawnedGoes
<1> HIDE DEF x
<1>2. Fit(u, {}) /\ Goes(x, u)
  BY <1>1, SpawnedKeeps, SpawnedGoes
<1> HIDE DEF u
<1>3. Goes(w, u)
  BY <1>1, <1>2, GoesTwice
<1>4. QED
  BY <1>3 DEF u, x

(* Sparse values are in no column.                                         *)
LEMMA SparseShows ==
  ASSUME NEW w, Fit(w, {}), NEW e \in Live(w, {}), NEW t
  PROVE  /\ \A v \in V : Shows(t, w, SparseInserted(w, e, v))
         /\ Shows(t, w, SparseRemoved(w, e))
<1>1. ASSUME NEW v \in V
      PROVE  Shows(t, w, SparseInserted(w, e, v))
  <2> DEFINE u == SparseInserted(w, e, v)
             one == Just(Sparse, v)
  <2>1. Fit(u, {}) /\ Meaning(u, {}) = Given(Meaning(w, {}), e, one)
    BY SparseInsertedMeans
  <2>2. u.archs = w.archs
    BY LiveIs, SparseInsertedKeeps DEF OtherSparse
  <2>3. DOMAIN one = {Sparse}
    BY JustIs
  <2> HIDE DEF u, one
  <2>4. Later(w, u)
    BY <2>2, LaterSame
  <2>5. Key \notin DOMAIN one /\ \A c \in Components : c \notin DOMAIN one
    BY <2>3, KeyIsStored
  <2>6. Shows(t, w, u)
    BY <2>1, <2>4, <2>5, GivenShows
  <2>7. QED
    BY <2>6 DEF u
<1>2. Shows(t, w, SparseRemoved(w, e))
  <2> DEFINE u == SparseRemoved(w, e)
  <2>1. Fit(u, {}) /\ Meaning(u, {}) = Taken(Meaning(w, {}), e, Sparse)
    BY SparseRemovedMeans
  <2>2. u.archs = w.archs
    BY LiveIs, SparseRemovedKeeps DEF OtherSparse
  <2> HIDE DEF u
  <2>3. Later(w, u)
    BY <2>2, LaterSame
  <2>4. Shows(t, w, u)
    BY <2>1, <2>3, KeyIsStored, TakenShows
  <2>5. QED
    BY <2>4 DEF u
<1>3. QED
  BY <1>1, <1>2

LEMMA DeallocColumns ==
  ASSUME NEW w \in Worlds, NEW E
  PROVE  DeallocAll(w, E).archs = w.archs
BY DEF DeallocAll, Worlds

LEMMA DespawnedShows ==
  ASSUME NEW w, Fit(w, {}), NEW e \in Live(w, {}), NEW t
  PROVE  Shows(t, w, Despawned(w, e)) /\ Despawned(w, e).tick = w.tick
<1> DEFINE a == w.loc[e.idx].arch
           r == w.loc[e.idx].row
           cut == SwapRemoved(w, a, r)
           x == SparseRemoved(cut, e)
           G == Plus({}, e)
           u == DeallocAll(x, {e})
<1>1. Despawned(w, e) = u
  BY DEF Despawned, Dealloc
<1>2. /\ w \in Worlds /\ e \in H /\ a \in DOMAIN w.archs /\ r \in DOMAIN w.archs[a].rows
  BY LiveIs DEF Fit
<1>3. CutFrom(w, cut, a, r) /\ Later(w, cut)
  BY <1>2, SwapRemovedIs, LaterCut
<1> HIDE DEF cut
<1>4. Fit(cut, G)
  BY <1>3, CutKeeps
<1>5. OtherSparse(cut, x)
  BY <1>2, <1>4, SparseRemovedKeeps
<1> HIDE DEF x
<1>6. u.archs = cut.archs
  <2>1. x \in Worlds /\ x.archs = cut.archs
    BY <1>5 DEF OtherSparse
  <2>2. QED
    BY <2>1, DeallocColumns
<1> HIDE DEF u
<1>7. Later(w, u)
  BY <1>4, <1>6, <1>3, LaterSame, LaterTwice
<1>8. Fit(u, {}) /\ Meaning(u, {}) = Gone(Meaning(w, {}), {e}) /\ u.tick = w.tick
  BY <1>1, DespawnedKeeps DEF Freed
<1>9. QED
  BY <1>1, <1>7, <1>8, GoneShows

(* What shows on the world with the next tick shows from the start.        *)
LEMMA FromTick ==
  ASSUME NEW w, Fit(w, {}), NEW t, t = NextTick(w), NEW u, Fit(u, {}),
         Shows(w.tick, t, u), t.tick <= u.tick
  PROVE  Goes(w, u)
<1>1. /\ Fit(t, {}) /\ Later(w, t) /\ Meaning(t, {}) = Meaning(w, {})
      /\ t.tick \in Nat /\ w.tick \in Nat /\ w.tick < t.tick
  BY TickIs
<1>2. Shows(w.tick, w, t)
  BY ONLY Fit(w, {}), <1>1, SameShows
<1>3. Shows(w.tick, w, u)
  BY ONLY Fit(u, {}), Shows(w.tick, t, u), <1>1, <1>2, ShowsTwice
<1>4. w.tick <= u.tick
  <2>1. u.tick \in Nat
    BY FitTick
  <2>2. QED
    BY <1>1, <2>1
<1>5. QED
  BY <1>3, <1>4 DEF Goes

LEMMA GotMutGoes ==
  ASSUME NEW w, Fit(w, {}), NEW e \in Live(w, {}), NEW v \in V
  PROVE  Goes(w, GotMut(w, e, Key, v))
<1> DEFINE t == NextTick(w)
           a == w.loc[e.idx].arch
           vals == Just(Key, v)
           u == Marked(Overwritten(t, a, w.loc[e.idx].row, vals), a, {Key}, t.tick)
<1>1. GotMut(w, e, Key, v) = IF Key \in ArchAt(w, e).ids THEN u ELSE t
  BY DEF GotMut
<1>2. /\ Fit(t, {}) /\ Live(t, {}) = Live(w, {}) /\ t.loc = w.loc /\ ArchAt(t, e) = ArchAt(w, e)
  BY TickSame
<1>3. w.tick \in Nat /\ w.tick < t.tick
  BY TickIs
<1>4. CASE Key \in ArchAt(w, e).ids
  <2>1. vals \in On(V) /\ DOMAIN vals = {Key}
    BY JustOn, ValuesAre
  <2>2. e \in Live(t, {}) /\ a = t.loc[e.idx].arch /\ DOMAIN vals \subseteq ArchAt(t, e).ids
    BY <1>2, <1>4, <2>1
  <2>3. u = Marked(Overwritten(t, a, t.loc[e.idx].row, vals), a, DOMAIN vals, t.tick)
    BY <1>2, <2>1
  <2> HIDE DEF t, a, vals, u
  <2>4. Shows(w.tick, t, u)
    BY <1>2, <1>3, <2>1, <2>2, <2>3, WriteMarkShows
  <2>5. Fit(u, {}) /\ u.tick = t.tick
    BY <1>2, <2>1, <2>2, <2>3, WriteMarkKeeps DEF Steady
  <2>6. t.tick <= u.tick /\ t = NextTick(w)
    BY <1>2, <2>5, FitTick DEF t
  <2>7. Goes(w, u)
    BY <2>4, <2>5, <2>6, FromTick
  <2>8. QED
    BY <1>1, <1>4, <2>7
<1>5. CASE Key \notin ArchAt(w, e).ids
  BY <1>1, <1>5, TickGoes
<1>6. QED
  BY <1>4, <1>5

LEMMA InsertedGoes ==
  ASSUME NEW w, Fit(w, {}), NEW e \in Live(w, {}), NEW vals \in On(V)
  PROVE  Goes(w, Inserted(w, e, vals))
<1> DEFINE t == NextTick(w)
           a == w.loc[e.idx].arch
           all == Overlay(vals, Row(w, e).vals)
           m == Migrated(t, e, all)
           u == Marked(Overwritten(t, a, w.loc[e.idx].row, vals), a, DOMAIN vals, t.tick)
           x == Marked(m, ArchOf(m, DOMAIN all), DOMAIN all, t.tick)
<1>1. Inserted(w, e, vals) = IF DOMAIN vals \subseteq ArchAt(w, e).ids THEN u ELSE x
  BY DEF Inserted
<1>2. /\ Fit(t, {}) /\ Live(t, {}) = Live(w, {}) /\ t.loc = w.loc
      /\ ArchAt(t, e) = ArchAt(w, e) /\ Row(t, e) = Row(w, e)
  BY TickSame
<1>3. /\ e \in Live(t, {}) /\ a = t.loc[e.idx].arch /\ all = Overlay(vals, Row(t, e).vals)
      /\ u = Marked(Overwritten(t, a, t.loc[e.idx].row, vals), a, DOMAIN vals, t.tick)
  BY <1>2
<1>4. w.tick \in Nat /\ w.tick < t.tick /\ t.tick \in Nat
  BY TickIs
<1>5. m = Migrated(t, e, all) /\ x = Marked(m, ArchOf(m, DOMAIN all), DOMAIN all, t.tick)
  OBVIOUS
<1>6. t = NextTick(w)
  OBVIOUS
<1> HIDE DEF t, a, all, m, u, x
<1>7. CASE DOMAIN vals \subseteq ArchAt(w, e).ids
  <2>1. Shows(w.tick, t, u)
    BY <1>2, <1>3, <1>4, <1>7, WriteMarkShows
  <2>2. Fit(u, {}) /\ u.tick = t.tick
    BY <1>2, <1>3, <1>7, WriteMarkKeeps DEF Steady
  <2>3. Goes(w, u)
    BY <1>4, <1>6, <2>1, <2>2, FromTick
  <2>4. QED
    BY <1>1, <1>7, <2>3
<1>8. CASE ~(DOMAIN vals \subseteq ArchAt(w, e).ids)
  <2>1. Shows(w.tick, t, x)
    BY <1>2, <1>3, <1>4, <1>5, <1>8, AddShows
  <2>2. Fit(x, {}) /\ x.tick = t.tick
    BY <1>2, <1>3, <1>5, <1>8, AddKeeps DEF Steady
  <2>3. Goes(w, x)
    BY <1>4, <1>6, <2>1, <2>2, FromTick
  <2>4. QED
    BY <1>1, <1>8, <2>3
<1>9. QED
  BY <1>7, <1>8

LEMMA StaysGoes ==
  ASSUME NEW w, Fit(w, {})
  PROVE  Goes(w, w)
<1>1. Later(w, w)
  BY LaterSame
<1>2. Shows(w.tick, w, w)
  BY <1>1, SameShows
<1>3. QED
  BY <1>2, FitTick DEF Goes

(* Taking the key away changes nobody else's key and no other value of it. *)
LEMMA RemovedGoes ==
  ASSUME NEW w, Fit(w, {}), NEW e \in Live(w, {})
  PROVE  Goes(w, Removed(w, e, Key))
<1> DEFINE old == Row(w, e).vals
           D == ArchAt(w, e).ids
           kept == Only(old, D \ {Key})
           m == Migrated(w, e, kept)
<1>1. Removed(w, e, Key) = IF Key \in D THEN m ELSE w
  BY DEF Removed
<1>2. kept = Only(Row(w, e).vals, ArchAt(w, e).ids \ {Key}) /\ m = Migrated(w, e, kept)
  OBVIOUS
<1>3. CASE Key \in D
  <2>1. kept \in On(V) /\ DOMAIN kept # D
    <3>1. old \in On(V) /\ DOMAIN old = D
      BY LiveIs
    <3> HIDE DEF old, D
    <3>2. Only(old, D \ {Key}) \in On(V) /\ DOMAIN Only(old, D \ {Key}) = D \ {Key}
      BY <3>1, OnlyOn
    <3>3. QED
      BY <1>3, <3>2
  <2>2. Key \in Components
    BY ValuesAre
  <2> HIDE DEF kept, m
  <2>3. Later(w, m)
    BY <1>2, <2>1, MigratedColumns
  <2>4. Fit(m, {}) /\ m.tick = w.tick /\ Meaning(m, {}) = Taken(Meaning(w, {}), e, Key)
    BY <1>2, <1>3, <2>2, TakeKeeps DEF Steady
  <2>5. Shows(w.tick, w, m)
    BY ONLY Fit(w, {}), <2>3, <2>4, TakenShows
  <2>6. Goes(w, m)
    BY <2>4, <2>5, FitTick DEF Goes
  <2>7. QED
    BY <1>1, <1>3, <2>6
<1>4. CASE Key \notin D
  BY <1>1, <1>4, StaysGoes
<1>5. QED
  BY <1>3, <1>4

LEMMA CutLater ==
  ASSUME NEW w, Fit(w, {}), NEW s, Distinct(w, s)
  PROVE  Later(w, RowsCut(w, s)[Len(s)])
<1> DEFINE c == RowsCut(w, s)
           S == {n \in 0 .. Len(s) : CutTo(w, c[n], s, n) /\ Later(w, c[n])}
<1>1. Len(s) \in Nat /\ DOMAIN s = 1 .. Len(s)
  BY SeqIs DEF Distinct
<1>2. c[0] = w /\ \A n \in 1 .. Len(s) :
        c[n] = SwapRemoved(c[n - 1], w.loc[s[n].idx].arch, w.loc[s[n].idx].row)
  BY <1>1, CutUnfolds
<1> HIDE DEF c
<1>3. CutTo(w, w, s, 0)
  <2>1. First(s, 0) = {}
    BY DEF First
  <2>2. Gone(Meaning(w, {}), {}) = Meaning(w, {})
    BY MeaningIs DEF Gone, Only, IsMap
  <2>3. QED
    BY <2>1, <2>2 DEF CutTo, SameRest
<1>4. 0 \in S
  BY <1>1, <1>2, <1>3, LaterSame
<1>5. ASSUME NEW n \in 1 .. Len(s), n - 1 \in S
      PROVE  n \in S
  <2> DEFINE x == SwapRemoved(c[n - 1], w.loc[s[n].idx].arch, w.loc[s[n].idx].row)
  <2>1. CutTo(w, c[n - 1], s, n - 1) /\ Later(w, c[n - 1]) /\ n \in DOMAIN s
    BY <1>1, <1>5
  <2>2. CutTo(w, x, s, n)
    BY <2>1, CutNext
  <2>3. Later(c[n - 1], x)
    BY <2>1, LaterCut DEF CutTo
  <2>4. c[n] = x
    BY <1>2
  <2> HIDE DEF x
  <2>5. Later(w, x)
    BY <2>1, <2>3, LaterTwice
  <2>6. QED
    BY <1>1, <2>2, <2>4, <2>5
<1> HIDE DEF S
<1>6. \A n \in 1 .. Len(s) : n - 1 \in S => n \in S
  BY <1>5
<1>7. \A n \in 0 .. Len(s) : n \in S
  BY <1>1, <1>4, <1>6, UpTo
<1>8. Len(s) \in S
  BY <1>1, <1>7
<1>9. QED
  BY <1>8 DEF S, c

LEMMA DespawnedBatchGoes ==
  ASSUME NEW w, Fit(w, {}), NEW E, E \subseteq Live(w, {})
  PROVE  Goes(w, DespawnedBatch(w, E))
<1> DEFINE s == RowOrder(w, E)
           clean == SparseCleaned(w, s)[Len(s)]
           cut == RowsCut(clean, s)[Len(s)]
           u == DeallocAll(cut, E)
<1>1. DespawnedBatch(w, E) = u
  BY DEF DespawnedBatch
<1>2. InRows(w, E)
  <2>1. \A e \in E : w.loc[e.idx] \in Place
    BY LiveIs
  <2>2. QED
    BY <2>1, LiveFinite DEF Place, InRows
<1>3. /\ s \in [1 .. Cardinality(E) -> E] /\ Cardinality(E) \in Nat
      /\ IsInjective(s) /\ Descending(w, s)
      /\ s \in Seq(E) /\ Len(s) = Cardinality(E)
  BY <1>2, RowOrderIs
<1> HIDE DEF s
<1>4. s \in Seq(H) /\ DOMAIN s = 1 .. Len(s)
  <2>1. E \subseteq H
    BY DEF Live
  <2>2. s \in [1 .. Len(s) -> H] /\ Len(s) \in Nat
    BY <1>3, <2>1
  <2>3. QED
    BY <2>2
<1>5. CleanedTo(w, clean, s, Len(s))
  BY <1>4, CleanedIs
<1> HIDE DEF clean
<1>6. OtherSparse(w, clean) /\ SparseFits(clean)
  BY <1>5 DEF CleanedTo
<1>7. Fit(clean, {}) /\ Live(clean, {}) = Live(w, {})
  BY <1>6, SparseFit
<1>8. Later(w, clean) /\ clean.loc = w.loc
  BY <1>6, LaterSame DEF OtherSparse
<1>9. Distinct(clean, s)
  <2>1. \A j \in DOMAIN s : s[j] \in Live(clean, {})
    BY <1>3, <1>7
  <2>2. Descending(clean, s)
    BY <1>3, <1>8 DEF Descending
  <2>3. QED
    BY <1>3, <1>4, <2>1, <2>2 DEF Distinct
<1>10. Later(clean, cut) /\ CutTo(clean, cut, s, Len(s))
  BY <1>7, <1>9, CutLater, CutIs
<1> HIDE DEF cut
<1>11. Fit(cut, First(s, Len(s)))
  BY <1>10 DEF CutTo
<1>12. u.archs = cut.archs
  BY <1>11, DeallocColumns DEF Fit
<1> HIDE DEF u
<1>13. Later(cut, u)
  BY <1>11, <1>12, LaterSame
<1>14. Later(w, u)
  BY <1>8, <1>10, <1>13, LaterTwice
<1>15. Fit(u, {}) /\ u.tick = w.tick /\ Meaning(u, {}) = Gone(Meaning(w, {}), E)
  BY <1>1, DespawnedBatchKeeps DEF Freed
<1>16. Shows(w.tick, w, u)
  BY <1>14, <1>15, GoneShows
<1>17. QED
  BY <1>1, <1>15, <1>16, FitTick DEF Goes

LEMMA RewrittenSweeps ==
  ASSUME NEW w, NEW E, NEW c \in Components, NEW v \in V, Fit(w, {}),
         \A e \in Live(w, {}) : e \in E => c \in ArchAt(w, e).ids
  PROVE  LET x == Rewritten(w, E, c, v)
         IN /\ Fit(x, {}) /\ x.tick = w.tick /\ x.loc = w.loc /\ SameRows(w, x) /\ Later(w, x)
            /\ Live(x, {}) = Live(w, {}) /\ Meaning(x, {}) = Swept(Meaning(w, {}), E, c, v)
<1> DEFINE x == Rewritten(w, E, c, v)
<1>1. Fit(x, {}) /\ Steady(w, x) /\ x.loc = w.loc /\ SameRows(w, x)
  BY RewrittenKeeps
<1>2. Meaning(x, {}) = Swept(Meaning(w, {}), E, c, v)
  BY RewrittenMeans
<1> HIDE DEF x
<1>3. Live(x, {}) = Live(w, {}) /\ Later(w, x)
  BY <1>1, LiveSame, LaterWritten DEF Steady
<1>4. QED
  BY <1>1, <1>2, <1>3 DEF Steady, x

LEMMA GotBatchMutGoes ==
  ASSUME NEW w, Fit(w, {}), NEW E, E \subseteq Live(w, {}), NEW v \in V
  PROVE  Goes(w, GotBatchMut(w, E, Key, v))
<1> DEFINE t == NextTick(w)
           found == {e \in E : Key \in ArchAt(w, e).ids}
           x == Rewritten(t, found, Key, v)
           A == {w.loc[e.idx].arch : e \in found}
           u == MarkedAll(x, A, {Key}, t.tick)
<1>1. GotBatchMut(w, E, Key, v) = u
  BY DEF GotBatchMut
<1>2. \A e : ArchAt(t, e) = ArchAt(w, e)
  BY TickSame
<1>3. /\ Fit(t, {}) /\ Live(t, {}) = Live(w, {}) /\ t.loc = w.loc
      /\ w.tick \in Nat /\ t.tick \in Nat /\ w.tick < t.tick /\ t = NextTick(w)
  BY TickIs
<1> HIDE DEF t
<1>4. \A e \in Live(t, {}) : e \in found => Key \in ArchAt(t, e).ids
  BY <1>2
<1>5. \A e \in found : w.loc[e.idx].arch \in A
  OBVIOUS
<1> HIDE DEF found, A
<1>6. /\ Fit(x, {}) /\ x.tick = t.tick /\ x.loc = t.loc /\ SameRows(t, x) /\ Later(t, x)
      /\ Live(x, {}) = Live(t, {}) /\ Meaning(x, {}) = Swept(Meaning(t, {}), found, Key, v)
  BY <1>3, <1>4, ValuesAre, RewrittenSweeps
<1> HIDE DEF x
<1>7. x \in Worlds
  BY <1>6, FitTick
<1>8. MarkedFrom(x, u, A, {Key}, t.tick) /\ x.tick <= t.tick
  <2>1. MarkedFrom(x, u, A, {Key}, t.tick)
    BY <1>3, <1>7, MarkedAllIs
  <2>2. QED
    BY <1>3, <1>6, <2>1
<1>9. Fit(u, {}) /\ Meaning(u, {}) = Meaning(x, {}) /\ Live(u, {}) = Live(x, {}) /\ Steady(x, u)
  BY <1>3, <1>6, <1>7, MarkAllSame
<1> HIDE DEF u
<1>10. Later(t, u)
  <2>1. Later(x, u)
    BY <1>3, <1>6, <1>8, LaterMarked
  <2>2. QED
    BY <1>6, <2>1, LaterTwice
<1>11. ASSUME NEW e \in Live(u, {}), e \in found
       PROVE  Fresh(w.tick, u, e)
  <2>1. e \in Live(x, {}) /\ x.loc[e.idx].arch \in A
    BY <1>3, <1>5, <1>6, <1>9, <1>11
  <2>2. QED
    BY <1>3, <1>6, <1>8, <2>1, MarkFresh
<1>12. Meaning(u, {}) = Swept(Meaning(t, {}), found, Key, v)
  BY <1>6, <1>9
<1>13. \A e \in Live(u, {}) : e \in found => Fresh(w.tick, u, e)
  BY <1>11
<1>14. t.tick <= u.tick
  BY <1>3, <1>6, <1>9 DEF Steady
<1>15. Shows(w.tick, t, u)
  BY ONLY <1>3, <1>9, <1>10, <1>12, <1>13, SweptShows
<1>16. Goes(w, u)
  BY <1>3, <1>9, <1>14, <1>15, FromTick
<1>17. QED
  BY <1>1, <1>16

LEMMA TableMutGoes ==
  ASSUME NEW w, Fit(w, {}), NEW ids \in SUBSET Components, Key \in ids, NEW v \in V
  PROVE  Goes(w, TableMut(w, ids, Key, v))
<1> DEFINE t == NextTick(w)
           made == GetOrCreate(t, ids)
           a == ArchOf(made, ids)
           x == Marked(made, a, ids, t.tick)
           E == EntitiesOf(made, {a})
           u == Rewritten(x, E, Key, v)
<1>1. TableMut(w, ids, Key, v) = u
  BY DEF TableMut
<1>2. /\ Fit(t, {}) /\ w.tick \in Nat /\ t.tick \in Nat /\ w.tick < t.tick /\ t = NextTick(w)
  BY TickIs
<1> HIDE DEF t
<1>3. GrownFor(t, made, ids)
  BY <1>2, GetOrCreateIs, FitTick
<1> HIDE DEF made
<1>4. Fit(made, {}) /\ Meaning(made, {}) = Meaning(t, {}) /\ Later(t, made)
  BY <1>2, <1>3, GrowKeeps, LaterGrown
<1>5. a \in DOMAIN made.archs /\ made.archs[a].ids = ids /\ made.tick = t.tick
  BY <1>3 DEF GrownFor, SameRest
<1>6. x = Marked(made, a, ids, made.tick)
  BY <1>5
<1>7. E = EntitiesOf(made, {a})
  OBVIOUS
<1> HIDE DEF a, E, x
<1>8. MarkedFrom(made, x, {a}, ids, made.tick) /\ Later(made, x)
  BY <1>4, <1>5, <1>6, MarkLater
<1>9. Fit(x, {}) /\ Meaning(x, {}) = Meaning(made, {}) /\ Live(x, {}) = Live(made, {})
  <2>1. made.tick \in Nat /\ made.tick <= made.tick
    BY <1>2, <1>5
  <2>2. QED
    BY <1>4, <1>8, <2>1, MarkKeeps
<1>10. x.tick = t.tick
  BY <1>5, <1>8 DEF MarkedFrom, SameRest
<1>11. ASSUME NEW e \in Live(made, {}), e \in E
       PROVE  Key \in ArchAt(x, e).ids /\ Fresh(w.tick, x, e)
  <2> DEFINE b == made.loc[e.idx].arch
  <2>1. b \in {a}
    <3>1. {a} \subseteq DOMAIN made.archs
      BY <1>5
    <3>2. QED
      BY <1>4, <1>7, <1>11, <3>1, EntitiesAt
  <2>2. x.loc = made.loc /\ x.archs[a].ids = ids
    BY <1>5, <1>8 DEF MarkedFrom
  <2>3. Key \in ArchAt(x, e).ids
    BY <2>1, <2>2 DEF ArchAt
  <2>4. made.tick > w.tick
    BY <1>2, <1>5
  <2>5. Fresh(w.tick, x, e)
    BY <1>4, <1>8, <2>1, <2>4, MarkFresh
  <2>6. QED
    BY <2>3, <2>5
<1>12. \A e \in Live(x, {}) : e \in E => Key \in ArchAt(x, e).ids
  BY <1>9, <1>11
<1>13. /\ Fit(u, {}) /\ u.tick = x.tick /\ SameRows(x, u) /\ Later(x, u)
       /\ Live(u, {}) = Live(x, {}) /\ Meaning(u, {}) = Swept(Meaning(x, {}), E, Key, v)
  BY <1>9, <1>12, ValuesAre, RewrittenSweeps
<1> HIDE DEF u
<1>14. ASSUME NEW e \in Live(u, {}), e \in E
       PROVE  Fresh(w.tick, u, e)
  <2>1. e \in Live(made, {}) /\ e \in Live(x, {})
    BY <1>9, <1>13
  <2>2. Fresh(w.tick, x, e)
    BY <1>11, <1>14, <2>1
  <2>3. QED
    BY <1>9, <1>13, <2>1, <2>2, FreshWritten
<1>15. \A e \in Live(u, {}) : e \in E => Fresh(w.tick, u, e)
  BY <1>14
<1>16. Later(t, u)
  BY <1>4, <1>8, <1>13, LaterTwice
<1>17. Meaning(u, {}) = Swept(Meaning(t, {}), E, Key, v)
  BY <1>4, <1>9, <1>13
<1>18. Shows(w.tick, t, u)
  BY ONLY <1>2, <1>13, <1>15, <1>16, <1>17, SweptShows
<1>19. t.tick <= u.tick
  BY <1>2, <1>10, <1>13
<1>20. Goes(w, u)
  BY <1>2, <1>13, <1>18, <1>19, FromTick
<1>21. QED
  BY <1>1, <1>20

LEMMA WalkGoes ==
  ASSUME NEW w, Fit(w, {}), NEW A, A \subseteq Having(w, Key), NEW v \in V,
         NEW t, t = NextTick(w),
         NEW u, u = NextTick(Rewritten(MarkedAll(t, A, {Key}, t.tick), EntitiesOf(t, A), Key, v))
  PROVE  Goes(w, u)
<1> DEFINE x == MarkedAll(t, A, {Key}, t.tick)
           E == EntitiesOf(t, A)
           y == Rewritten(x, E, Key, v)
<1>1. u = NextTick(y)
  OBVIOUS
<1>2. /\ Fit(t, {}) /\ Live(t, {}) = Live(w, {}) /\ t.archs = w.archs
      /\ t.tick \in Nat /\ w.tick \in Nat /\ w.tick < t.tick
  BY TickIs
<1>3. A \subseteq DOMAIN t.archs /\ \A a \in A : Key \in t.archs[a].ids
  BY <1>2 DEF Having
<1>4. MarkedFrom(t, x, A, {Key}, t.tick)
  BY <1>2, MarkedAllIs, FitTick
<1>5. Later(t, x)
  BY <1>2, <1>4, LaterMarked
<1>6. /\ Fit(x, {}) /\ Meaning(x, {}) = Meaning(t, {}) /\ Live(x, {}) = Live(t, {})
      /\ \A e \in Live(t, {}) : ArchAt(x, e).ids = ArchAt(t, e).ids
  BY <1>2, MarkAllSame
<1>7. x.tick = t.tick
  BY <1>4 DEF MarkedFrom, SameRest
<1>8. E = EntitiesOf(t, A)
  OBVIOUS
<1> HIDE DEF x, E
<1>9. ASSUME NEW e \in Live(t, {}), e \in E
      PROVE  Key \in ArchAt(x, e).ids /\ Fresh(w.tick, x, e)
  <2>1. t.loc[e.idx].arch \in A
    BY <1>2, <1>3, <1>8, <1>9, EntitiesAt
  <2>2. Key \in ArchAt(x, e).ids
    BY <1>3, <1>6, <2>1 DEF ArchAt
  <2>3. Fresh(w.tick, x, e)
    BY <1>2, <1>4, <2>1, MarkFresh
  <2>4. QED
    BY <2>2, <2>3
<1>10. \A e \in Live(x, {}) : e \in E => Key \in ArchAt(x, e).ids
  BY <1>6, <1>9
<1>11. /\ Fit(y, {}) /\ y.tick = x.tick /\ SameRows(x, y) /\ Later(x, y)
       /\ Live(y, {}) = Live(x, {}) /\ Meaning(y, {}) = Swept(Meaning(x, {}), E, Key, v)
  BY <1>6, <1>10, ValuesAre, RewrittenSweeps
<1> HIDE DEF y
<1>12. ASSUME NEW e \in Live(y, {}), e \in E
       PROVE  Fresh(w.tick, y, e)
  <2>1. e \in Live(t, {}) /\ e \in Live(x, {})
    BY <1>6, <1>11
  <2>2. Fresh(w.tick, x, e)
    BY <1>9, <1>12, <2>1
  <2>3. QED
    BY <1>6, <1>11, <2>1, <2>2, FreshWritten
<1>13. \A e \in Live(y, {}) : e \in E => Fresh(w.tick, y, e)
  BY <1>12
<1>14. Later(t, y)
  BY <1>5, <1>11, LaterTwice
<1>15. Meaning(y, {}) = Swept(Meaning(t, {}), E, Key, v)
  BY <1>6, <1>11
<1>16. Shows(w.tick, t, y)
  BY ONLY <1>2, <1>11, <1>13, <1>14, <1>15, SweptShows
<1>17. t.tick <= y.tick
  BY <1>2, <1>7, <1>11
<1>18. Goes(w, y)
  BY <1>2, <1>11, <1>16, <1>17, FromTick
<1>19. Fit(u, {}) /\ Goes(y, u)
  BY <1>1, <1>11, TickIs, TickGoes
<1>20. QED
  BY <1>11, <1>18, <1>19, GoesTwice

(***************************************************************************)
(* Changesets.  A write that is held back shows when it is flushed.        *)
(***************************************************************************)
LEMMA StaysShows ==
  ASSUME NEW w, Fit(w, {}), NEW t
  PROVE  Shows(t, w, w)
<1>1. Later(w, w)
  BY LaterSame
<1>2. QED
  BY <1>1, SameShows

Elsewhere(w, u, b) ==
  \A a \in DOMAIN w.archs : \A r \in DOMAIN w.archs[a].rows : \A c \in w.archs[a].ids :
    a # b.arch \/ c # b.comp => u.archs[a].rows[r].vals[c] = w.archs[a].rows[r].vals[c]

LEMMA ElsewhereNext ==
  ASSUME NEW w, NEW b, BatchFits(w, b), NEW n \in DOMAIN b.entries, NEW u, WroteTo(w, u),
         Elsewhere(w, u, b)
  PROVE  Elsewhere(w, Overwritten(u, b.arch, b.entries[n].row, Just(b.comp, b.entries[n].val)), b)
<1> DEFINE a == b.arch
           r == b.entries[n].row
           d == b.comp
           v == b.entries[n].val
           one == Just(d, v)
           x == Overwritten(u, a, r, one)
<1>1. b \in BatchType /\ a \in DOMAIN w.archs /\ r \in DOMAIN w.archs[a].rows
  BY DEF BatchFits
<1>2. d \in Components /\ v \in V
  BY <1>1, BatchIs
<1>3. one \in On(V) /\ DOMAIN one = {d}
  BY <1>2, JustOn
<1>4. Fit(u, {}) /\ SameRows(w, u) /\ u \in Worlds
  BY FitTick DEF WroteTo
<1>5. a \in DOMAIN u.archs /\ r \in DOMAIN u.archs[a].rows
  BY <1>1, <1>4 DEF SameRows
<1> HIDE DEF a, r, d, one
<1>6. RowSet(u, x, a, r, one)
  BY <1>3, <1>4, <1>5, OverwrittenIs
<1> HIDE DEF x
<1>7. ASSUME NEW i \in DOMAIN w.archs, NEW q \in DOMAIN w.archs[i].rows, NEW c \in w.archs[i].ids,
             i # a \/ c # d
      PROVE  x.archs[i].rows[q].vals[c] = w.archs[i].rows[q].vals[c]
  <2>1. u.archs[i].rows[q].vals[c] = w.archs[i].rows[q].vals[c]
    BY <1>7 DEF Elsewhere, a, d
  <2>2. i \in DOMAIN u.archs /\ q \in DOMAIN u.archs[i].rows /\ c \in u.archs[i].ids
    BY <1>4 DEF SameRows
  <2>3. CASE i # a \/ q # r
    BY <1>6, <2>1, <2>2, <2>3 DEF RowSet
  <2>4. CASE i = a /\ q = r
    <3> DEFINE old == u.archs[a].rows[r].vals
    <3>1. x.archs[a].rows[r].vals = Overlay(one, old)
      BY <1>6 DEF RowSet
    <3>2. c \in DOMAIN old
      <4>1. Columns(u)
        BY <1>4 DEF Fit
      <4>2. QED
        BY <2>2, <2>4, <4>1 DEF Columns
    <3>3. c \notin DOMAIN one
      BY <1>3, <1>7, <2>4
    <3> HIDE DEF old
    <3>4. Overlay(one, old)[c] = old[c]
      BY <3>2, <3>3, OverlayOld
    <3>5. QED
      BY <2>1, <2>4, <3>1, <3>4 DEF old
  <2>5. QED
    BY <2>3, <2>4
<1>8. Elsewhere(w, x, b)
  BY <1>7 DEF Elsewhere, a, d
<1>9. QED
  BY <1>8 DEF x, a, r, d, one

LEMMA WroteElsewhere ==
  ASSUME NEW w, Fit(w, {}), NEW b, BatchFits(w, b), NEW u, u = Wrote(w, b)
  PROVE  Elsewhere(w, u, b)
<1> DEFINE N == Len(b.entries)
           f == Written(w, b)
           S == {n \in 0 .. N : WroteTo(w, f[n]) /\ Elsewhere(w, f[n], b)}
<1>1. N \in Nat /\ DOMAIN b.entries = 1 .. N
  BY BatchIs DEF BatchFits
<1>2. f[0] = w /\ \A n \in 1 .. N :
        f[n] = Overwritten(f[n - 1], b.arch, b.entries[n].row, Just(b.comp, b.entries[n].val))
  BY <1>1, WrittenUnfolds
<1>3. u = f[N]
  BY DEF Wrote
<1> HIDE DEF N, f
<1>4. WroteTo(w, w) /\ Elsewhere(w, w, b)
  BY DEF WroteTo, SameRows, SameRest, Steady, Fit, Elsewhere
<1>5. 0 \in S
  BY <1>1, <1>2, <1>4
<1>6. \A n \in 1 .. N : n - 1 \in S => n \in S
  <2> SUFFICES ASSUME NEW n \in 1 .. N, WroteTo(w, f[n - 1]), Elsewhere(w, f[n - 1], b)
               PROVE  WroteTo(w, f[n]) /\ Elsewhere(w, f[n], b)
    BY <1>1
  <2> DEFINE x == Overwritten(f[n - 1], b.arch, b.entries[n].row, Just(b.comp, b.entries[n].val))
  <2>1. n \in DOMAIN b.entries
    BY <1>1
  <2>2. WroteTo(w, x)
    BY <2>1, WroteNext
  <2>3. Elsewhere(w, x, b)
    BY <2>1, ElsewhereNext
  <2>4. f[n] = x
    BY <1>2
  <2> HIDE DEF x
  <2>5. QED
    BY <2>2, <2>3, <2>4
<1> HIDE DEF S
<1>7. \A n \in 0 .. N : n \in S
  BY <1>1, <1>5, <1>6, UpTo
<1>8. QED
  BY <1>1, <1>3, <1>7 DEF S

LEMMA ValueAt ==
  ASSUME NEW w, Fit(w, {}), NEW e \in Live(w, {}), NEW c, c \in ArchAt(w, e).ids
  PROVE  Meaning(w, {})[e][c] = Row(w, e).vals[c]
<1> DEFINE vals == Row(w, e).vals
<1>1. vals \in On(V) /\ c \in DOMAIN vals
  BY LiveIs
<1>2. Meaning(w, {})[e] = Over(w, e, vals)
  BY MeaningAt
<1> HIDE DEF vals
<1>3. Over(w, e, vals)[c] = vals[c]
  BY <1>1, OverAt
<1>4. QED
  BY <1>2, <1>3 DEF vals

LEMMA FlushShows ==
  ASSUME NEW s, NEW tick, Sound(s, tick), NEW f, f = Flushed(s, tick), NEW t \in Nat, t < tick
  PROVE  Shows(t, s.w, f.w)
<1> DEFINE w == s.w
           b == s.batch
           x == Wrote(w, b)
           y == Marked(x, b.arch, {b.comp}, tick)
<1>1. IsState(s) /\ Fit(w, {}) /\ BatchFits(w, b) /\ w.tick = tick /\ tick \in Nat
  BY FitTick DEF Sound
<1>2. /\ Fit(x, {}) /\ SameRows(w, x) /\ Steady(w, x) /\ Live(x, {}) = Live(w, {})
      /\ x.loc = w.loc
  BY <1>1, WroteKeeps
<1>3. Elsewhere(w, x, b)
  BY <1>1, WroteElsewhere
<1>4. CASE b.entries = << >>
  <2>1. f = s
    BY <1>4 DEF Flushed
  <2>2. QED
    BY <1>1, <2>1, StaysShows
<1>5. CASE b.entries # << >>
  <2>1. f = [s EXCEPT !.w = y, !.batch = NoBatch]
    BY <1>5 DEF Flushed, Wrote
  <2>2. b.arch \in DOMAIN w.archs
    <3>1. b \in BatchType
      BY <1>1 DEF BatchFits
    <3>2. 1 \in DOMAIN b.entries
      BY <1>5, <3>1, BatchIs
    <3>3. QED
      BY <1>1, <3>2 DEF BatchFits
  <2> HIDE DEF x
  <2>3. b.arch \in DOMAIN x.archs /\ x.tick = tick
    BY <1>1, <1>2, <2>2 DEF SameRows, Steady
  <2>4. y = Marked(x, b.arch, {b.comp}, x.tick)
    BY <2>3
  <2> HIDE DEF y
  <2>5. f.w = y
    BY <1>1, <2>1 DEF IsState
  <2>6. MarkedFrom(x, y, {b.arch}, {b.comp}, x.tick) /\ Later(x, y)
    BY <1>2, <2>3, <2>4, MarkLater
  <2>7. Fit(y, {}) /\ Meaning(y, {}) = Meaning(x, {}) /\ Live(y, {}) = Live(x, {})
    <3>1. x.tick \in Nat /\ x.tick <= x.tick
      BY <1>1, <2>3
    <3>2. QED
      BY <1>2, <2>6, <3>1, MarkKeeps
  <2>8. Later(w, y)
    <3>1. Later(w, x)
      BY <1>1, <1>2, LaterWritten
    <3>2. QED
      BY <2>6, <3>1, LaterTwice
  <2> HIDE DEF w, b
  <2>9. ASSUME NEW e \in Live(y, {})
        PROVE  Shown(t, w, y, e)
    <3> DEFINE a == w.loc[e.idx].arch
               r == w.loc[e.idx].row
    <3>1. e \in Live(x, {}) /\ e \in Live(w, {}) /\ a = x.loc[e.idx].arch
      BY <1>2, <2>7
    <3>2. InRow(w, e, a, r) /\ InRow(x, e, a, r)
      BY <1>2 DEF InRow
    <3> HIDE DEF a, r
    <3>3. /\ a \in DOMAIN w.archs /\ r \in DOMAIN w.archs[a].rows
          /\ ArchAt(w, e) = w.archs[a] /\ Row(w, e) = w.archs[a].rows[r]
      BY ONLY <1>1, <3>1, <3>2, InRowIs
    <3>4. ArchAt(x, e) = x.archs[a] /\ Row(x, e) = x.archs[a].rows[r]
      BY ONLY <1>2, <3>1, <3>2, InRowIs
    <3>5. x.archs[a].ids = w.archs[a].ids
      BY <1>2, <3>3 DEF SameRows
    <3>6. CASE a = b.arch /\ b.comp = Key
      <4>1. x.loc[e.idx].arch \in {b.arch} /\ x.tick > t
        BY <1>1, <2>3, <3>1, <3>6
      <4>2. Fresh(t, y, e)
        BY <1>2, <2>6, <3>1, <3>6, <4>1, MarkFresh
      <4>3. QED
        BY <2>7, <4>2, FreshShown
    <3>7. CASE a # b.arch \/ Key # b.comp
      <4>1. \A c \in Components : c \in DOMAIN Meaning(y, {})[e] <=> c \in DOMAIN Meaning(w, {})[e]
        BY <1>1, <1>2, <2>7, <3>1, <3>3, <3>4, <3>5, HasColumn
      <4>2. ASSUME Key \in DOMAIN Meaning(w, {})[e]
            PROVE  Meaning(y, {})[e][Key] = Meaning(w, {})[e][Key]
        <5>1. Key \in w.archs[a].ids
          BY <1>1, <3>1, <3>3, <4>2, ValuesAre, HasColumn
        <5>2. x.archs[a].rows[r].vals[Key] = w.archs[a].rows[r].vals[Key]
          BY <1>3, <3>3, <3>7, <5>1 DEF Elsewhere
        <5>3. Meaning(w, {})[e][Key] = w.archs[a].rows[r].vals[Key]
          BY ONLY <1>1, <3>1, <3>3, <5>1, ValueAt
        <5>4. Meaning(x, {})[e][Key] = x.archs[a].rows[r].vals[Key]
          BY ONLY <1>2, <3>1, <3>4, <3>5, <5>1, ValueAt
        <5>5. QED
          BY <2>7, <5>2, <5>3, <5>4
      <4>3. SameKind(w, y, e)
        BY <4>1, <4>2 DEF SameKind
      <4>4. QED
        BY <1>1, <2>7, <2>8, <3>1, <4>3, StaysShown
    <3>8. QED
      BY <3>6, <3>7
  <2>10. Shows(t, w, y)
    BY <2>9 DEF Shows
  <2>11. QED
    BY <2>5, <2>10 DEF w
<1>6. QED
  BY <1>4, <1>5

LEMMA InsertShows ==
  ASSUME NEW s, NEW tick, Sound(s, tick), NEW x, x.ent \in H, x.vals \in On(V),
         NEW c, DOMAIN x.vals = {c}, NEW u, u = ApplyInsert(s, x, tick), NEW t \in Nat, t < tick
  PROVE  Shows(t, s.w, u.w)
<1> DEFINE e == x.ent
           vals == x.vals
           at == s.w.loc[e.idx]
           comp == CHOOSE d \in DOMAIN vals : TRUE
           entry == [row |-> at.row, val |-> vals[comp]]
           f == Flushed(s, tick)
           new == Overlay(vals, Row(f.w, e).vals)
           moved == Migrated(f.w, e, new)
           b == [arch |-> at.arch, comp |-> comp, entries |-> <<entry>>]
           more == More(s.batch, entry)
           mm == Marked(moved, ArchOf(moved, DOMAIN new), DOMAIN new, tick)
           Joins == s.batch.entries # << >> /\ s.batch.arch = at.arch /\ s.batch.comp = comp
<1>1. u = IF ~Located(s.w, e) THEN Fail(f)
          ELSE IF Joins THEN [s EXCEPT !.batch = more]
          ELSE IF comp \in ArchAt(s.w, e).ids THEN [f EXCEPT !.batch = b] ELSE [f EXCEPT !.w = mm]
  BY DEF ApplyInsert, More
<1>2. comp = c
  OBVIOUS
<1>3. IsState(s) /\ Fit(s.w, {}) /\ s.w.tick = tick
  BY SoundIs
<1>4. /\ Sound(f, tick) /\ SameColumns(s.w, f.w) /\ Live(f.w, {}) = Live(s.w, {})
      /\ Shows(t, s.w, f.w)
  BY FlushKeeps, FlushShows
<1> HIDE DEF f, comp, entry, b, more, Joins
<1>5. Fit(f.w, {}) /\ f.w.tick = tick /\ IsState(f)
  BY <1>4, SoundIs
<1>6. CASE ~Located(s.w, e)
  <2>1. u = Fail(f)
    BY <1>1, <1>6
  <2>2. u.w = f.w
    BY <1>5, <2>1, FailIs
  <2>3. QED
    BY <1>4, <2>2
<1>7. CASE Located(s.w, e) /\ Joins
  <2>1. u = [s EXCEPT !.batch = more]
    BY <1>1, <1>7
  <2>2. u.w = s.w
    BY <1>3, <2>1, BatchSet
  <2>3. QED
    BY <1>3, <2>2, StaysShows
<1>8. CASE Located(s.w, e) /\ ~Joins /\ comp \in ArchAt(s.w, e).ids
  <2>1. u = [f EXCEPT !.batch = b]
    BY <1>1, <1>8
  <2>2. u.w = f.w
    BY <1>5, <2>1, BatchSet
  <2>3. QED
    BY <1>4, <2>2
<1>9. CASE Located(s.w, e) /\ ~Joins /\ comp \notin ArchAt(s.w, e).ids
  <2>1. u = [f EXCEPT !.w = mm]
    BY <1>1, <1>9
  <2>2. e \in Live(s.w, {}) /\ e \in Live(f.w, {})
    BY <1>4, <1>9 DEF Live
  <2>3. ArchAt(f.w, e).ids = ArchAt(s.w, e).ids
    <3>1. at.arch \in DOMAIN s.w.archs
      BY <1>3, <2>2, LiveAt
    <3>2. QED
      BY <1>4, <3>1 DEF SameColumns, ArchAt
  <2>4. ~(DOMAIN vals \subseteq ArchAt(f.w, e).ids)
    BY <1>2, <1>9, <2>3
  <2>5. new = Overlay(vals, Row(f.w, e).vals) /\ moved = Migrated(f.w, e, new)
        /\ mm = Marked(moved, ArchOf(moved, DOMAIN new), DOMAIN new, f.w.tick) /\ t < f.w.tick
    BY <1>5
  <2> HIDE DEF new, moved, mm, at
  <2>6. Fit(mm, {}) /\ Shows(t, f.w, mm)
    BY <1>5, <2>2, <2>4, <2>5, AddKeeps, AddShows
  <2>7. Shows(t, s.w, mm)
    BY <1>4, <1>5, <2>6, ShowsTwice
  <2>8. u.w = mm
    BY <1>5, <2>1, WorldSet
  <2>9. QED
    BY <2>7, <2>8
<1>10. QED
  BY <1>6, <1>7, <1>8, <1>9

(* What the other mutations do to the world, when they do something.       *)
ShownBy(s, u, t, Guard, y) ==
  /\ IsState(s) /\ Fit(s.w, {})
  /\ u.w = s.w \/ (Guard /\ u.w = y)
  /\ Guard => Shows(t, s.w, y)

LEMMA ShownByShows ==
  ASSUME NEW s, NEW u, NEW t, NEW G, NEW y, ShownBy(s, u, t, G, y)
  PROVE  Shows(t, s.w, u.w)
BY StaysShows DEF ShownBy

LEMMA OtherShows ==
  ASSUME NEW w0, NEW s, NEW k, NEW tick, NEW D, Agree(w0, s, k, tick, D), ~s.failed, Clear(s, tick),
         NEW x, x.op # "insert", Valid(w0, x), x.op = "spawn" => x.ent \notin D,
         NEW u, u = ApplyOther(s, x, tick), NEW t \in Nat, t < tick
  PROVE  Shows(t, s.w, u.w)
<1> DEFINE e == x.ent
           w == s.w
<1>1. Since(w0, w, D) /\ KnownAt(w0, e) /\ e \in H
  BY DEF Agree, Valid, KnownAt
<1>2. IsState(s) /\ Fit(w, {}) /\ w.tick = tick /\ tick \in Nat
  BY ClearIs
<1>3. /\ IsAlive(w0, e) /\ e \notin D => IsAlive(w, e) /\ e.idx \notin w.free
      /\ (IsAlive(w0, e) => IsPlaced(w0, e)) => (IsAlive(w, e) <=> Located(w, e))
  <2> HIDE DEF w, e
  <2>1. QED
    BY <1>1, StillAlive
<1>4. Fail(s).w = w
  BY <1>2, FailIs
<1>5. \A y : [s EXCEPT !.w = y].w = y
  BY <1>2, WorldSet
<1>6. CASE x.op = "spawn"
  <2> DEFINE y == Placed(w, e, x.vals, tick)
  <2>1. u = IF IsPlaced(w, e) THEN Fail(s) ELSE [s EXCEPT !.w = y]
    BY <1>6 DEF ApplyOther
  <2>2. x.vals \in On(V) /\ IsAlive(w, e) /\ e.idx \notin w.free
    BY <1>3, <1>6 DEF Valid
  <2>3. y = Placed(w, e, x.vals, w.tick) /\ t < w.tick
    BY <1>2
  <2> HIDE DEF y
  <2>4. ~IsPlaced(w, e) => Shows(t, w, y)
    BY <1>1, <1>2, <2>2, <2>3, PlacedShows
  <2>5. ShownBy(s, u, t, ~IsPlaced(w, e), y)
    BY <1>2, <1>4, <1>5, <2>1, <2>4 DEF ShownBy
  <2>6. QED
    BY <2>5, ShownByShows
<1>7. CASE x.op = "despawn"
  <2> DEFINE y == Despawned(w, e)
  <2>1. u = IF Located(w, e) THEN [s EXCEPT !.w = y] ELSE Fail(s)
    BY <1>7 DEF ApplyOther
  <2>2. Located(w, e) => Shows(t, w, y)
    BY <1>1, <1>2, DespawnedShows DEF Live
  <2> HIDE DEF y
  <2>3. ShownBy(s, u, t, Located(w, e), y)
    BY <1>2, <1>4, <1>5, <2>1, <2>2 DEF ShownBy
  <2>4. QED
    BY <2>3, ShownByShows
<1>8. CASE x.op = "remove"
  <2> DEFINE c == x.comp
             kept == Only(Row(w, e).vals, ArchAt(w, e).ids \ {c})
             m == Migrated(w, e, kept)
             y == Marked(m, ArchOf(m, DOMAIN kept), DOMAIN kept, tick)
             G == Located(w, e) /\ c \in ArchAt(w, e).ids
  <2>1. u = IF ~Located(w, e) THEN Fail(s)
            ELSE IF c \notin ArchAt(w, e).ids THEN s ELSE [s EXCEPT !.w = y]
    BY <1>8 DEF ApplyOther, ApplyRemove
  <2>2. c \in Components
    BY <1>8 DEF Valid
  <2>3. /\ kept = Only(Row(w, e).vals, ArchAt(w, e).ids \ {c}) /\ m = Migrated(w, e, kept)
        /\ y = Marked(m, ArchOf(m, DOMAIN kept), DOMAIN kept, w.tick) /\ t < w.tick
    BY <1>2
  <2> HIDE DEF kept, m, y, c
  <2>4. ASSUME G
        PROVE  Shows(t, w, y)
    <3>1. e \in Live(w, {})
      BY <1>1, <2>4 DEF Live
    <3>2. QED
      BY <1>2, <2>2, <2>3, <2>4, <3>1, TakeMarkShows
  <2>5. u.w = w \/ (G /\ u.w = y)
    BY <1>4, <1>5, <2>1
  <2> HIDE DEF G
  <2>6. ShownBy(s, u, t, G, y)
    BY <1>2, <2>4, <2>5 DEF ShownBy
  <2>7. QED
    BY <2>6, ShownByShows
<1>9. CASE x.op = "sparse_insert"
  <2>1. PICK v \in V : x.vals = Just(Sparse, v)
    BY <1>9 DEF Valid
  <2> DEFINE y == SparseInserted(w, e, v)
  <2>2. x.vals[Sparse] = v
    BY <2>1, JustIs
  <2>3. u = IF IsAlive(w, e) THEN [s EXCEPT !.w = y] ELSE Fail(s)
    BY <1>9, <2>2 DEF ApplyOther
  <2>4. IsAlive(w, e) <=> Located(w, e)
    BY <1>3, <1>9 DEF Valid
  <2>5. IsAlive(w, e) => Shows(t, w, y)
    BY <1>1, <1>2, <2>4, SparseShows DEF Live
  <2> HIDE DEF y
  <2>6. ShownBy(s, u, t, IsAlive(w, e), y)
    BY <1>2, <1>4, <1>5, <2>3, <2>5 DEF ShownBy
  <2>7. QED
    BY <2>6, ShownByShows
<1>10. CASE x.op = "sparse_remove"
  <2> DEFINE y == SparseRemoved(w, e)
  <2>1. u = IF IsAlive(w, e) THEN [s EXCEPT !.w = y] ELSE Fail(s)
    BY <1>10 DEF ApplyOther
  <2>2. IsAlive(w, e) <=> Located(w, e)
    BY <1>3, <1>10 DEF Valid
  <2>3. IsAlive(w, e) => Shows(t, w, y)
    BY <1>1, <1>2, <2>2, SparseShows DEF Live
  <2> HIDE DEF y
  <2>4. ShownBy(s, u, t, IsAlive(w, e), y)
    BY <1>2, <1>4, <1>5, <2>1, <2>3 DEF ShownBy
  <2>5. QED
    BY <2>4, ShownByShows
<1>11. QED
  BY <1>6, <1>7, <1>8, <1>9, <1>10 DEF Valid

LEMMA ApplyShows ==
  ASSUME NEW w0, NEW s, NEW k, NEW tick, NEW D, Agree(w0, s, k, tick, D),
         NEW x, Valid(w0, x), x.op = "spawn" => x.ent \notin D, NEW t \in Nat, t < tick
  PROVE  Shows(t, s.w, ApplyOne(s, x, tick).w)
<1>1. Sound(s, tick) /\ IsState(s) /\ Fit(s.w, {}) /\ tick \in Nat
  BY SoundIs DEF Agree
<1>2. CASE s.failed
  <2>1. ApplyOne(s, x, tick) = s
    BY <1>2 DEF ApplyOne
  <2>2. QED
    BY <1>1, <2>1, StaysShows
<1>3. CASE ~s.failed /\ x.op = "insert"
  <2> DEFINE u == ApplyInsert(s, x, tick)
  <2>1. ApplyOne(s, x, tick) = MostHeld(u)
    BY <1>3 DEF ApplyOne
  <2>2. Agree(w0, u, MeantBy(k, x), tick, D)
    BY <1>3, InsertAgrees
  <2>3. IsState(u)
    BY <2>2, SoundIs DEF Agree
  <2>4. x.ent \in H /\ x.vals \in On(V) /\ \E c : DOMAIN x.vals = {c}
    BY <1>3 DEF Valid, KnownAt
  <2>5. Shows(t, s.w, u.w)
    BY <1>1, <2>4, InsertShows
  <2> HIDE DEF u
  <2>6. MostHeld(u).w = u.w
    BY <2>3, MostHeldIs
  <2>7. QED
    BY <2>1, <2>5, <2>6
<1>4. CASE ~s.failed /\ x.op # "insert"
  <2> DEFINE f == Flushed(s, tick)
             u == ApplyOther(f, x, tick)
  <2>1. ApplyOne(s, x, tick) = MostHeld(u)
    BY <1>4 DEF ApplyOne
  <2>2. Agree(w0, f, k, tick, D) /\ Clear(f, tick) /\ f.failed = s.failed
    BY AgreeFlushed
  <2>3. Shows(t, s.w, f.w)
    BY <1>1, FlushShows
  <2> HIDE DEF f
  <2>4. Agree(w0, u, MeantBy(k, x), tick, Buried(D, x))
    BY <1>4, <2>2, OtherAgrees
  <2>5. Shows(t, f.w, u.w)
    BY <1>4, <2>2, OtherShows
  <2> HIDE DEF u
  <2>6. IsState(u) /\ Fit(u.w, {}) /\ Fit(f.w, {})
    BY <2>2, <2>4, SoundIs, ClearIs DEF Agree
  <2>7. MostHeld(u).w = u.w
    BY <2>6, MostHeldIs
  <2>8. Shows(t, s.w, u.w)
    BY <2>3, <2>5, <2>6, ShowsTwice
  <2>9. QED
    BY <2>1, <2>7, <2>8
<1>5. QED
  BY <1>2, <1>3, <1>4

LEMMA AppliedGoes ==
  ASSUME NEW w, Fit(w, {}), NEW muts, Sensible(w, muts), NEW done, done = Applied(w, muts)
  PROVE  Goes(w, done.w)
<1> DEFINE t == NextTick(w)
           tick == t.tick
           m == Meaning(w, {})
           N == Len(muts)
           a == Applying(w, muts)
           k == Meant(m, muts)
           S == {n \in 0 .. N : Shows(w.tick, t, a[n].w)}
<1>1. N \in Nat /\ DOMAIN muts = 1 .. N
  BY DEF Sensible
<1>2. a[0] = MostHeld(Started(t)) /\ \A n \in 1 .. N : a[n] = ApplyOne(a[n - 1], muts[n], tick)
  BY <1>1, ApplyingUnfolds
<1>3. done = Flushed(a[N], tick)
  BY DEF Applied
<1>4. Fit(t, {}) /\ w.tick \in Nat /\ tick \in Nat /\ w.tick < tick /\ t = NextTick(w)
  BY TickIs
<1>5. \A n \in 0 .. N : Agree(w, a[n], k[n], tick, BuriedBy(muts, n))
  BY ApplyingAgrees
<1> HIDE DEF a, k, m, tick, t, N
<1>6. \A n \in 0 .. N : Sound(a[n], tick) /\ Fit(a[n].w, {})
  BY <1>5, SoundIs DEF Agree
<1>7. 0 \in S
  <2>1. Started(t).w = t /\ IsState(Started(t))
    BY DEF Started, IsState
  <2>2. a[0].w = t
    BY <1>2, <2>1, MostHeldIs
  <2>3. QED
    BY <1>1, <1>4, <2>2, StaysShows
<1>8. ASSUME NEW n \in 1 .. N, n - 1 \in S
      PROVE  n \in S
  <2> DEFINE s == a[n - 1]
             l == k[n - 1]
             x == muts[n]
             D == BuriedBy(muts, n - 1)
  <2>1. n - 1 \in 0 .. N /\ n \in 0 .. N
    BY <1>1
  <2>2. Agree(w, s, l, tick, D) /\ Shows(w.tick, t, s.w) /\ Fit(s.w, {}) /\ Fit(a[n].w, {})
    BY <1>5, <1>6, <1>8, <2>1
  <2>3. Valid(w, x) /\ (x.op = "spawn" => x.ent \notin D)
    BY MutationAt DEF N
  <2>4. a[n] = ApplyOne(s, x, tick)
    BY <1>2
  <2> HIDE DEF s, l, x, D
  <2>5. Shows(w.tick, s.w, a[n].w)
    BY <1>4, <2>2, <2>3, <2>4, ApplyShows
  <2>6. Shows(w.tick, t, a[n].w)
    BY <1>4, <2>2, <2>5, ShowsTwice
  <2>7. QED
    BY <2>1, <2>6
<1> HIDE DEF S
<1>9. \A n \in 1 .. N : n - 1 \in S => n \in S
  BY <1>8
<1>10. \A n \in 0 .. N : n \in S
  BY <1>1, <1>7, <1>9, UpTo
<1> DEFINE s == a[N]
<1>11. Shows(w.tick, t, s.w) /\ Sound(s, tick) /\ Fit(s.w, {})
  BY <1>1, <1>6, <1>10 DEF S
<1>12. done = Flushed(s, tick)
  BY <1>3
<1> HIDE DEF s
<1>13. Sound(done, tick) /\ Shows(w.tick, s.w, done.w)
  BY <1>4, <1>11, <1>12, FlushKeeps, FlushShows
<1>14. Fit(done.w, {}) /\ done.w.tick = tick
  BY <1>13, SoundIs
<1>15. Shows(w.tick, t, done.w)
  BY <1>4, <1>11, <1>13, <1>14, ShowsTwice
<1>16. t.tick <= done.w.tick
  BY <1>4, <1>14 DEF tick
<1>17. QED
  BY <1>4, <1>14, <1>15, <1>16, FromTick

-----------------------------------------------------------------------------
(***************************************************************************)
(* The readers.                                                            *)
(***************************************************************************)
(* E are entities that a reader with read tick k would visit.              *)
Ahead(w, E, k) ==
  \A e \in E : e \in Live(w, {}) /\ Key \in DOMAIN Meaning(w, {})[e] /\ KeyTick(w, e) > k

(* Both directions of an index agree.                                      *)
Mirrors(ix) ==
  /\ DOMAIN ix.rev \subseteq H
  /\ \A v \in Values : ix.tree[v] = {e \in DOMAIN ix.rev : ix.rev[e] = v}

(* The index has the value of every key not rewritten since its tick.      *)
UpToDate(w, ix) ==
  \A e \in Live(w, {}) : Key \in DOMAIN Meaning(w, {})[e] =>
    KeyTick(w, e) > ix.sync \/ (e \in DOMAIN ix.rev /\ ix.rev[e] = Meaning(w, {})[e][Key])

(* A step that shows its changes leaves behind no entity that a reader     *)
(* would have visited, nor one whose key it changed.                       *)
LEMMA AheadGoes ==
  ASSUME NEW w, Fit(w, {}), NEW u, Fit(u, {}), Goes(w, u), NEW k \in Nat, k <= w.tick,
         NEW E, Ahead(w, E, k), NEW F,
         \A e \in F :
           /\ e \in Live(u, {}) /\ Key \in DOMAIN Meaning(u, {})[e]
           /\ \/ e \in E
              \/ e \notin Live(w, {})
              \/ Key \notin DOMAIN Meaning(w, {})[e]
              \/ Meaning(w, {})[e][Key] # Meaning(u, {})[e][Key]
  PROVE  Ahead(u, F, k)
<1> SUFFICES ASSUME NEW e \in F PROVE KeyTick(u, e) > k
  BY DEF Ahead
<1> DEFINE x == KeyTick(w, e)
           y == KeyTick(u, e)
<1>1. e \in Live(u, {}) /\ Key \in DOMAIN Meaning(u, {})[e] /\ w.tick \in Nat
  BY WorldFields DEF Fit
<1>2. y \in Nat
  BY <1>1, KeyTickIs
<1>3. Shown(w.tick, w, u, e)
  BY <1>1 DEF Goes, Shows
<1>4. CASE y > w.tick
  BY <1>1, <1>2, <1>4
<1>5. CASE AsBefore(w, u, e)
  <2>1. e \in E /\ x \in Nat /\ x <= y
    BY <1>5 DEF AsBefore
  <2>2. x > k
    BY <2>1 DEF Ahead
  <2> HIDE DEF x, y
  <2>3. y > k
    BY <1>2, <2>1, <2>2
  <2>4. QED
    BY <2>3 DEF y
<1>6. QED
  BY <1>1, <1>3, <1>4, <1>5 DEF Shown

LEMMA UpToDateGoes ==
  ASSUME NEW w, Fit(w, {}), NEW u, Fit(u, {}), Goes(w, u), NEW ix, ix.sync \in Nat,
         ix.sync <= w.tick, UpToDate(w, ix)
  PROVE  UpToDate(u, ix)
<1> DEFINE k == ix.sync
<1> SUFFICES ASSUME NEW e \in Live(u, {}), Key \in DOMAIN Meaning(u, {})[e]
             PROVE  KeyTick(u, e) > k \/ (e \in DOMAIN ix.rev /\ ix.rev[e] = Meaning(u, {})[e][Key])
  BY DEF UpToDate
<1> DEFINE x == KeyTick(w, e)
           y == KeyTick(u, e)
<1>1. k \in Nat /\ w.tick \in Nat /\ k <= w.tick
  BY WorldFields DEF Fit
<1>2. y \in Nat
  BY KeyTickIs
<1>3. Shown(w.tick, w, u, e)
  BY DEF Goes, Shows
<1>4. CASE y > w.tick
  <2> HIDE DEF k, y
  <2>1. y > k
    BY <1>1, <1>2, <1>4
  <2>2. QED
    BY <2>1 DEF y
<1>5. CASE AsBefore(w, u, e)
  <2>1. /\ e \in Live(w, {}) /\ Key \in DOMAIN Meaning(w, {})[e] /\ x \in Nat /\ x <= y
        /\ Meaning(u, {})[e][Key] = Meaning(w, {})[e][Key]
    BY <1>5 DEF AsBefore
  <2>2. x > k \/ (e \in DOMAIN ix.rev /\ ix.rev[e] = Meaning(w, {})[e][Key])
    BY <2>1 DEF UpToDate
  <2>3. x > k => y > k
    <3> HIDE DEF k, x, y
    <3>1. QED
      BY <1>1, <1>2, <2>1
  <2>4. QED
    BY <2>1, <2>2, <2>3
<1>6. QED
  BY <1>3, <1>4, <1>5 DEF Shown

(* The archetypes with a newer key column hold the entities to visit.      *)
LEMMA HavingHas ==
  ASSUME NEW w, Fit(w, {}), NEW e \in Live(w, {}), Key \in DOMAIN Meaning(w, {})[e]
  PROVE  w.loc[e.idx].arch \in Having(w, Key)
<1> DEFINE a == w.loc[e.idx].arch
           r == w.loc[e.idx].row
<1>1. a \in DOMAIN w.archs /\ r \in DOMAIN w.archs[a].rows
  BY LiveAt
<1>2. Key \in w.archs[a].ids
  BY KeyIsStored, HasColumn DEF ArchAt
<1>3. w.archs[a].rows # << >>
  BY <1>1
<1>4. QED
  BY <1>1, <1>2, <1>3 DEF Having

LEMMA Visited ==
  ASSUME NEW w, Fit(w, {}), NEW E, NEW k, Ahead(w, E, k)
  PROVE  E \ EntitiesOf(w, ChangedSince(w, Key, k)) = {}
<1> DEFINE A == ChangedSince(w, Key, k)
<1>1. A \subseteq DOMAIN w.archs
  BY DEF ChangedSince, Having
<1>2. ASSUME NEW e \in E
      PROVE  e \in EntitiesOf(w, A)
  <2>1. e \in Live(w, {}) /\ Key \in DOMAIN Meaning(w, {})[e] /\ KeyTick(w, e) > k
    BY DEF Ahead
  <2>2. w.loc[e.idx].arch \in A
    BY <2>1, HavingHas DEF KeyTick, ArchAt, ChangedSince
  <2> HIDE DEF A
  <2>3. QED
    BY <1>1, <2>1, <2>2, EntitiesAt
<1>3. QED
  BY <1>2

(* The value an update of the index reads for an entity it finds.          *)
FoundKey(w, A, e) == (CHOOSE r \in RowsOf(w, A) : r.ent = e).vals[Key]

LEMMA FoundKeyIs ==
  ASSUME NEW w, Fit(w, {}), NEW A, A \subseteq Having(w, Key), NEW e, e \in EntitiesOf(w, A)
  PROVE  /\ e \in Live(w, {}) /\ Key \in DOMAIN Meaning(w, {})[e]
         /\ FoundKey(w, A, e) = Meaning(w, {})[e][Key]
<1> DEFINE x == CHOOSE r \in RowsOf(w, A) : r.ent = e
<1>1. \E r \in RowsOf(w, A) : r.ent = e
  BY DEF EntitiesOf
<1>2. x \in RowsOf(w, A) /\ x.ent = e
  BY <1>1
<1>3. FoundKey(w, A, e) = x.vals[Key]
  BY DEF FoundKey
<1> HIDE DEF x
<1>4. PICK a \in A : \E q \in DOMAIN w.archs[a].rows : w.archs[a].rows[q] = x
  BY <1>2 DEF RowsOf, Range
<1>5. PICK q \in DOMAIN w.archs[a].rows : w.archs[a].rows[q] = x
  BY <1>4
<1>6. a \in DOMAIN w.archs /\ Key \in w.archs[a].ids
  BY <1>4 DEF Having
<1>7. e \in Live(w, {}) /\ w.loc[e.idx] = [arch |-> a, row |-> q]
  BY <1>2, <1>5, <1>6, RowIsLive
<1>8. InRow(w, e, a, q)
  BY <1>7 DEF InRow
<1>9. ArchAt(w, e) = w.archs[a] /\ Row(w, e) = x
  BY <1>5, <1>7, <1>8, InRowIs
<1>10. Key \in ArchAt(w, e).ids
  BY <1>6, <1>9
<1>11. Key \in DOMAIN Meaning(w, {})[e]
  BY <1>7, <1>10, KeyIsStored, HasColumn
<1>12. Meaning(w, {})[e][Key] = x.vals[Key]
  BY <1>7, <1>9, <1>10, ValueAt
<1>13. QED
  BY <1>3, <1>7, <1>11, <1>12

LEMMA OverlayParts ==
  ASSUME NEW f, NEW g
  PROVE  /\ DOMAIN Overlay(f, g) = DOMAIN f \cup DOMAIN g
         /\ \A e \in DOMAIN f : Overlay(f, g)[e] = f[e]
         /\ \A e \in DOMAIN g : e \notin DOMAIN f => Overlay(f, g)[e] = g[e]
BY DEF Overlay

LEMMA ReindexedFields ==
  ASSUME NEW ix, NEW w, NEW A, NEW found, found = [e \in EntitiesOf(w, A) |-> FoundKey(w, A, e)],
         NEW u, u = Reindexed(ix, w, A)
  PROVE  /\ u.sync = w.tick /\ u.rev = Overlay(found, ix.rev)
         /\ \A v \in Values : u.tree[v] =
              {e \in ix.tree[v] : ~ (e \in DOMAIN found /\ e \in DOMAIN ix.rev /\ ix.rev[e] = v)}
                \cup {e \in DOMAIN found : found[e] = v}
BY DEF Reindexed, FoundKey

LEMMA ReindexedMirrors ==
  ASSUME NEW ix, Mirrors(ix), NEW w, Fit(w, {}), NEW A, A \subseteq Having(w, Key),
         NEW u, u = Reindexed(ix, w, A)
  PROVE  Mirrors(u)
<1> DEFINE found == [e \in EntitiesOf(w, A) |-> FoundKey(w, A, e)]
<1>1. DOMAIN found \subseteq H
  BY FoundKeyIs DEF Live
<1> HIDE DEF found
<1>2. /\ u.rev = Overlay(found, ix.rev)
      /\ \A v \in Values : u.tree[v] =
           {e \in ix.tree[v] : ~ (e \in DOMAIN found /\ e \in DOMAIN ix.rev /\ ix.rev[e] = v)}
             \cup {e \in DOMAIN found : found[e] = v}
  BY ReindexedFields DEF found
<1>3. /\ DOMAIN u.rev = DOMAIN found \cup DOMAIN ix.rev
      /\ \A e \in DOMAIN found : u.rev[e] = found[e]
      /\ \A e \in DOMAIN ix.rev : e \notin DOMAIN found => u.rev[e] = ix.rev[e]
  <2> DEFINE rev == ix.rev
  <2>1. u.rev = Overlay(found, rev)
    BY <1>2
  <2> HIDE DEF rev
  <2>2. /\ DOMAIN Overlay(found, rev) = DOMAIN found \cup DOMAIN rev
        /\ \A e \in DOMAIN found : Overlay(found, rev)[e] = found[e]
        /\ \A e \in DOMAIN rev : e \notin DOMAIN found => Overlay(found, rev)[e] = rev[e]
    BY OverlayParts
  <2>3. QED
    BY <2>1, <2>2 DEF rev
<1>4. ASSUME NEW v \in Values, NEW e
      PROVE  e \in u.tree[v] <=> e \in DOMAIN u.rev /\ u.rev[e] = v
  <2>1. e \in ix.tree[v] <=> e \in DOMAIN ix.rev /\ ix.rev[e] = v
    BY DEF Mirrors
  <2>2. e \in u.tree[v] <=>
          \/ /\ e \in ix.tree[v]
             /\ ~ (e \in DOMAIN found /\ e \in DOMAIN ix.rev /\ ix.rev[e] = v)
          \/ e \in DOMAIN found /\ found[e] = v
    BY <1>2
  <2>3. QED
    BY <1>3, <2>1, <2>2
<1>5. \A v \in Values : u.tree[v] = {e \in DOMAIN u.rev : u.rev[e] = v}
  <2> SUFFICES ASSUME NEW v \in Values PROVE u.tree[v] = {e \in DOMAIN u.rev : u.rev[e] = v}
    OBVIOUS
  <2>1. \A e : e \in u.tree[v] <=> e \in {f \in DOMAIN u.rev : u.rev[f] = v}
    BY <1>4
  <2>2. u.tree[v] = {x \in ix.tree[v] : ~ (x \in DOMAIN found /\ x \in DOMAIN ix.rev /\ ix.rev[x] = v)}
                      \cup {x \in DOMAIN found : found[x] = v}
    BY <1>2
  <2>3. QED
    BY <2>1, <2>2
<1>6. DOMAIN u.rev \subseteq H
  BY <1>1, <1>3 DEF Mirrors
<1>7. QED
  BY <1>5, <1>6 DEF Mirrors

(* What an update of the index leaves out, the index had already.          *)
LEMMA ReindexedUpToDate ==
  ASSUME NEW ix, NEW w, Fit(w, {}), NEW A, A \subseteq Having(w, Key),
         \A e \in Live(w, {}) : Key \in DOMAIN Meaning(w, {})[e] =>
           w.loc[e.idx].arch \in A \/ (e \in DOMAIN ix.rev /\ ix.rev[e] = Meaning(w, {})[e][Key]),
         NEW u, u = Reindexed(ix, w, A)
  PROVE  UpToDate(w, u)
<1> DEFINE found == [e \in EntitiesOf(w, A) |-> FoundKey(w, A, e)]
<1>1. \A e \in DOMAIN found : found[e] = Meaning(w, {})[e][Key]
  BY FoundKeyIs
<1>2. A \subseteq DOMAIN w.archs
  BY DEF Having
<1>3. \A e \in Live(w, {}) : w.loc[e.idx].arch \in A => e \in DOMAIN found
  BY <1>2, EntitiesAt
<1> HIDE DEF found
<1>4. u.rev = Overlay(found, ix.rev)
  BY ReindexedFields DEF found
<1>5. /\ DOMAIN u.rev = DOMAIN found \cup DOMAIN ix.rev
      /\ \A e \in DOMAIN found : u.rev[e] = found[e]
      /\ \A e \in DOMAIN ix.rev : e \notin DOMAIN found => u.rev[e] = ix.rev[e]
  <2> DEFINE rev == ix.rev
  <2>1. u.rev = Overlay(found, rev)
    BY <1>4
  <2> HIDE DEF rev
  <2>2. /\ DOMAIN Overlay(found, rev) = DOMAIN found \cup DOMAIN rev
        /\ \A e \in DOMAIN found : Overlay(found, rev)[e] = found[e]
        /\ \A e \in DOMAIN rev : e \notin DOMAIN found => Overlay(found, rev)[e] = rev[e]
    BY OverlayParts
  <2>3. QED
    BY <2>1, <2>2 DEF rev
<1> SUFFICES ASSUME NEW e \in Live(w, {}), Key \in DOMAIN Meaning(w, {})[e]
             PROVE  e \in DOMAIN u.rev /\ u.rev[e] = Meaning(w, {})[e][Key]
  BY DEF UpToDate
<1>6. CASE e \in DOMAIN found
  BY <1>1, <1>5, <1>6
<1>7. CASE e \notin DOMAIN found
  BY <1>3, <1>5, <1>7
<1>8. QED
  BY <1>6, <1>7

LEMMA UpdatedIndex ==
  ASSUME NEW ix, Mirrors(ix), NEW w, Fit(w, {}), UpToDate(w, ix),
         NEW u, u = Reindexed(ix, w, ChangedSince(w, Key, ix.sync))
  PROVE  Mirrors(u) /\ UpToDate(w, u) /\ u.sync = w.tick
<1> DEFINE A == ChangedSince(w, Key, ix.sync)
<1>1. A \subseteq Having(w, Key)
  BY DEF ChangedSince
<1>2. ASSUME NEW e \in Live(w, {}), Key \in DOMAIN Meaning(w, {})[e], KeyTick(w, e) > ix.sync
      PROVE  w.loc[e.idx].arch \in A
  BY <1>2, HavingHas DEF KeyTick, ArchAt, ChangedSince
<1>3. u.sync = w.tick
  BY DEF Reindexed
<1> HIDE DEF A
<1>4. \A e \in Live(w, {}) : Key \in DOMAIN Meaning(w, {})[e] =>
        w.loc[e.idx].arch \in A \/ (e \in DOMAIN ix.rev /\ ix.rev[e] = Meaning(w, {})[e][Key])
  BY <1>2 DEF UpToDate
<1>5. u = Reindexed(ix, w, A)
  BY DEF A
<1>6. QED
  BY <1>1, <1>3, <1>4, <1>5, ReindexedMirrors, ReindexedUpToDate

LEMMA EmptyIndexMirrors == Mirrors(EmptyIndex) /\ EmptyIndex.sync = 0 /\ DOMAIN EmptyIndex.rev = {}
<1>1. EmptyIndex.rev = << >> /\ \A v \in Values : EmptyIndex.tree[v] = {}
  BY DEF EmptyIndex
<1>2. DOMAIN EmptyIndex.rev = {}
  BY <1>1
<1>3. QED
  BY <1>1, <1>2 DEF Mirrors, EmptyIndex

LEMMA RebuiltIndex ==
  ASSUME NEW w, Fit(w, {}), NEW u, u = Reindexed(EmptyIndex, w, Having(w, Key))
  PROVE  Mirrors(u) /\ UpToDate(w, u) /\ u.sync = w.tick
<1> DEFINE A == Having(w, Key)
           ix == EmptyIndex
<1>1. \A e \in Live(w, {}) : Key \in DOMAIN Meaning(w, {})[e] => w.loc[e.idx].arch \in A
  BY HavingHas
<1>2. Mirrors(ix) /\ A \subseteq Having(w, Key) /\ u = Reindexed(ix, w, A)
  BY EmptyIndexMirrors
<1>3. u.sync = w.tick
  BY DEF Reindexed
<1> HIDE DEF A, ix
<1>4. QED
  BY <1>1, <1>2, <1>3, ReindexedMirrors, ReindexedUpToDate

(* The read tick that the subject's next visit starts from.                *)
ReadTick ==
  IF subject = "query" THEN Baseline ELSE IF subject = "writer" THEN writer ELSE view.last

ReadTicks == {Baseline, writer, view.last, index.sync} \subseteq 0 .. world.tick

IsView(x) == x = [last |-> x.last, cached |-> x.cached, populated |-> x.populated,
                  policy |-> x.policy, since |-> x.since]

(* Read ticks are in the past, what a reader has not seen is ahead of its  *)
(* tick, and the index has what it has not yet to read.                    *)
Watching ==
  /\ Kept
  /\ ReadTicks
  /\ IsView(view)
  /\ subject \notin {"query", "writer", "plan"} => unseen = {}
  /\ Ahead(world, unseen, ReadTick)
  /\ subject = "index" => Mirrors(index) /\ UpToDate(world, index)

LEMMA ReadTickIs ==
  ASSUME Watching
  PROVE  /\ ReadTick \in Nat /\ ReadTick <= world.tick /\ world.tick \in Nat
         /\ index.sync \in Nat /\ index.sync <= world.tick
         /\ \A n \in Nat : world.tick <= n => {Baseline, writer, view.last, index.sync} \subseteq 0 .. n
<1>1. world.tick \in Nat
  BY WorldFields DEF Watching, Kept, Fit
<1> DEFINE a == Baseline
           b == writer
           c == view.last
           d == index.sync
<1>2. a \in 0 .. world.tick /\ b \in 0 .. world.tick /\ c \in 0 .. world.tick /\ d \in 0 .. world.tick
  BY DEF Watching, ReadTicks
<1>3. ReadTick = a \/ ReadTick = b \/ ReadTick = c
  BY DEF ReadTick
<1> HIDE DEF a, b, c, d
<1>4. \A n \in Nat : world.tick <= n => {a, b, c, d} \subseteq 0 .. n
  BY <1>1, <1>2
<1>5. /\ ReadTick \in Nat /\ ReadTick <= world.tick
      /\ d \in Nat /\ d <= world.tick
  BY <1>1, <1>2, <1>3
<1>6. QED
  BY <1>1, <1>4, <1>5 DEF a, b, c, d

(* Every call on the storage that shows its changes keeps the readers'     *)
(* part.                                                                   *)
LEMMA BecomesWatching ==
  ASSUME Watching, NEW w, NEW m, Becomes(w, m), Kept', Goes(world, w)
  PROVE  Watching'
<1>1. /\ world' = w /\ truth' = m /\ subject' = subject /\ query' = query /\ writer' = writer
      /\ index' = index /\ view' = view
  BY DEF Becomes
<1>2. Fit(w, {}) /\ m = Meaning(w, {}) /\ Fit(world, {}) /\ truth = Meaning(world, {})
  BY <1>1 DEF Watching, Kept
<1>3. ReadTick' = ReadTick /\ Baseline' = Baseline
  BY <1>1 DEF ReadTick, Baseline
<1>4. ReadTicks'
  <2>1. w.tick \in Nat /\ world.tick <= w.tick
    BY <1>2, WorldFields DEF Fit, Goes
  <2>2. {Baseline, writer, view.last, index.sync} \subseteq 0 .. w.tick
    BY <2>1, ReadTickIs
  <2>3. QED
    BY <1>1, <1>3, <2>2 DEF ReadTicks
<1>5. subject' \notin {"query", "writer", "plan"} => unseen' = {}
  BY <1>1 DEF Becomes
<1>6. Ahead(w, unseen', ReadTick)
  <2> DEFINE F == unseen'
  <2>1. \A e \in F :
          /\ e \in Live(w, {}) /\ Key \in DOMAIN Meaning(w, {})[e]
          /\ \/ e \in unseen
             \/ e \notin Live(world, {})
             \/ Key \notin DOMAIN Meaning(world, {})[e]
             \/ Meaning(world, {})[e][Key] # Meaning(w, {})[e][Key]
    <3>1. DOMAIN m = Live(w, {}) /\ DOMAIN truth = Live(world, {})
      BY <1>2, MeaningIs
    <3>2. \A e \in F : e \in DOMAIN m /\ Key \in DOMAIN m[e] /\ (e \in unseen \/ e \in Touched(m))
      BY DEF Becomes
    <3>3. \A e \in Touched(m) :
            e \notin DOMAIN truth \/ Key \notin DOMAIN truth[e] \/ truth[e][Key] # m[e][Key]
      BY DEF Touched
    <3> HIDE DEF F
    <3>4. QED
      BY <1>2, <3>1, <3>2, <3>3
  <2> HIDE DEF F
  <2>2. Ahead(world, unseen, ReadTick) /\ ReadTick \in Nat /\ ReadTick <= world.tick
    BY ReadTickIs DEF Watching
  <2>3. Ahead(w, F, ReadTick)
    BY <1>2, <2>1, <2>2, AheadGoes
  <2>4. QED
    BY <2>3 DEF F
<1>7. subject = "index" => Mirrors(index) /\ UpToDate(w, index)
  BY <1>2, ReadTickIs, UpToDateGoes DEF Watching
<1>8. QED
  BY <1>1, <1>3, <1>4, <1>5, <1>6, <1>7 DEF Watching

(* A step that leaves the storage and the entities not seen alone.         *)
LEMMA StillWatching ==
  ASSUME Watching, Kept', Goes(world, world'), truth' = truth, UNCHANGED <<subject, unseen>>,
         ReadTick' \in Nat, ReadTick' <= ReadTick, ReadTicks', IsView(view'),
         subject = "index" => Mirrors(index') /\ UpToDate(world', index')
  PROVE  Watching'
<1> DEFINE w == world'
<1>1. Fit(w, {}) /\ Fit(world, {}) /\ Meaning(w, {}) = Meaning(world, {})
  BY DEF Watching, Kept
<1>2. \A e \in unseen :
        /\ e \in Live(w, {}) /\ Key \in DOMAIN Meaning(w, {})[e]
  BY <1>1, MeaningIs DEF Watching, Ahead
<1>3. Ahead(world, unseen, ReadTick) /\ ReadTick \in Nat /\ ReadTick <= world.tick
  BY ReadTickIs DEF Watching
<1>4. Goes(world, w)
  OBVIOUS
<1> HIDE DEF w
<1>5. Ahead(w, unseen, ReadTick)
  BY <1>1, <1>2, <1>3, <1>4, AheadGoes
<1> DEFINE k == ReadTick
           l == ReadTick'
<1>6. Ahead(w, unseen, l)
  <2> SUFFICES ASSUME NEW e \in unseen PROVE KeyTick(w, e) > l
    BY <1>2 DEF Ahead
  <2> DEFINE y == KeyTick(w, e)
  <2>1. y \in Nat /\ y > k /\ k \in Nat /\ l \in Nat /\ l <= k
    BY <1>1, <1>2, <1>3, <1>5, KeyTickIs DEF Ahead
  <2> HIDE DEF k, l, y
  <2>2. y > l
    BY <2>1
  <2>3. QED
    BY <2>2 DEF y
<1>7. QED
  BY <1>6 DEF Watching, w

(* The calls that change the storage.                                      *)
LEMMA StorageCallsWatch ==
  ASSUME Removable \subseteq {Key}, Watching,
         \/ \E s \in Slots : AllocEntity(s) \/ \E vals \in Carried : Spawn(s, vals)
         \/ \E s, t \in Slots, vals \in Carried : SpawnBatch(s, t, vals)
         \/ \E e \in Present : Despawn(e)
         \/ \E E \in Batches : DespawnBatch(E) \/ \E v \in Values : GetBatchMut(E, v)
         \/ \E e \in Present, v \in Values : GetMut(e, v)
         \/ \E ids \in Tables, v \in Values : QueryTableMut(ids, v)
         \/ \E e \in Present, vals \in Carried : Insert(e, vals)
         \/ \E e \in Present, c \in Removable : RemoveFrom(e, c)
         \/ \E e \in Present, v \in SparseValues : InsertSparse(e, v)
         \/ \E v \in Values : QueryMut(v)
  PROVE  Watching'
<1>1. Kept /\ Fit(world, {}) /\ world.tick \in Nat /\ Values \subseteq V /\ SparseValues \subseteq V
  BY ReadTickIs, ValuesAre DEF Watching, Kept
<1>2. ASSUME NEW s \in Slots, AllocEntity(s)
      PROVE  Watching'
  <2> DEFINE w == Allocated(world, s)
  <2>1. Becomes(w, truth) /\ Kept'
    BY <1>1, <1>2, AllocEntityKeeps DEF AllocEntity
  <2>2. Goes(world, w)
    BY <1>1, AllocatedGoes
  <2> HIDE DEF w
  <2>3. QED
    BY <2>1, <2>2, BecomesWatching
<1>3. ASSUME NEW s \in Slots, NEW vals \in Carried, Spawn(s, vals)
      PROVE  Watching'
  <2> DEFINE w == Spawned(world, s, vals)
  <2>1. s \in world.free /\ Kept' /\ Becomes(w, Given(truth, Handle(world, s), vals))
    BY <1>1, <1>3, SpawnKeeps DEF Spawn
  <2>2. Goes(world, w)
    BY <1>1, <2>1, CarriedIs, SpawnedGoes
  <2> HIDE DEF w
  <2>3. QED
    BY <2>1, <2>2, BecomesWatching
<1>4. ASSUME NEW s \in Slots, NEW t \in Slots, NEW vals \in Carried, SpawnBatch(s, t, vals)
      PROVE  Watching'
  <2> DEFINE w == Spawned(Spawned(world, s, vals), t, vals)
             m == Given(Given(truth, Handle(world, s), vals), Handle(world, t), vals)
  <2>1. s # t /\ s \in world.free /\ t \in world.free /\ Kept' /\ Becomes(w, m)
    BY <1>1, <1>4, SpawnBatchKeeps DEF SpawnBatch
  <2>2. Goes(world, w)
    BY <1>1, <2>1, CarriedIs, SpawnedTwiceGoes
  <2> HIDE DEF w, m
  <2>3. QED
    BY <2>1, <2>2, BecomesWatching
<1>5. ASSUME NEW e \in Present, Despawn(e)
      PROVE  Watching'
  <2> DEFINE w == Despawned(world, e)
  <2>1. Kept' /\ Becomes(w, Gone(truth, {e}))
    BY <1>1, <1>5, DespawnKeeps DEF Despawn
  <2>2. Goes(world, w)
    BY <1>1, PresentLive, DespawnedShows DEF Goes
  <2> HIDE DEF w
  <2>3. QED
    BY <2>1, <2>2, BecomesWatching
<1>6. ASSUME NEW E \in Batches
      PROVE  E \subseteq Live(world, {})
  BY <1>6, PresentLive DEF Batches
<1>7. ASSUME NEW E \in Batches, DespawnBatch(E)
      PROVE  Watching'
  <2> DEFINE w == DespawnedBatch(world, E)
  <2>1. Kept' /\ Becomes(w, Gone(truth, E))
    BY <1>1, <1>7, DespawnBatchKeeps DEF DespawnBatch
  <2>2. Goes(world, w)
    BY <1>1, <1>6, DespawnedBatchGoes
  <2> HIDE DEF w
  <2>3. QED
    BY <2>1, <2>2, BecomesWatching
<1>8. ASSUME NEW E \in Batches, NEW v \in Values, GetBatchMut(E, v)
      PROVE  Watching'
  <2> DEFINE w == GotBatchMut(world, E, Key, v)
             m == [e \in DOMAIN truth |-> IF e \in E /\ Key \in DOMAIN truth[e]
                                          THEN Overlay(Just(Key, v), truth[e]) ELSE truth[e]]
  <2>1. Kept' /\ Becomes(w, m)
    BY <1>1, <1>8, GetBatchMutKeeps DEF GetBatchMut
  <2>2. Goes(world, w)
    BY <1>1, <1>6, GotBatchMutGoes
  <2> HIDE DEF w, m
  <2>3. QED
    BY <2>1, <2>2, BecomesWatching
<1>9. ASSUME NEW e \in Present, NEW v \in Values, GetMut(e, v)
      PROVE  Watching'
  <2> DEFINE w == GotMut(world, e, Key, v)
             m == IF Key \in DOMAIN truth[e] THEN Given(truth, e, Just(Key, v)) ELSE truth
  <2>1. Kept' /\ Becomes(w, m)
    BY <1>1, <1>9, GetMutKeeps DEF GetMut
  <2>2. Goes(world, w)
    BY <1>1, PresentLive, GotMutGoes
  <2> HIDE DEF w, m
  <2>3. QED
    BY <2>1, <2>2, BecomesWatching
<1>10. ASSUME NEW ids \in Tables, NEW v \in Values, QueryTableMut(ids, v)
       PROVE  Watching'
  <2> DEFINE w == TableMut(world, ids, Key, v)
             m == [e \in DOMAIN truth |-> IF DOMAIN Dense(truth[e]) = ids
                                          THEN Overlay(Just(Key, v), truth[e]) ELSE truth[e]]
  <2>1. Kept' /\ Becomes(w, m)
    BY <1>1, <1>10, QueryTableMutKeeps DEF QueryTableMut
  <2>2. ids \in SUBSET Components /\ Key \in ids
    BY CarriedIs, OnIs DEF Tables
  <2>3. Goes(world, w)
    BY <1>1, <2>2, TableMutGoes
  <2> HIDE DEF w, m
  <2>4. QED
    BY <2>1, <2>3, BecomesWatching
<1>11. ASSUME NEW e \in Present, NEW vals \in Carried, Insert(e, vals)
       PROVE  Watching'
  <2> DEFINE w == Inserted(world, e, vals)
  <2>1. Kept' /\ Becomes(w, Given(truth, e, vals))
    BY <1>1, <1>11, InsertKeeps DEF Insert
  <2>2. Goes(world, w)
    BY <1>1, CarriedIs, PresentLive, InsertedGoes
  <2> HIDE DEF w
  <2>3. QED
    BY <2>1, <2>2, BecomesWatching
<1>12. ASSUME NEW e \in Present, NEW c \in Removable, RemoveFrom(e, c)
       PROVE  Watching'
  <2> DEFINE w == Removed(world, e, c)
  <2>1. Kept' /\ Becomes(w, Taken(truth, e, c))
    BY <1>1, <1>12, RemoveFromKeeps DEF RemoveFrom
  <2>2. Goes(world, w)
    BY <1>1, PresentLive, RemovedGoes
  <2> HIDE DEF w
  <2>3. QED
    BY <2>1, <2>2, BecomesWatching
<1>13. ASSUME NEW e \in Present, NEW v \in SparseValues, InsertSparse(e, v)
       PROVE  Watching'
  <2> DEFINE w == SparseInserted(world, e, v)
  <2>1. Kept' /\ Becomes(w, Given(truth, e, Just(Sparse, v)))
    BY <1>1, <1>13, InsertSparseKeeps DEF InsertSparse
  <2>2. w.tick = world.tick
    BY DEF SparseInserted
  <2>3. Shows(world.tick, world, w)
    BY <1>1, PresentLive, SparseShows
  <2> HIDE DEF w
  <2>4. Goes(world, w)
    BY <1>1, <2>2, <2>3 DEF Goes
  <2>5. QED
    BY <2>1, <2>4, BecomesWatching
<1>14. ASSUME NEW v \in Values, QueryMut(v)
       PROVE  Watching'
  <2> DEFINE t == NextTick(world)
             A == Having(world, Key)
             w == NextTick(Rewritten(MarkedAll(t, A, {Key}, t.tick), EntitiesOf(t, A), Key, v))
             m == SweptTruth(EntitiesOf(world, A), v)
  <2>1. Kept' /\ Becomes(w, m)
    BY <1>1, <1>14, QueryMutKeeps DEF QueryMut
  <2>2. Goes(world, w)
    BY <1>1, WalkGoes
  <2> HIDE DEF w, m
  <2>3. QED
    BY <2>1, <2>2, BecomesWatching
<1>15. QED
  BY <1>2, <1>3, <1>4, <1>5, <1>7, <1>8, <1>9, <1>10, <1>11, <1>12, <1>13, <1>14

LEMMA ApplyWatches ==
  ASSUME Watching, NEW muts \in Changesets, Apply(muts)
  PROVE  Watching'
<1> DEFINE done == Applied(world, muts)
           w == done.w
           m == Meant(truth, muts)[Len(muts)].m
<1>1. Kept /\ Fit(world, {})
  BY DEF Watching, Kept
<1>2. Becomes(w, m) /\ Kept'
  BY <1>1, ApplyKeeps DEF Apply
<1>3. Sensible(world, muts)
  BY ChangesetsSensible
<1>4. Goes(world, w)
  BY <1>1, <1>3, AppliedGoes
<1> HIDE DEF w, m
<1>5. QED
  BY <1>2, <1>4, BecomesWatching

-----------------------------------------------------------------------------
(* The view's plan walks the archetypes.                                   *)
Flattens(h, s, N) ==
  /\ FlattenSeq(s) = h[N] /\ h[1] = s[1]
  /\ \A i \in 2 .. N : h[i] = h[i - 1] \o s[i]

LEMMA FlattenUnfolds ==
  ASSUME NEW s, NEW N \in Nat \ {0}, Len(s) = N
  PROVE  \E h : Flattens(h, s, N)
<1> DEFINE StepOf(v, i) == v \o s[i]
           first == s[1]
           Solves(f, k) == f = [i \in 1 .. k |-> IF i = 1 THEN s[i] ELSE StepOf(f[i - 1], i)]
           S == {k \in 0 .. N : \E f : Solves(f, k)}
           h == CHOOSE f : Solves(f, N)
<1>1. FlattenSeq(s) = h[N]
  BY DEF FlattenSeq
<1> HIDE DEF StepOf
<1>2. 0 \in S
  <2> DEFINE f0 == [i \in 1 .. 0 |-> first]
  <2>1. Solves(f0, 0)
    OBVIOUS
  <2> HIDE DEF f0, Solves
  <2>2. QED
    BY <2>1
<1>3. ASSUME NEW k \in 1 .. N, k - 1 \in S
      PROVE  k \in S
  <2>1. PICK f : Solves(f, k - 1)
    BY <1>3
  <2> DEFINE last == IF k = 1 THEN s[k] ELSE StepOf(f[k - 1], k)
             g == [i \in 1 .. k |-> IF i = k THEN last ELSE f[i]]
  <2>2. (\A i \in 1 .. k - 1 : g[i] = f[i]) /\ g[k] = last
    OBVIOUS
  <2>3. \A i \in 1 .. k - 1 : f[i] = IF i = 1 THEN s[i] ELSE StepOf(f[i - 1], i)
    BY <2>1
  <2>4. \A i \in 1 .. k : g[i] = IF i = 1 THEN s[i] ELSE StepOf(g[i - 1], i)
    <3> SUFFICES ASSUME NEW i \in 1 .. k
                 PROVE  g[i] = IF i = 1 THEN s[i] ELSE StepOf(g[i - 1], i)
      OBVIOUS
    <3>1. i # 1 => i - 1 \in 1 .. k - 1
      OBVIOUS
    <3>2. i # 1 => g[i - 1] = f[i - 1]
      BY <2>2, <3>1
    <3>3. CASE i = k
      <4> HIDE DEF g
      <4>1. QED
        BY <2>2, <3>2, <3>3 DEF last
    <3>4. CASE i # k
      <4>1. i \in 1 .. k - 1
        BY <3>4
      <4> HIDE DEF g
      <4>2. QED
        BY <2>2, <2>3, <3>2, <4>1
    <3>5. QED
      BY <3>3, <3>4
  <2>5. g = [i \in 1 .. k |-> g[i]]
    OBVIOUS
  <2> HIDE DEF g
  <2>6. Solves(g, k)
    BY <2>4, <2>5
  <2>7. QED
    BY <2>6
<1> HIDE DEF S
<1>4. N \in S
  <2>1. \A k \in 1 .. N : k - 1 \in S => k \in S
    BY <1>3
  <2>2. \A k \in 0 .. N : k \in S
    BY <1>2, <2>1, UpTo
  <2>3. QED
    BY <2>2
<1>5. Solves(h, N)
  BY <1>4 DEF S
<1> HIDE DEF h
<1>6. h[1] = s[1] /\ \A i \in 2 .. N : h[i] = StepOf(h[i - 1], i)
  BY <1>5
<1>7. Flattens(h, s, N)
  BY <1>1, <1>6 DEF StepOf, Flattens
<1>8. QED
  BY <1>7

Holding(S, f, x) == f \in Seq(S) /\ \E j \in DOMAIN f : f[j] = x

LEMMA HoldingIs ==
  ASSUME NEW S, NEW f \in Seq(S), NEW j \in DOMAIN f, NEW x, f[j] = x
  PROVE  Holding(S, f, x)
BY Zenon DEF Holding

LEMMA ConcatHolds ==
  ASSUME NEW S, NEW s \in Seq(S), NEW t \in Seq(S), NEW x
  PROVE  /\ s \o t \in Seq(S)
         /\ Holding(S, s, x) \/ Holding(S, t, x) => Holding(S, s \o t, x)
<1> DEFINE u == s \o t
<1>1. /\ u \in Seq(S) /\ Len(u) = Len(s) + Len(t) /\ Len(s) \in Nat /\ Len(t) \in Nat
      /\ DOMAIN u = 1 .. Len(u) /\ DOMAIN s = 1 .. Len(s) /\ DOMAIN t = 1 .. Len(t)
  OBVIOUS
<1>2. ASSUME NEW q \in DOMAIN s
      PROVE  q \in DOMAIN u /\ u[q] = s[q]
  BY <1>1
<1>3. ASSUME NEW q \in DOMAIN t
      PROVE  \E j \in DOMAIN u : u[j] = t[q]
  <2> DEFINE j == q + Len(s)
  <2>1. j \in 1 .. Len(s) + Len(t) /\ j > Len(s) /\ j - Len(s) = q
    BY <1>1
  <2>2. u[j] = t[j - Len(s)]
    BY <1>1, <2>1
  <2> HIDE DEF u, j
  <2>3. QED
    BY <1>1, <2>1, <2>2
<1> HIDE DEF u
<1>4. ASSUME Holding(S, s, x) PROVE Holding(S, u, x)
  <2>1. PICK q \in DOMAIN s : s[q] = x
    BY <1>4 DEF Holding
  <2>2. q \in DOMAIN u /\ u[q] = x
    BY <1>2, <2>1
  <2>3. QED
    BY <1>1, <2>2, HoldingIs
<1>5. ASSUME Holding(S, t, x) PROVE Holding(S, u, x)
  <2>1. PICK q \in DOMAIN t : t[q] = x
    BY <1>5 DEF Holding
  <2>2. PICK j \in DOMAIN u : u[j] = x
    BY <1>3, <2>1
  <2>3. QED
    BY <1>1, <2>2, HoldingIs
<1>6. u \in Seq(S) /\ (Holding(S, s, x) \/ Holding(S, t, x) => Holding(S, u, x))
  BY <1>1, <1>4, <1>5
<1>7. QED
  BY <1>6 DEF u

LEMMA FlattenHolds ==
  ASSUME NEW S, NEW N \in Nat, NEW s, Len(s) = N, \A n \in 1 .. N : s[n] \in Seq(S),
         NEW a \in 1 .. N, NEW x, Holding(S, s[a], x)
  PROVE  Holding(S, FlattenSeq(s), x)
<1>1. N \in Nat \ {0} /\ 1 \in 1 .. N
  BY ONLY N \in Nat, a \in 1 .. N
<1>2. PICK h : Flattens(h, s, N)
  BY <1>1, FlattenUnfolds
<1> DEFINE T == {n \in 0 .. N : n > 0 => h[n] \in Seq(S) /\ (a <= n => Holding(S, h[n], x))}
<1>3. 0 \in T
  BY <1>1
<1>4. ASSUME NEW n \in 1 .. N, n - 1 \in T
      PROVE  n \in T
  <2> DEFINE p == h[n - 1]
             r == s[n]
             u == h[n]
  <2>1. r \in Seq(S) /\ (a = n => Holding(S, r, x)) /\ n \in 0 .. N
    OBVIOUS
  <2>2. CASE n = 1
    <3>1. u = r /\ (a <= n => a = n)
      BY <1>2, <2>2 DEF Flattens
    <3>2. QED
      BY <2>1, <3>1
  <2>3. CASE n # 1
    <3>1. n - 1 > 0 /\ n \in 2 .. N /\ (a <= n => a = n \/ a <= n - 1)
      BY <2>3
    <3>2. u = p \o r
      BY <1>2, <3>1 DEF Flattens
    <3>3. p \in Seq(S) /\ (a <= n - 1 => Holding(S, p, x))
      BY <1>4, <3>1
    <3> HIDE DEF p, r, u
    <3>4. u \in Seq(S) /\ (Holding(S, p, x) \/ Holding(S, r, x) => Holding(S, u, x))
      BY <2>1, <3>2, <3>3, ConcatHolds
    <3>5. u \in Seq(S) /\ (a <= n => Holding(S, u, x))
      BY <2>1, <3>1, <3>3, <3>4
    <3>6. QED
      BY <2>1, <3>5 DEF u
  <2>4. QED
    BY <2>2, <2>3
<1> HIDE DEF T
<1>5. \A n \in 1 .. N : n - 1 \in T => n \in T
  BY <1>4
<1>6. \A n \in 0 .. N : n \in T
  BY <1>3, <1>5, UpTo
<1>7. Holding(S, h[N], x)
  BY <1>1, <1>6 DEF T
<1>8. QED
  BY <1>2, <1>7 DEF Flattens

LEMMA WalkVisits ==
  ASSUME NEW w, Fit(w, {}), NEW e \in Live(w, {}), Key \in DOMAIN Meaning(w, {})[e],
         NEW required, required \subseteq {Key}, NEW tick, KeyTick(w, e) > tick
  PROVE  e \in Range(CollectMatching(w, required, {Key}, tick))
<1> DEFINE N == Len(w.archs)
           S == [ids : SUBSET Components, row : RowType]
           Hits(b) == ArchMatches(w.archs[b], required, {Key}, tick)
           Part(b) == [q \in DOMAIN w.archs[b].rows |->
                         [ids |-> w.archs[b].ids, row |-> w.archs[b].rows[q]]]
           s == [b \in DOMAIN w.archs |-> IF Hits(b) THEN Part(b) ELSE << >>]
           a == w.loc[e.idx].arch
           r == w.loc[e.idx].row
           x == [ids |-> w.archs[a].ids, row |-> w.archs[a].rows[r]]
           walk == Walk(w, required, {Key}, tick)
<1>1. N \in Nat /\ DOMAIN w.archs = 1 .. N
  BY WorldFields DEF Fit
<1>2. Len(s) = N
  BY <1>1
<1>3. \A b \in 1 .. N : s[b] \in Seq(S)
  <2> SUFFICES ASSUME NEW b \in 1 .. N PROVE s[b] \in Seq(S)
    OBVIOUS
  <2> DEFINE L == Len(w.archs[b].rows)
  <2>1. /\ w.archs[b].ids \in SUBSET Components /\ L \in Nat /\ DOMAIN w.archs[b].rows = 1 .. L
        /\ \A q \in 1 .. L : w.archs[b].rows[q] \in RowType
    BY <1>1, WorldFields DEF Fit
  <2>2. \A q \in 1 .. L : [ids |-> w.archs[b].ids, row |-> w.archs[b].rows[q]] \in S
    BY <2>1
  <2>3. Part(b) \in Seq(S)
    <3> HIDE DEF S, L
    <3>1. Part(b) \in [1 .. L -> S]
      BY <2>1, <2>2
    <3> HIDE DEF Part
    <3>2. QED
      BY <2>1, <3>1
  <2>4. << >> \in Seq(S)
    OBVIOUS
  <2> HIDE DEF S, Part, Hits
  <2>5. QED
    BY <1>1, <2>3, <2>4
<1>4. a \in 1 .. N /\ r \in DOMAIN w.archs[a].rows /\ w.archs[a].rows[r].ent = e
  BY <1>1, LiveAt
<1>5. Hits(a)
  <2>1. Key \in w.archs[a].ids
    BY KeyIsStored, HasColumn DEF ArchAt
  <2>2. w.archs[a].ticks[Key] > tick
    BY DEF KeyTick, ArchAt
  <2>3. QED
    BY <2>1, <2>2 DEF ArchMatches, PassesChangeFilter
<1>6. s[a] = Part(a)
  BY <1>1, <1>4, <1>5
<1>7. Holding(S, s[a], x)
  <2>1. r \in DOMAIN Part(a) /\ Part(a)[r] = x
    BY <1>4
  <2>2. Part(a) \in Seq(S)
    BY <1>3, <1>4, <1>6
  <2> HIDE DEF Part, x, r, S
  <2>3. Holding(S, Part(a), x)
    BY <2>1, <2>2, HoldingIs
  <2> HIDE DEF s
  <2>4. QED
    BY <1>6, <2>3
<1>8. walk = FlattenSeq(s)
  BY DEF Walk
<1>9. x.row.ent = e
  BY <1>4
<1> HIDE DEF N, S, s, a, x, walk
<1>10. Holding(S, walk, x)
  BY <1>1, <1>2, <1>3, <1>4, <1>7, <1>8, FlattenHolds
<1>11. PICK j \in DOMAIN walk : walk[j] = x
  BY <1>10 DEF Holding
<1>12. j \in DOMAIN EntitiesIn(walk) /\ EntitiesIn(walk)[j] = e
  BY <1>9, <1>11 DEF EntitiesIn
<1>13. CollectMatching(w, required, {Key}, tick) = EntitiesIn(walk)
  BY DEF CollectMatching, walk
<1>14. QED
  BY <1>12, <1>13 DEF Range

(* The view's plan yields every entity ahead of its tick.                  *)
LEMMA WatchedWalks ==
  ASSUME NEW w, NEW tree, NEW tick
  PROVE  \E required : /\ required \subseteq {Key}
                       /\ ExecuteCollect(w, tree, Built(Watched), tick)
                            = CollectMatching(w, required, {Key}, tick)
<1>1. Range(Watched.joins) = {} /\ DOMAIN Watched.preds = {}
  BY WatchedIsAScan DEF Range
<1>2. Driver(Watched) = None
  BY <1>1 DEF Driver
<1>3. MergedJoins(Watched) = {}
  BY <1>1 DEF MergedJoins
<1> DEFINE plan == Built(Watched)
           required == Watched.required \cup UNION {j.required : j \in MergedJoins(Watched)}
           changed == Watched.changed \cup UNION {j.changed : j \in MergedJoins(Watched)}
<1>4. required \subseteq {Key} /\ changed = {Key}
  BY <1>3, WatchedIsAScan
<1>5. plan.direct /\ plan.filters = << >> /\ plan.required = required /\ plan.changed = changed
  BY <1>1, <1>2, <1>3, WatchedIsAScan DEF Built
<1> HIDE DEF plan, required, changed
<1>6. ExecuteCollect(w, tree, plan, tick) = CollectMatching(w, required, {Key}, tick)
  BY <1>4, <1>5 DEF ExecuteCollect, DirectScan, CollectMatching
<1>7. QED
  BY <1>4, <1>6 DEF plan

LEMMA RefreshVisits ==
  ASSUME NEW w, Fit(w, {}), NEW E, NEW k, Ahead(w, E, k), NEW tree
  PROVE  E \ Range(ExecuteCollect(w, tree, Built(Watched), k)) = {}
<1> DEFINE got == ExecuteCollect(w, tree, Built(Watched), k)
<1>1. PICK required : /\ required \subseteq {Key}
                      /\ got = CollectMatching(w, required, {Key}, k)
  BY WatchedWalks
<1> HIDE DEF got
<1>2. \A e \in E : e \in Range(got)
  BY <1>1, WalkVisits DEF Ahead
<1>3. QED
  BY <1>2 DEF got

-----------------------------------------------------------------------------
(* The calls of the readers.                                               *)
LEMMA SeenWatches ==
  ASSUME Watching, Kept', ReadTicks', IsView(view'), subject' = subject, unseen' = {},
         subject = "index" => Mirrors(index') /\ UpToDate(world', index')
  PROVE  Watching'
BY DEF Watching, Ahead

(* What a tick leaves as it was.                                           *)
LEMMA TickedWorld ==
  ASSUME Watching, world' = NextTick(world)
  PROVE  /\ Goes(world, world') /\ world'.tick \in Nat /\ world.tick <= world'.tick
         /\ world'.tick \in 0 .. world'.tick
         /\ Fit(world', {})
         /\ {Baseline, writer, view.last, index.sync} \subseteq 0 .. world'.tick
<1> DEFINE t == world'
<1>1. Fit(world, {}) /\ t = NextTick(world)
  BY DEF Watching, Kept
<1> HIDE DEF t
<1>2. Fit(t, {}) /\ t.tick \in Nat /\ world.tick \in Nat /\ t.tick = world.tick + 1
  BY <1>1, TickIs
<1>3. Goes(world, t)
  BY <1>1, TickGoes
<1>4. world.tick <= t.tick /\ t.tick \in 0 .. t.tick
  BY <1>2
<1>5. {Baseline, writer, view.last, index.sync} \subseteq 0 .. t.tick
  BY <1>2, <1>4, ReadTickIs
<1>6. QED
  BY <1>2, <1>3, <1>4, <1>5 DEF t

LEMMA QueryWatches ==
  ASSUME Watching, NEW use \in {"drop", "next", "chunks"}, Query(use)
  PROVE  Watching'
<1> DEFINE hit == ChangedSince(world, Key, Baseline)
           it == use = "chunks" \/ (use = "next" /\ hit # {})
<1>1. /\ subject = "query" /\ world' = NextTick(world) /\ truth' = truth
      /\ subject' = subject /\ writer' = writer /\ index' = index /\ view' = view
      /\ query' = [last |-> Baseline, pending |-> world'.tick, iterated |-> it]
      /\ unseen' = IF use = "drop" THEN unseen ELSE unseen \ EntitiesOf(world, hit)
  BY DEF Query
<1>2. Kept'
  BY <1>1, TickedKept DEF Watching
<1>3. Baseline' = IF it THEN world'.tick ELSE Baseline
  BY <1>1 DEF Baseline
<1>4. ReadTicks' /\ IsView(view')
  BY <1>1, <1>3, TickedWorld DEF ReadTicks, Watching
<1>5. ReadTick = Baseline /\ ReadTick' = Baseline'
  BY <1>1 DEF ReadTick
<1>6. CASE use = "drop"
  <2>1. ReadTick' = ReadTick /\ unseen' = unseen
    BY <1>1, <1>3, <1>5, <1>6
  <2>2. Goes(world, world') /\ ReadTick \in Nat /\ ReadTick <= ReadTick
    BY <1>1, TickedWorld, ReadTickIs
  <2>3. QED
    BY <1>1, <1>2, <1>4, <2>1, <2>2, StillWatching
<1>7. CASE use # "drop"
  <2>1. Fit(world, {}) /\ Ahead(world, unseen, Baseline)
    BY <1>5 DEF Watching, Kept
  <2>2. unseen' = {}
    BY <1>1, <1>7, <2>1, Visited
  <2>3. QED
    BY <1>1, <1>2, <1>4, <2>2, SeenWatches
<1>8. QED
  BY <1>6, <1>7

LEMMA AdvanceQueryTickWatches ==
  ASSUME Watching, AdvanceQueryTick
  PROVE  Watching'
<1>1. /\ subject = "query" /\ world' = NextTick(world) /\ truth' = truth
      /\ subject' = subject /\ writer' = writer /\ index' = index /\ view' = view
      /\ query' = [last |-> world'.tick, pending |-> None, iterated |-> FALSE] /\ unseen' = {}
  BY DEF AdvanceQueryTick
<1>2. Kept'
  BY <1>1, TickedKept DEF Watching
<1>3. Baseline' = world'.tick
  BY <1>1 DEF Baseline
<1>4. ReadTicks' /\ IsView(view')
  BY <1>1, <1>3, TickedWorld DEF ReadTicks, Watching
<1>5. QED
  BY <1>1, <1>2, <1>4, SeenWatches

LEMMA CallWriterWatches ==
  ASSUME Watching, NEW v \in Values, CallWriter(v)
  PROVE  Watching'
<1> DEFINE t == NextTick(world)
           A == ChangedSince(world, Key, writer)
           w == NextTick(Rewritten(MarkedAll(t, A, {Key}, t.tick), EntitiesOf(t, A), Key, v))
<1>1. /\ subject = "writer" /\ world' = w /\ writer' = w.tick
      /\ subject' = subject /\ query' = query /\ index' = index /\ view' = view
      /\ unseen' = unseen \ EntitiesOf(world, A)
  BY DEF CallWriter
<1>2. Kept /\ Kept' /\ Fit(world, {})
  BY CallWriterKeeps DEF Watching, Kept
<1>3. Ahead(world, unseen, writer)
  BY <1>1 DEF Watching, ReadTick
<1>4. unseen' = {}
  BY <1>1, <1>2, <1>3, Visited
<1>5. Goes(world, w)
  <2>1. A \subseteq Having(world, Key)
    BY DEF ChangedSince
  <2> HIDE DEF A
  <2>2. QED
    BY <1>2, <2>1, ValuesAre, WalkGoes
<1> HIDE DEF A, w
<1>6. Fit(w, {}) /\ w.tick \in Nat /\ world.tick <= w.tick
  BY <1>1, <1>2, <1>5, WorldFields DEF Kept, Goes, Fit
<1>7. {Baseline, writer, view.last, index.sync} \subseteq 0 .. w.tick /\ w.tick \in 0 .. w.tick
  BY <1>6, ReadTickIs
<1>8. Baseline' = Baseline
  BY <1>1 DEF Baseline
<1>9. ReadTicks' /\ IsView(view')
  BY <1>1, <1>7, <1>8 DEF ReadTicks, Watching
<1>10. QED
  BY <1>1, <1>2, <1>4, <1>9, SeenWatches

LEMMA UpdateIndexWatches ==
  ASSUME Watching, UpdateIndex
  PROVE  Watching'
<1> DEFINE u == Reindexed(index, world, ChangedSince(world, Key, index.sync))
<1>1. /\ subject = "index" /\ world' = world /\ truth' = truth /\ subject' = subject
      /\ query' = query /\ writer' = writer /\ index' = u /\ view' = view /\ unseen' = unseen
  BY DEF UpdateIndex
<1>2. Kept' /\ Fit(world, {}) /\ unseen = {}
  BY <1>1, UnchangedKept DEF Watching, Kept
<1>3. Mirrors(u) /\ UpToDate(world, u) /\ u.sync = world.tick
  BY <1>1, <1>2, UpdatedIndex DEF Watching
<1> HIDE DEF u
<1>4. ReadTicks'
  <2>1. world.tick \in Nat /\ world.tick <= world.tick
    BY ReadTickIs
  <2>2. {Baseline, writer, view.last, index.sync} \subseteq 0 .. world.tick
    BY <2>1, ReadTickIs
  <2>3. world.tick \in 0 .. world.tick /\ Baseline' = Baseline
    BY <1>1, <2>1 DEF Baseline
  <2>4. QED
    BY <1>1, <1>3, <2>2, <2>3 DEF ReadTicks
<1>5. IsView(view')
  BY <1>1 DEF Watching
<1>6. QED
  BY <1>1, <1>2, <1>3, <1>4, <1>5, SeenWatches

LEMMA RebuildIndexWatches ==
  ASSUME Watching, RebuildIndex
  PROVE  Watching'
<1> DEFINE u == Reindexed(EmptyIndex, world', Having(world, Key))
<1>1. /\ subject = "index" /\ world' = NextTick(world) /\ truth' = truth /\ subject' = subject
      /\ query' = query /\ writer' = writer /\ index' = u /\ view' = view /\ unseen' = unseen
  BY DEF RebuildIndex
<1>2. Kept' /\ Fit(world', {}) /\ unseen = {}
  BY <1>1, TickedKept, TickedWorld DEF Watching
<1>3. Having(world, Key) = Having(world', Key)
  BY <1>1 DEF Having, NextTick
<1>4. Mirrors(u) /\ UpToDate(world', u) /\ u.sync = world'.tick
  <2> DEFINE t == world'
  <2>1. u = Reindexed(EmptyIndex, t, Having(t, Key)) /\ Fit(t, {})
    BY <1>2, <1>3
  <2> HIDE DEF t, u
  <2>2. Mirrors(u) /\ UpToDate(t, u) /\ u.sync = t.tick
    BY <2>1, RebuiltIndex
  <2>3. QED
    BY <2>2 DEF t
<1> HIDE DEF u
<1>5. ReadTicks' /\ IsView(view')
  <2>1. Baseline' = Baseline
    BY <1>1 DEF Baseline
  <2>2. QED
    BY <1>1, <1>4, <2>1, TickedWorld DEF ReadTicks, Watching
<1>6. QED
  BY <1>1, <1>2, <1>4, <1>5, SeenWatches

LEMMA PlanWatches ==
  ASSUME Watching, Plan
  PROVE  Watching'
<1>1. /\ subject = "plan" /\ world' = NextTick(world) /\ truth' = truth /\ subject' = subject
      /\ query' = query /\ writer' = writer /\ unseen' = unseen
      /\ index' = Reindexed(EmptyIndex, world', Having(world, Key)) /\ view' = NewView(view.policy)
  BY DEF Plan
<1>2. Kept'
  BY <1>1, TickedKept DEF Watching
<1>3. index'.sync = world'.tick
  BY <1>1 DEF Reindexed
<1>4. view'.last = 0 /\ IsView(view')
  BY <1>1 DEF NewView, IsView
<1>5. ReadTicks'
  <2>1. Baseline' = Baseline /\ 0 \in 0 .. world'.tick
    BY <1>1, TickedWorld DEF Baseline
  <2>2. QED
    BY <1>1, <1>3, <1>4, <2>1, TickedWorld DEF ReadTicks
<1>6. ReadTick' = 0 /\ 0 <= ReadTick
  BY <1>1, <1>4, ReadTickIs DEF ReadTick
<1>7. Goes(world, world')
  BY <1>1, TickedWorld
<1>8. QED
  BY <1>1, <1>2, <1>4, <1>5, <1>6, <1>7, StillWatching

(* A view's call that leaves the storage and the read tick alone.          *)
LEMMA ViewWatches ==
  ASSUME Watching, subject = "plan", view'.last = view.last, IsView(view'),
         UNCHANGED <<subject, world, query, writer, index, truth, unseen>>
  PROVE  Watching'
<1>1. Kept' /\ Fit(world, {})
  BY UnchangedKept DEF Watching, Kept
<1>2. ReadTicks' /\ ReadTick' = ReadTick
  <2>1. Baseline' = Baseline
    BY DEF Baseline
  <2>2. QED
    BY <2>1 DEF ReadTicks, ReadTick, Watching
<1>3. Goes(world, world')
  BY <1>1, StaysGoes
<1>4. ReadTick' \in Nat /\ ReadTick' <= ReadTick
  BY <1>2, ReadTickIs
<1>5. QED
  BY <1>1, <1>2, <1>3, <1>4, StillWatching

LEMMA RefreshWatches ==
  ASSUME Watching, Refresh
  PROVE  Watching'
<1> DEFINE due == view.policy = 1 \/ ~ view.populated \/ view.since + 1 >= view.policy
           got == ExecuteCollect(world, index.tree, Built(Watched), view.last)
<1>1. /\ subject = "plan"
      /\ UNCHANGED <<subject, query, writer, index, truth>>
      /\ due => /\ world' = NextTick(world)
                /\ view' = [view EXCEPT !.last = NextTick(world).tick, !.cached = got,
                                        !.populated = TRUE, !.since = 0]
                /\ unseen' = unseen \ Range(got)
      /\ ~due => view' = [view EXCEPT !.since = @ + 1] /\ UNCHANGED <<world, unseen>>
  BY DEF Refresh
<1>2. IsView(view) /\ Kept /\ Fit(world, {})
  BY DEF Watching, Kept
<1> HIDE DEF due
<1>3. CASE due
  <2>1. Ahead(world, unseen, view.last)
    BY <1>1 DEF Watching, ReadTick
  <2>2. unseen' = {}
    BY <1>1, <1>2, <1>3, <2>1, RefreshVisits
  <2> HIDE DEF got
  <2>3. IsView(view') /\ view'.last = world'.tick
    BY <1>1, <1>2, <1>3 DEF IsView
  <2>4. ReadTicks' /\ Kept'
    <3>1. Baseline' = Baseline
      BY <1>1 DEF Baseline
    <3>2. QED
      BY <1>1, <1>2, <1>3, <2>3, <3>1, TickedWorld, TickedKept DEF ReadTicks
  <2>5. QED
    BY <1>1, <2>2, <2>3, <2>4, SeenWatches
<1>4. CASE ~due
  <2>1. IsView(view') /\ view'.last = view.last
    BY <1>1, <1>2, <1>4 DEF IsView
  <2>2. QED
    BY <1>1, <1>4, <2>1, ViewWatches
<1>5. QED
  BY <1>3, <1>4

LEMMA CallWatches ==
  ASSUME Removable \subseteq {Key}, Watching, Call
  PROVE  Watching'
<1>1. ASSUME NEW use \in {"drop", "next", "chunks"}, Query(use)
      PROVE  Watching'
  BY <1>1, QueryWatches
<1>2. ASSUME NEW v \in Values, CallWriter(v)
      PROVE  Watching'
  BY <1>2, CallWriterWatches
<1>3. ASSUME NEW n \in Policies, SetPolicy(n)
      PROVE  Watching'
  <2>1. IsView(view') /\ view'.last = view.last
    BY <1>3 DEF SetPolicy, Watching, IsView
  <2>2. QED
    BY <1>3, <2>1, ViewWatches DEF SetPolicy
<1>4. ASSUME Invalidate
      PROVE  Watching'
  <2>1. IsView(view') /\ view'.last = view.last
    BY <1>4 DEF Invalidate, Watching, IsView
  <2>2. QED
    BY <1>4, <2>1, ViewWatches DEF Invalidate
<1>5. QED
  BY <1>1, <1>2, <1>3, <1>4, StorageCallsWatch, AdvanceQueryTickWatches, UpdateIndexWatches,
     RebuildIndexWatches, PlanWatches, RefreshWatches DEF Call

LEMMA NextWatches ==
  ASSUME Removable \subseteq {Key}, Watching, [Next]_vars
  PROVE  Watching'
<1>1. CASE UNCHANGED vars
  BY <1>1 DEF vars, Watching, Kept, ReadTicks, ReadTick, Baseline
<1>2. QED
  BY <1>1, CallWatches, ApplyWatches DEF Next

LEMMA InitWatches ==
  ASSUME Init
  PROVE  Watching
<1>1. Kept /\ world.tick = 0
  BY InitKeeps DEF Init, EmptyWorld
<1>2. Baseline = 0 /\ writer = 0 /\ view.last = 0 /\ index = EmptyIndex /\ unseen = {} /\ IsView(view)
  BY DEF Init, Baseline, NewView, IsView
<1>3. ReadTicks
  BY <1>1, <1>2, EmptyIndexMirrors DEF ReadTicks
<1>4. UpToDate(world, index)
  <2>1. DOMAIN Meaning(world, {}) = {}
    BY <1>1 DEF Init, Kept
  <2>2. Live(world, {}) = {}
    BY <2>1, MeaningIs
  <2>3. QED
    BY <2>2 DEF UpToDate
<1>5. QED
  BY <1>1, <1>2, <1>3, <1>4, EmptyIndexMirrors DEF Watching, Ahead

(* As long as World::remove, which marks nothing, is called for no other   *)
(* component, whatever else is called and applied: read ticks stay in the  *)
(* past, what a reader has not shown is in an archetype newer than its     *)
(* tick, and an index has every key that it has not yet to read.           *)
THEOREM ReadersWatch == ASSUME Removable \subseteq {Key} PROVE Spec => []Watching
<1>1. Init => Watching
  BY InitWatches
<1>2. Watching /\ [Next]_vars => Watching'
  BY NextWatches
<1>3. QED
  BY <1>1, <1>2, PTL DEF Spec

(* No Changed<T> window closes on a change it has not shown: the deferred  *)
(* read tick of World::query, the one ReducerRegistry::call stores after   *)
(* the apply, and the one a refresh of a view stores.                      *)
THEOREM NothingIsMissed == ASSUME Removable \subseteq {Key} PROVE Spec => []NoChangeIsMissed
<1>1. Watching => NoChangeIsMissed
  <2> SUFFICES ASSUME Watching, NEW e \in unseen
               PROVE  ArchAt(world, e).ticks[Key] > CASE subject = "query"  -> Baseline
                                                      [] subject = "writer" -> writer
                                                      [] subject = "plan"   -> view.last
    BY DEF NoChangeIsMissed
  <2>1. subject \in {"query", "writer", "plan"} /\ ArchAt(world, e).ticks[Key] > ReadTick
    BY DEF Watching, Ahead, KeyTick
  <2>2. QED
    BY <2>1 DEF ReadTick
<1>2. QED
  BY <1>1, ReadersWatch, PTL

(* An index that is in step with the world names, for every value, the     *)
(* entities that have it, once the dead and the moved are left out.        *)
THEOREM IndexStaysFresh == ASSUME Removable \subseteq {Key} PROVE Spec => []IndexIsFresh
<1>1. Watching => IndexIsFresh
  <2> SUFFICES ASSUME Watching, subject = "index", index.sync = world.tick, NEW v \in Values
               PROVE  {e \in index.tree[v] : Located(world, e) /\ Key \in ArchAt(world, e).ids}
                        = {e \in DOMAIN truth : Key \in DOMAIN truth[e] /\ truth[e][Key] = v}
    BY DEF IndexIsFresh
  <2>1. /\ Kept /\ Fit(world, {}) /\ Mirrors(index) /\ UpToDate(world, index)
        /\ truth = Meaning(world, {}) /\ DOMAIN truth = Live(world, {})
    BY MeaningIs DEF Watching, Kept
  <2>2. ASSUME NEW e \in Live(world, {})
        PROVE  Key \in DOMAIN truth[e] <=> Key \in ArchAt(world, e).ids
    BY <2>1, <2>2, KeyIsStored, HasColumn
  <2>3. ASSUME NEW e \in Live(world, {}), Key \in DOMAIN truth[e]
        PROVE  e \in DOMAIN index.rev /\ index.rev[e] = truth[e][Key]
    <3> DEFINE y == KeyTick(world, e)
    <3>1. y \in Nat /\ y <= world.tick /\ world.tick \in Nat
      BY <2>1, <2>3, KeyTickIs, ReadTickIs
    <3>2. ~(y > world.tick)
      <4> HIDE DEF y
      <4>1. QED
        BY <3>1
    <3>3. QED
      BY <2>1, <2>3, <3>2 DEF UpToDate
  <2>4. ASSUME NEW e
        PROVE  e \in index.tree[v] /\ Located(world, e) /\ Key \in ArchAt(world, e).ids
                 <=> e \in DOMAIN truth /\ Key \in DOMAIN truth[e] /\ truth[e][Key] = v
    <3>1. e \in index.tree[v] <=> e \in DOMAIN index.rev /\ index.rev[e] = v
      BY <2>1 DEF Mirrors
    <3>2. e \in index.tree[v] /\ Located(world, e) => e \in Live(world, {})
      BY <2>1, <3>1 DEF Mirrors, Live
    <3>3. e \in Live(world, {}) => Located(world, e)
      BY DEF Live
    <3>4. QED
      BY <2>1, <2>2, <2>3, <3>1, <3>2, <3>3
  <2>5. QED
    BY <2>4
<1>2. QED
  BY <1>1, ReadersWatch, PTL
=============================================================================

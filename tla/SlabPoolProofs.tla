--------------------------- MODULE SlabPoolProofs ---------------------------
(***************************************************************************)
(* The memory pool, for any number of threads, slots, classes and units:   *)
(* every slot of the window belongs to one block and every block has one   *)
(* holder, whatever the threads' accesses to the lock-free lists           *)
(* interleave to; the side table names the class of every block that is    *)
(* out of the lists; the frontiers never cross.                            *)
(*                                                                         *)
(* The invariant speaks of four things the program does not store: who     *)
(* owns a block (own), of which class it is (cls), the free lists from the *)
(* bottom up (stk) and the chains about to be pushed (chain).              *)
(***************************************************************************)
EXTENDS SlabPool, FiniteSetTheorems, FiniteSetsExt, WellFoundedInduction, TLAPS

-----------------------------------------------------------------------------
(* Induction on natural numbers: the set of the numbers that have a        *)
(* property takes the place of the property.                               *)

(* A set of natural numbers that is not empty has a least element.         *)
LEMMA LeastElement ==
  ASSUME NEW T, T \subseteq Nat, T # {}
  PROVE  \E n \in T : \A m \in T : n <= m
<1> DEFINE R == OpToRel(<, Nat)
<1>1. IsWellFoundedOn(R, Nat)
  BY NatLessThanWellFounded
<1>2. \A m, n \in Nat : m < n => <<m, n>> \in R
  BY DEF OpToRel
<1> HIDE DEF R
<1>3. PICK n \in T : \A m \in T : ~(<<m, n>> \in R)
  BY <1>1, WFMin
<1>4. \A m \in T : ~(m < n)
  BY <1>2, <1>3
<1>5. QED
  BY <1>4

(* A set that holds 0 and, up to N, the successor of each number in it,    *)
(* holds 0 .. N.                                                           *)
LEMMA UpTo ==
  ASSUME NEW N \in Nat, NEW S,
         0 \in S,
         \A n \in 1 .. N : n - 1 \in S => n \in S
  PROVE  \A n \in 0 .. N : n \in S
<1> SUFFICES ASSUME NEW k \in 0 .. N, k \notin S
             PROVE  FALSE
  OBVIOUS
<1> DEFINE T == {n \in 0 .. N : n \notin S}
<1>1. PICK n \in T : \A m \in T : n <= m
  <2>1. T \subseteq Nat /\ T # {}
    OBVIOUS
  <2> HIDE DEF T
  <2>2. QED
    BY <2>1, LeastElement
<1>2. n \in 1 .. N
  OBVIOUS
<1>3. n - 1 \in 0 .. N /\ n - 1 \notin T
  BY <1>1, <1>2
<1>4. QED
  BY <1>2, <1>3

(* A set of natural numbers that is not empty and is bounded has a         *)
(* greatest element.                                                       *)
LEMMA GreatestElement ==
  ASSUME NEW T, T \subseteq Nat, T # {}, NEW N \in Nat, \A m \in T : m <= N
  PROVE  \E n \in T : \A m \in T : m <= n
<1> DEFINE D == {N - m : m \in T}
<1>1. \A m \in T : m \in Nat /\ N - m \in Nat
  OBVIOUS
<1>2. D \subseteq Nat /\ D # {}
  BY <1>1
<1>3. PICK d \in D : \A e \in D : d <= e
  <2> HIDE DEF D
  <2>1. QED
    BY <1>2, LeastElement
<1>4. PICK n \in T : d = N - n
  OBVIOUS
<1>5. \A m \in T : N - n <= N - m
  BY <1>3, <1>4
<1>6. QED
  BY <1>1, <1>4, <1>5

(* What Max of the library chooses.                                       *)
LEMMA MaxIs ==
  ASSUME NEW S, S \subseteq Nat, S # {}, NEW N \in Nat, \A m \in S : m <= N
  PROVE  Max(S) \in S /\ \A m \in S : m <= Max(S)
<1>1. PICK n \in S : \A m \in S : m <= n
  BY GreatestElement
<1>2. \E x \in S : \A y \in S : x >= y
  BY <1>1
<1>3. Max(S) \in S /\ \A y \in S : Max(S) >= y
  BY <1>2 DEF Max
<1>4. QED
  BY <1>3

(* What Min of the library chooses.                                        *)
LEMMA MinIs ==
  ASSUME NEW S, S \subseteq Nat, S # {}
  PROVE  Min(S) \in S /\ \A m \in S : Min(S) <= m
<1>1. \E x \in S : \A y \in S : x <= y
  BY LeastElement
<1>2. QED
  BY <1>1 DEF Min


-----------------------------------------------------------------------------
(* Owners.                                                                 *)

NoTag == <<"none", 0, 0>>
LiveTag == <<"live", 0, 0>>
ListTag(c) == <<"list", c, 0>>
ChainTag(t) == <<"chain", t, 0>>
GotTag(t) == <<"got", t, 0>>
NewTag(t) == <<"new", t, 0>>
TodoTag(t) == <<"todo", t, 0>>
AddrTag(t) == <<"addr", t, 0>>
BinTag(t, c) == <<"bin", t, c>>

Kind(g) == g[1]
Who(g) == g[2]

Tags ==
  {NoTag, LiveTag} \cup {ListTag(c) : c \in Classes}
    \cup {ChainTag(t) : t \in Threads} \cup {GotTag(t) : t \in Threads}
    \cup {NewTag(t) : t \in Threads}
    \cup {TodoTag(t) : t \in Threads} \cup {AddrTag(t) : t \in Threads}
    \cup {BinTag(tc[1], tc[2]) : tc \in Threads \X Classes}

(* The tag is one of thread t.                                             *)
Of(g, t) == Kind(g) \in {"chain", "got", "new", "todo", "addr", "bin"} /\ Who(g) = t

(* Blocks with an entry in the side table.                                 *)
Out(g) == Kind(g) \in {"live", "got", "todo", "addr", "bin"}

(* The owners after the blocks in S were given to g.                       *)
Give(own, S, g) == [b \in Slots |-> IF b \in S THEN g ELSE own[b]]

(* The blocks with a tag are those of a set, or the elements of a          *)
(* sequence, once each.                                                    *)
Distinct(s) == \A i, j \in 1 .. Len(s) : s[i] = s[j] => i = j
HoldsSet(own, g, S) == \A b \in Slots : own[b] = g <=> b \in S
Holds(own, g, s) == s \in Seq(Slots) /\ Distinct(s) /\ HoldsSet(own, g, ToSet(s))

-----------------------------------------------------------------------------
(* The inductive invariant.                                                *)

PCs == {"idle", "check", "return", "push", "pushCas", "pop", "popNext", "popCas", "carve",
        "copy", "release"}
Ops == {"none", "allocate", "free", "grow", "flush", "drop"}
Maybe == Slots \cup {None}

Calls ==
  [pc : PCs, op : Ops, class : Classes \cup {LARGE, None}, units : Nat, addr : Maybe,
   todo : Seq(Slots), list : Classes \cup {None}, first : Maybe, last : Maybe,
   loaded : Maybe, succ : Maybe, fresh : BOOLEAN, got : Maybe, extras : Nat]
Caches == [bins : [Classes -> Seq(Slots)], epoch : Nat]

BinOf(ca, c) == IF ca = None THEN << >> ELSE ca.bins[c]

(* What thread t owns.                                                     *)
Owns(own, t, chn, ca, call) ==
  /\ Holds(own, ChainTag(t), chn) /\ Holds(own, TodoTag(t), call.todo)
  /\ HoldsSet(own, GotTag(t), IF call.first = None THEN {call.got} ELSE {})
  /\ HoldsSet(own, NewTag(t), IF call.first = None THEN {} ELSE {call.got})
  /\ HoldsSet(own, AddrTag(t), {call.addr})
  /\ \A c \in Classes : Holds(own, BinTag(t, c), BinOf(ca, c))

(* The classes of its blocks.                                              *)
OwnClasses(own, cls, t, call) == \A b \in Slots :
  /\ own[b] = ChainTag(t) => cls[b] = call.list
  /\ own[b] \in {GotTag(t), NewTag(t)} => cls[b] = call.class
  /\ own[b] = TodoTag(t) => cls[b] \in Classes
  /\ own[b] = AddrTag(t) => CASE call.op = "free" -> cls[b] = call.class
                              [] call.op = "allocate" -> cls[b] \in Classes
                              [] OTHER -> TRUE
  /\ \A c \in Classes : own[b] = BinTag(t, c) => cls[b] = c

(* The chain it is about to push, as the links make it.                    *)
ChainOK(s, links, call) ==
  IF call.first = None THEN s = << >>
  ELSE /\ call.last # None /\ call.list # None
       /\ s # << >> /\ s[1] = call.last /\ s[Len(s)] = call.first
       /\ \A n \in 2 .. Len(s) : links[s[n]] = s[n - 1]
       /\ ToSet(s) =
            {b \in call.first .. call.last : (b - call.first) % SlabSizes[call.list] = 0}

(* Where it is in its call.                                                *)
Bare(call) ==
  call.todo = << >> /\ call.got = None /\ call.first = None /\ call.list = None /\ call.extras = 0

Returning(call, ca) ==
  /\ call.got = None /\ call.extras = 0
  /\ call.op \in {"allocate", "free", "flush", "drop"}
  /\ call.op \in {"allocate", "free"} => call.class \in Classes /\ ca # None

Refilling(call, ca) ==
  /\ call.op = "allocate" /\ call.class \in Classes /\ call.list = call.class
  /\ call.todo = << >> /\ ca # None
  /\ Len(BinOf(ca, call.class)) = call.extras /\ call.extras <= TCACHE_REFILL - 1
  /\ call.got = None => call.extras = 0

CallOK(call, ca) ==
  /\ call \in Calls
  /\ call.op = "free" => call.addr # None
  /\ call.op \in {"flush", "drop"} => call.addr = None
  /\ call.pc = "idle" => Bare(call) /\ call.op = "none" /\ call.addr = None
  /\ call.pc = "check" =>
       Bare(call) /\ call.class \in Classes /\ call.op \in {"allocate", "free"}
  /\ call.pc = "return" => call.first = None /\ call.list = None /\ Returning(call, ca)
  /\ call.pc \in {"push", "pushCas"} =>
       /\ call.first # None /\ call.extras = 0
       /\ call.got = None => Returning(call, ca)
       /\ call.got # None => Refilling(call, ca)
  /\ call.pc \in {"pop", "popNext", "popCas", "carve"} =>
       call.first = None /\ Refilling(call, ca)
  /\ call.pc \in {"popNext", "popCas"} =>
       call.loaded # None /\ (call.got # None => call.extras < TCACHE_REFILL - 1)
  /\ call.pc = "carve" => call.got = None
  /\ call.pc = "copy" => Bare(call) /\ call.op = "grow" /\ call.addr # None
  /\ call.pc = "release" => Bare(call) /\ call.op = "free" /\ call.class = LARGE

(* What a thread has loaded is still so, if the tag of the head is.        *)
CasOK(call, heads, links) ==
  call.fresh = TRUE =>
    /\ call.pc \in {"popNext", "popCas", "pushCas"}
    /\ call.loaded = heads[call.list]
    /\ call.pc = "popCas" => call.succ = links[call.loaded]
    /\ call.pc = "pushCas" => links[call.last] = call.loaded

CacheOK(ca, now) ==
  /\ ca \in Caches \cup {None}
  /\ ca # None => /\ ca.epoch <= now
                  /\ \A c \in Classes : Len(ca.bins[c]) <= TCACHE_CAPACITY

ThreadOK(own, cls, t, chn, ca, call, heads, links) ==
  /\ Owns(own, t, chn, ca, call) /\ OwnClasses(own, cls, t, call)
  /\ ChainOK(chn, links, call) /\ CallOK(call, ca) /\ CasOK(call, heads, links)

(* The free list of class c.                                               *)
ListOK(own, cls, c, s, top, links) ==
  /\ Holds(own, ListTag(c), s)
  /\ \A b \in Slots : own[b] = ListTag(c) => cls[b] = c
  /\ top = IF s = << >> THEN None ELSE s[Len(s)]
  /\ \A n \in 1 .. Len(s) : links[s[n]] = IF n = 1 THEN None ELSE s[n - 1]

SideOK(own, cls, table) == \A b \in Slots : table[b] = IF Out(own[b]) THEN cls[b] ELSE None

(* The frontier, and how the blocks lie in the window.                     *)
FrontierOK(f) ==
  /\ f \in [lo : Nat, hi : 0 .. NUnits, units : [Units -> 0 .. INTERIOR]]
  /\ FrontierWellFormed(f)

SlabBlocks(own, cls) == {b \in Slots : own[b] # NoTag /\ cls[b] # LARGE}
LargeBlocks(own, cls) == {b \in Slots : own[b] # NoTag /\ cls[b] = LARGE}

SlabsOK(blk, cls, lo) ==
  /\ \A b \in blk : b + SlabSizes[cls[b]] <= lo
  /\ \A b, d \in blk : b < d => b + SlabSizes[cls[b]] <= d
  /\ \A s \in Slots : s < lo => \E b \in blk : b <= s /\ s < b + SlabSizes[cls[b]]

Layout(own, cls, f) ==
  /\ SlabsOK(SlabBlocks(own, cls), cls, f.lo)
  /\ LargeBlocks(own, cls) = {RunAddr(u) : u \in Runs(f)}

TypesInv ==
  /\ head \in [Classes -> Maybe] /\ next \in [Slots -> Maybe]
  /\ side \in [Slots -> Classes \cup {LARGE, None}]
  /\ epoch \in Nat /\ live \subseteq Slots /\ pool \in {"mapped", "dropped"}
  /\ cache \in [Threads -> Caches \cup {None}] /\ th \in [Threads -> Calls]
  /\ \A t \in Threads : CacheOK(cache[t], epoch)
  /\ FrontierOK(frontier)

(* Flushes under way have yet to raise the epoch.                          *)
Flushing == {t \in Threads : th[t].op = "flush"}
EpochInv == epoch + Cardinality(Flushing) <= MaxEpoch

Blocked(own, cls, stk, chain) ==
  /\ own \in [Slots -> Tags] /\ cls \in [Slots -> Classes \cup {LARGE}]
  /\ HoldsSet(own, LiveTag, live)
  /\ \A c \in Classes : ListOK(own, cls, c, stk[c], head[c], next)
  /\ \A t \in Threads : ThreadOK(own, cls, t, chain[t], cache[t], th[t], head, next)
  /\ SideOK(own, cls, side)
  /\ Layout(own, cls, frontier)

IInv ==
  /\ TypesInv /\ EpochInv
  /\ pool = "dropped" => \A t \in Threads : th[t].pc = "idle"
  /\ pool = "mapped" =>
       \E own, cls : \E stk \in [Classes -> Seq(Slots)], chain \in [Threads -> Seq(Slots)] :
         Blocked(own, cls, stk, chain)

-----------------------------------------------------------------------------
(* Arithmetic.                                                             *)

LEMMA Division ==
  ASSUME NEW a \in Nat, NEW d \in Nat \ {0}
  PROVE  \E q \in Nat, r \in 0 .. d - 1 : a \div d = q /\ a % d = r /\ a = q * d + r
<1>1. PICK q \in Nat, r \in 0 .. d - 1 : a \div d = q /\ a % d = r
  OBVIOUS
<1>2. a = q * d + r
  BY <1>1
<1>3. QED
  BY <1>1, <1>2

LEMMA Products ==
  ASSUME NEW m \in Nat, NEW n \in Nat, NEW d \in Nat \ {0}
  PROVE  /\ m * d \in Nat
         /\ m <= n <=> m * d <= n * d
         /\ m < n <=> m * d < n * d
         /\ (m + n) * d = m * d + n * d
         /\ m * d >= m
         /\ m < n => m * d + d <= n * d
  OBVIOUS

(* Which multiples lie below a number.                                     *)
LEMMA Quotient ==
  ASSUME NEW a \in Nat, NEW m \in Nat, NEW d \in Nat \ {0}
  PROVE  m * d <= a <=> m <= a \div d
<1>1. PICK q \in Nat, r \in 0 .. d - 1 : a \div d = q /\ a = q * d + r
  BY Division
<1>2. CASE m <= q
  <2>1. m * d <= q * d /\ m * d \in Nat /\ q * d \in Nat
    BY <1>1, <1>2, Products
  <2>2. QED
    BY <1>1, <1>2, <2>1
<1>3. CASE q < m
  <2>1. q * d + d <= m * d /\ m * d \in Nat /\ q * d \in Nat
    BY <1>1, <1>3, Products
  <2>2. QED
    BY <1>1, <1>3, <2>1
<1>4. QED
  BY <1>1, <1>2, <1>3

LEMMA ExactQuotient ==
  ASSUME NEW m \in Nat, NEW d \in Nat \ {0}
  PROVE  (m * d) \div d = m /\ (m * d) % d = 0
<1>1. PICK a \in Nat : a = m * d
  BY Products
<1>2. PICK q \in Nat, r \in 0 .. d - 1 : a \div d = q /\ a % d = r /\ a = q * d + r
  BY Division
<1>3. m <= q
  BY <1>1, <1>2, Quotient
<1>4. q <= m
  <2>1. q * d <= m * d
    BY <1>1, <1>2, Products
  <2>2. QED
    BY <1>1, <1>2, <2>1, Products
<1>5. QED
  BY <1>1, <1>2, <1>3, <1>4, Products

(* Being a multiple is kept by sums.                                       *)
LEMMA MultipleSum ==
  ASSUME NEW a \in Nat, NEW b \in Nat, NEW d \in Nat \ {0}, a % d = 0, b % d = 0
  PROVE  (a + b) % d = 0
<1>1. PICK m \in Nat, r \in 0 .. d - 1 : a % d = r /\ a = m * d + r
  BY Division
<1>2. PICK n \in Nat, q \in 0 .. d - 1 : b % d = q /\ b = n * d + q
  BY Division
<1>3. a + b = (m + n) * d
  BY <1>1, <1>2, Products
<1>4. ((m + n) * d) % d = 0
  BY ExactQuotient
<1>5. QED
  BY <1>3, <1>4

-----------------------------------------------------------------------------
(* Tags.                                                                   *)

LEMMA TagFacts ==
  /\ Kind(NoTag) = "none" /\ Kind(LiveTag) = "live"
  /\ \A c : Kind(ListTag(c)) = "list" /\ Who(ListTag(c)) = c
  /\ \A t : /\ Kind(ChainTag(t)) = "chain" /\ Who(ChainTag(t)) = t
            /\ Kind(GotTag(t)) = "got" /\ Who(GotTag(t)) = t
            /\ Kind(NewTag(t)) = "new" /\ Who(NewTag(t)) = t
            /\ Kind(TodoTag(t)) = "todo" /\ Who(TodoTag(t)) = t
            /\ Kind(AddrTag(t)) = "addr" /\ Who(AddrTag(t)) = t
  /\ \A t, c : Kind(BinTag(t, c)) = "bin" /\ Who(BinTag(t, c)) = t
  /\ \A t, c, d : BinTag(t, c) = BinTag(t, d) => c = d
  BY DEF Kind, Who, NoTag, LiveTag, ListTag, ChainTag, GotTag, NewTag, TodoTag, AddrTag, BinTag

LEMMA TagsAre ==
  /\ NoTag \in Tags /\ LiveTag \in Tags /\ \A c \in Classes : ListTag(c) \in Tags
  /\ \A t \in Threads : /\ ChainTag(t) \in Tags /\ GotTag(t) \in Tags /\ NewTag(t) \in Tags
                        /\ TodoTag(t) \in Tags /\ AddrTag(t) \in Tags
                        /\ \A c \in Classes : BinTag(t, c) \in Tags
<1>1. ASSUME NEW t \in Threads, NEW c \in Classes PROVE BinTag(t, c) \in Tags
  <2>1. <<t, c>> \in Threads \X Classes /\ <<t, c>>[1] = t /\ <<t, c>>[2] = c
    OBVIOUS
  <2>2. QED
    BY <2>1 DEF Tags
<1>2. QED
  BY <1>1 DEF Tags

LEMMA GiveIs ==
  ASSUME NEW own \in [Slots -> Tags], NEW S, NEW g \in Tags
  PROVE  /\ Give(own, S, g) \in [Slots -> Tags]
         /\ \A b \in Slots : Give(own, S, g)[b] = IF b \in S THEN g ELSE own[b]
  BY DEF Give

-----------------------------------------------------------------------------
(* Blocks held in sequences.                                               *)

LEMMA ToSetIs ==
  ASSUME NEW s \in Seq(Slots)
  PROVE  /\ Len(s) \in Nat /\ DOMAIN s = 1 .. Len(s)
         /\ \A i \in 1 .. Len(s) : s[i] \in Slots /\ s[i] \in ToSet(s)
         /\ \A b : b \in ToSet(s) => \E i \in 1 .. Len(s) : s[i] = b
         /\ s # << >> <=> Len(s) > 0
  BY DEF ToSet

LEMMA SubSeqIs ==
  ASSUME NEW s \in Seq(Slots), NEW m \in Nat \ {0}, NEW n \in Nat, m <= n + 1, n <= Len(s)
  PROVE  /\ SubSeq(s, m, n) \in Seq(Slots) /\ Len(SubSeq(s, m, n)) = n - m + 1
         /\ \A i \in 1 .. n - m + 1 : SubSeq(s, m, n)[i] = s[m + i - 1]
<1> DEFINE r == [i \in 1 .. n - m + 1 |-> s[m + i - 1]]
<1>1. Len(s) \in Nat /\ n - m + 1 \in Nat
  OBVIOUS
<1>2. SubSeq(s, m, n) = r
  BY <1>1
<1>3. \A i \in 1 .. n - m + 1 : m + i - 1 \in 1 .. Len(s)
  BY <1>1
<1>4. r \in [1 .. n - m + 1 -> Slots]
  BY <1>1, <1>3
<1>5. r \in Seq(Slots) /\ Len(r) = n - m + 1
  BY <1>1, <1>4
<1>6. QED
  BY <1>2, <1>5

LEMMA HoldsNone ==
  ASSUME NEW own, NEW g, \A b \in Slots : own[b] # g
  PROVE  Holds(own, g, << >>)
  BY DEF Holds, HoldsSet, Distinct, ToSet

(* What is not given or taken stays held.                                  *)
LEMMA HoldsStays ==
  ASSUME NEW own, NEW own2, NEW g, NEW s, Holds(own, g, s),
         \A b \in Slots : own2[b] = g <=> own[b] = g
  PROVE  Holds(own2, g, s)
  BY DEF Holds, HoldsSet

LEMMA HoldsAppend ==
  ASSUME NEW own, NEW own2, NEW g, NEW s, Holds(own, g, s), NEW x \in Slots, own[x] # g,
         \A b \in Slots : own2[b] = g <=> own[b] = g \/ b = x
  PROVE  Holds(own2, g, Append(s, x))
<1> DEFINE r == Append(s, x)
<1>1. s \in Seq(Slots) /\ Len(s) \in Nat
  BY DEF Holds
<1>2. /\ r \in Seq(Slots) /\ Len(r) = Len(s) + 1 /\ r[Len(s) + 1] = x
      /\ \A i \in 1 .. Len(s) : r[i] = s[i]
  BY <1>1
<1> HIDE DEF r
<1>3. x \notin ToSet(s)
  BY DEF Holds, HoldsSet
<1>4. Distinct(r)
  BY <1>1, <1>2, <1>3, ToSetIs DEF Holds, Distinct
<1>5. \A b \in Slots : b \in ToSet(r) <=> b \in ToSet(s) \/ b = x
  <2>1. ASSUME NEW b \in Slots, b \in ToSet(r) PROVE b \in ToSet(s) \/ b = x
    <3>1. PICK i \in 1 .. Len(r) : r[i] = b
      BY <1>2, <2>1, ToSetIs
    <3>2. QED
      BY <1>1, <1>2, <3>1, ToSetIs
  <2>2. ASSUME NEW b \in Slots, b \in ToSet(s) PROVE b \in ToSet(r)
    <3>1. PICK i \in 1 .. Len(s) : s[i] = b
      BY <1>1, <2>2, ToSetIs
    <3>2. i \in 1 .. Len(r) /\ r[i] = b
      BY <1>1, <1>2, <3>1
    <3>3. QED
      BY <1>2, <3>2, ToSetIs
  <2>3. x \in ToSet(r)
    <3>1. Len(s) + 1 \in 1 .. Len(r)
      BY <1>1, <1>2
    <3>2. QED
      BY <1>2, <3>1, ToSetIs
  <2>4. QED
    BY <2>1, <2>2, <2>3
<1>6. QED
  BY <1>2, <1>4, <1>5 DEF Holds, HoldsSet, r

LEMMA HoldsFront ==
  ASSUME NEW own, NEW own2, NEW g, NEW s, Holds(own, g, s), s # << >>,
         \A b \in Slots : own2[b] = g <=> own[b] = g /\ b # Last(s)
  PROVE  /\ Holds(own2, g, Front(s)) /\ Last(s) \in Slots /\ own[Last(s)] = g
         /\ Len(Front(s)) = Len(s) - 1 /\ \A i \in 1 .. Len(s) - 1 : Front(s)[i] = s[i]
<1> DEFINE r == Front(s)
           x == Last(s)
<1>1. s \in Seq(Slots) /\ Len(s) \in Nat /\ Len(s) > 0 /\ x = s[Len(s)]
  BY ToSetIs DEF Holds, Last
<1>2. r \in Seq(Slots) /\ Len(r) = Len(s) - 1 /\ \A i \in 1 .. Len(s) - 1 : r[i] = s[i]
  <2>1. r = SubSeq(s, 1, Len(s) - 1)
    BY DEF Front
  <2>2. Len(s) - 1 \in Nat /\ 1 \in Nat \ {0} /\ 1 <= Len(s) - 1 + 1 /\ Len(s) - 1 <= Len(s)
    BY <1>1
  <2> HIDE DEF r
  <2>3. /\ r \in Seq(Slots) /\ Len(r) = (Len(s) - 1) - 1 + 1
        /\ \A i \in 1 .. (Len(s) - 1) - 1 + 1 : r[i] = s[1 + i - 1]
    BY <1>1, <2>1, <2>2, SubSeqIs
  <2>4. \A i \in 1 .. (Len(s) - 1) - 1 + 1 : 1 + i - 1 = i
    OBVIOUS
  <2>5. QED
    BY <1>1, <2>3, <2>4
<1> HIDE DEF r, x
<1>3. x \in Slots /\ x \in ToSet(s)
  BY <1>1, ToSetIs
<1>4. Distinct(r)
  BY <1>1, <1>2 DEF Holds, Distinct
<1>5. \A b \in Slots : b \in ToSet(r) <=> b \in ToSet(s) /\ b # x
  <2>1. ASSUME NEW b \in Slots, b \in ToSet(r) PROVE b \in ToSet(s) /\ b # x
    <3>1. PICK i \in 1 .. Len(r) : r[i] = b
      BY <1>2, <2>1, ToSetIs
    <3>2. i \in 1 .. Len(s) /\ i # Len(s) /\ s[i] = b
      BY <1>1, <1>2, <3>1
    <3>3. QED
      BY <1>1, <3>2, ToSetIs DEF Holds, Distinct
  <2>2. ASSUME NEW b \in Slots, b \in ToSet(s), b # x PROVE b \in ToSet(r)
    <3>1. PICK i \in 1 .. Len(s) : s[i] = b
      BY <1>1, <2>2, ToSetIs
    <3>2. i \in 1 .. Len(r) /\ r[i] = b
      BY <1>1, <1>2, <2>2, <3>1
    <3>3. QED
      BY <1>2, <3>2, ToSetIs
  <2>3. QED
    BY <2>1, <2>2
<1>6. own[x] = g
  BY <1>3 DEF Holds, HoldsSet
<1>7. QED
  BY <1>2, <1>3, <1>4, <1>5, <1>6 DEF Holds, HoldsSet, r, x

LEMMA HoldsTail ==
  ASSUME NEW own, NEW own2, NEW g, NEW s, Holds(own, g, s), s # << >>,
         \A b \in Slots : own2[b] = g <=> own[b] = g /\ b # Head(s)
  PROVE  Holds(own2, g, Tail(s)) /\ Head(s) \in Slots /\ own[Head(s)] = g
<1> DEFINE r == Tail(s)
           x == Head(s)
<1>1. s \in Seq(Slots) /\ Len(s) \in Nat /\ Len(s) > 0 /\ x = s[1]
  BY ToSetIs DEF Holds
<1>2. r \in Seq(Slots) /\ Len(r) = Len(s) - 1 /\ \A i \in 1 .. Len(s) - 1 : r[i] = s[i + 1]
  BY <1>1
<1> HIDE DEF r, x
<1>3. x \in Slots /\ x \in ToSet(s)
  BY <1>1, ToSetIs
<1>4. Distinct(r)
  BY <1>1, <1>2 DEF Holds, Distinct
<1>5. \A b \in Slots : b \in ToSet(r) <=> b \in ToSet(s) /\ b # x
  <2>1. ASSUME NEW b \in Slots, b \in ToSet(r) PROVE b \in ToSet(s) /\ b # x
    BY <1>1, <1>2, <2>1, ToSetIs DEF Holds, Distinct
  <2>2. ASSUME NEW b \in Slots, b \in ToSet(s), b # x PROVE b \in ToSet(r)
    <3>1. PICK i \in 1 .. Len(s) : s[i] = b
      BY <1>1, <2>2, ToSetIs
    <3>2. i - 1 \in 1 .. Len(r) /\ r[i - 1] = b
      BY <1>1, <1>2, <2>2, <3>1
    <3>3. QED
      BY <1>2, <3>2, ToSetIs
  <2>3. QED
    BY <2>1, <2>2
<1>6. own[x] = g
  BY <1>3 DEF Holds, HoldsSet
<1>7. QED
  BY <1>2, <1>3, <1>4, <1>5, <1>6 DEF Holds, HoldsSet, r, x

(* One sequence is put behind another.                                     *)
LEMMA HoldsConcat ==
  ASSUME NEW own, NEW own2, NEW g, NEW s, NEW h, NEW r,
         Holds(own, g, s), Holds(own, h, r), g # h,
         \A b \in Slots : own2[b] = g <=> own[b] = g \/ own[b] = h
  PROVE  Holds(own2, g, s \o r)
<1> DEFINE q == s \o r
<1>1. s \in Seq(Slots) /\ Len(s) \in Nat /\ r \in Seq(Slots) /\ Len(r) \in Nat
  BY DEF Holds
<1>2. /\ q \in Seq(Slots) /\ Len(q) = Len(s) + Len(r)
      /\ \A i \in 1 .. Len(s) : q[i] = s[i]
      /\ \A i \in Len(s) + 1 .. Len(s) + Len(r) : q[i] = r[i - Len(s)]
  BY <1>1
<1>3. \A i \in 1 .. Len(r) : q[Len(s) + i] = r[i] /\ Len(s) + i \in 1 .. Len(q)
  BY <1>1, <1>2
<1> HIDE DEF q
<1>4. ASSUME NEW i \in 1 .. Len(s), NEW j \in 1 .. Len(r) PROVE s[i] # r[j]
  BY <1>1, ToSetIs DEF Holds, HoldsSet
<1>5. Distinct(q)
  <2> SUFFICES ASSUME NEW i \in 1 .. Len(q), NEW j \in 1 .. Len(q), q[i] = q[j] PROVE i = j
    BY DEF Distinct
  <2>1. CASE i <= Len(s) /\ j <= Len(s)
    BY <1>1, <1>2, <2>1 DEF Holds, Distinct
  <2>2. CASE i > Len(s) /\ j > Len(s)
    <3>1. i - Len(s) \in 1 .. Len(r) /\ j - Len(s) \in 1 .. Len(r)
      BY <1>1, <1>2, <2>2
    <3>2. q[i] = r[i - Len(s)] /\ q[j] = r[j - Len(s)]
      BY <1>1, <1>2, <2>2
    <3>3. i - Len(s) = j - Len(s)
      BY <3>1, <3>2 DEF Holds, Distinct
    <3>4. QED
      BY <1>1, <1>2, <3>3
  <2>3. CASE i <= Len(s) /\ j > Len(s)
    <3>1. j - Len(s) \in 1 .. Len(r) /\ q[j] = r[j - Len(s)] /\ q[i] = s[i] /\ i \in 1 .. Len(s)
      BY <1>1, <1>2, <2>3
    <3>2. QED
      BY <1>4, <3>1
  <2>4. CASE j <= Len(s) /\ i > Len(s)
    <3>1. i - Len(s) \in 1 .. Len(r) /\ q[i] = r[i - Len(s)] /\ q[j] = s[j] /\ j \in 1 .. Len(s)
      BY <1>1, <1>2, <2>4
    <3>2. QED
      BY <1>4, <3>1
  <2>5. QED
    BY <1>1, <1>2, <2>1, <2>2, <2>3, <2>4
<1>6. \A b \in Slots : b \in ToSet(q) <=> b \in ToSet(s) \/ b \in ToSet(r)
  <2>1. ASSUME NEW b \in Slots, b \in ToSet(q) PROVE b \in ToSet(s) \/ b \in ToSet(r)
    <3>1. PICK i \in 1 .. Len(q) : q[i] = b
      BY <1>2, <2>1, ToSetIs
    <3>2. CASE i <= Len(s)
      BY <1>1, <1>2, <3>1, <3>2, ToSetIs
    <3>3. CASE i > Len(s)
      <4>1. i - Len(s) \in 1 .. Len(r) /\ r[i - Len(s)] = b
        BY <1>1, <1>2, <3>1, <3>3
      <4>2. QED
        BY <1>1, <4>1, ToSetIs
    <3>4. QED
      BY <1>1, <1>2, <3>2, <3>3
  <2>2. ASSUME NEW b \in Slots, b \in ToSet(s) PROVE b \in ToSet(q)
    <3>1. PICK i \in 1 .. Len(s) : s[i] = b
      BY <1>1, <2>2, ToSetIs
    <3>2. i \in 1 .. Len(q) /\ q[i] = b
      BY <1>1, <1>2, <3>1
    <3>3. QED
      BY <1>2, <3>2, ToSetIs
  <2>3. ASSUME NEW b \in Slots, b \in ToSet(r) PROVE b \in ToSet(q)
    <3>1. PICK i \in 1 .. Len(r) : r[i] = b
      BY <1>1, <2>3, ToSetIs
    <3>2. QED
      BY <1>2, <1>3, <3>1, ToSetIs
  <2>4. QED
    BY <2>1, <2>2, <2>3
<1>7. QED
  BY <1>2, <1>5, <1>6 DEF Holds, HoldsSet, q

-----------------------------------------------------------------------------
(* The frontiers.                                                          *)

LEMMA UnitFacts ==
  /\ NUnits \in Nat /\ NUnits * UnitSlots <= Total /\ UnitSlots \in Nat \ {0} /\ Total \in Nat
  /\ \A u \in Units : /\ u \in Nat /\ u < NUnits /\ RunAddr(u) \in Slots
                      /\ RunAddr(u) \div UnitSlots = u
  /\ \A u, v \in Nat : (RunAddr(u) = RunAddr(v) => u = v)
                       /\ (u <= v <=> RunAddr(u) <= RunAddr(v))
  /\ \A u \in Nat : RunAddr(u) \in Nat
<1>1. UnitSlots \in Nat \ {0} /\ Total \in Nat
  BY FrontierAssumption
<1>2. PICK q \in Nat, r \in 0 .. UnitSlots - 1 : Total \div UnitSlots = q /\ Total = q * UnitSlots + r
  BY <1>1, Division
<1>3. NUnits = q /\ NUnits \in Nat /\ q * UnitSlots \in Nat
  BY <1>1, <1>2, Products DEF NUnits
<1>4. NUnits * UnitSlots <= Total
  BY <1>1, <1>2, <1>3
<1>5. \A u \in Nat : RunAddr(u) \in Nat
  BY <1>1, Products DEF RunAddr
<1>6. ASSUME NEW u \in Nat, NEW v \in Nat
      PROVE  (RunAddr(u) = RunAddr(v) => u = v) /\ (u <= v <=> RunAddr(u) <= RunAddr(v))
  <2>1. u <= v <=> RunAddr(u) <= RunAddr(v)
    BY <1>1, Products DEF RunAddr
  <2>2. v <= u <=> RunAddr(v) <= RunAddr(u)
    BY <1>1, Products DEF RunAddr
  <2>3. QED
    BY <1>5, <2>1, <2>2
<1>7. ASSUME NEW u \in Units
      PROVE  u \in Nat /\ u < NUnits /\ RunAddr(u) \in Slots /\ RunAddr(u) \div UnitSlots = u
  <2>1. u \in Nat /\ u < NUnits
    BY <1>3 DEF Units
  <2>2. RunAddr(u) \div UnitSlots = u
    BY <1>1, <2>1, ExactQuotient DEF RunAddr
  <2>3. u * UnitSlots + UnitSlots <= NUnits * UnitSlots /\ u * UnitSlots \in Nat
    BY <1>1, <1>3, <2>1, Products
  <2>4. u * UnitSlots < Total
    BY <1>1, <1>2, <1>3, <2>3
  <2>5. RunAddr(u) \in Slots
    BY <1>1, <2>3, <2>4 DEF RunAddr, Slots
  <2>6. QED
    BY <2>1, <2>2, <2>5
<1>8. QED
  BY <1>1, <1>3, <1>4, <1>5, <1>6, <1>7

(* The entries describe disjoint runs.                                     *)
RunsOf(units) == {u \in Units : units[u] \notin {FREE, INTERIOR}}
RunsOK(units) ==
  /\ units \in [Units -> 0 .. INTERIOR]
  /\ \A u \in RunsOf(units) : /\ u + units[u] <= NUnits
                              /\ \A v \in u + 1 .. u + units[u] - 1 : units[v] = INTERIOR
  /\ \A v \in Units : units[v] = INTERIOR =>
       \E u \in RunsOf(units) : u < v /\ v < u + units[u]

LEMMA RunIs ==
  ASSUME NEW units, RunsOK(units), NEW u \in RunsOf(units)
  PROVE  u \in Units /\ u \in Nat /\ units[u] \in 1 .. NUnits /\ u + units[u] <= NUnits
<1>1. u \in Units /\ units[u] \notin {FREE, INTERIOR} /\ u \in Nat /\ NUnits \in Nat
  BY UnitFacts DEF RunsOf
<1>2. units[u] \in 0 .. NUnits + 1 /\ units[u] # 0 /\ units[u] # NUnits + 1
  BY <1>1 DEF RunsOK, FREE, INTERIOR
<1>3. u + units[u] <= NUnits
  BY DEF RunsOK
<1>4. QED
  BY <1>1, <1>2, <1>3

(* The entries without the run at start.                                   *)
Freed(units, start) ==
  [u \in Units |-> IF u \in start .. start + units[start] - 1 THEN FREE ELSE units[u]]

LEMMA FreedRun ==
  ASSUME NEW units, RunsOK(units), NEW start \in RunsOf(units)
  PROVE  RunsOK(Freed(units, start)) /\ RunsOf(Freed(units, start)) = RunsOf(units) \ {start}
<1> DEFINE k == units[start]
           us == Freed(units, start)
<1>1. start \in Units /\ start \in Nat /\ k \in 1 .. NUnits /\ start + k <= NUnits /\ NUnits \in Nat
  BY RunIs, UnitFacts
<1>2. \A u \in Units : us[u] = IF u \in start .. start + k - 1 THEN FREE ELSE units[u]
  BY DEF Freed
<1>3. us \in [Units -> 0 .. INTERIOR]
  BY <1>1 DEF Freed, RunsOK, FREE, INTERIOR
<1> HIDE DEF us, k
<1>4. ASSUME NEW u \in Units, u \in start .. start + k - 1, u # start PROVE units[u] = INTERIOR
  <2>1. u \in start + 1 .. start + k - 1
    BY <1>1, <1>4
  <2>2. QED
    BY <2>1 DEF RunsOK, k
<1>5. RunsOf(us) = RunsOf(units) \ {start}
  <2>1. ASSUME NEW u \in RunsOf(us) PROVE u \in RunsOf(units) /\ u # start
    <3>1. u \in Units /\ u \notin start .. start + k - 1 /\ us[u] = units[u]
      BY <1>2, <2>1 DEF RunsOf
    <3>2. start \in start .. start + k - 1
      BY <1>1
    <3>3. QED
      BY <2>1, <3>1, <3>2 DEF RunsOf
  <2>2. ASSUME NEW u \in RunsOf(units), u # start PROVE u \in RunsOf(us)
    <3>1. u \in Units /\ u \notin start .. start + k - 1
      BY <1>4, <2>2 DEF RunsOf
    <3>2. QED
      BY <1>2, <2>2, <3>1 DEF RunsOf
  <2>3. QED
    BY <2>1, <2>2
<1>6. ASSUME NEW u \in RunsOf(us)
      PROVE  /\ u + us[u] <= NUnits
             /\ \A v \in u + 1 .. u + us[u] - 1 : us[v] = INTERIOR
             /\ us[u] = units[u]
  <2>1. u \in RunsOf(units) /\ u # start
    BY <1>5
  <2>2. u \in Units /\ u \in Nat /\ units[u] \in 1 .. NUnits /\ u + units[u] <= NUnits
    BY <2>1, RunIs
  <2>3. us[u] = units[u]
    BY <1>2, <2>2 DEF RunsOf
  <2>4. ASSUME NEW v \in u + 1 .. u + units[u] - 1 PROVE us[v] = INTERIOR
    <3>1. v \in Units /\ units[v] = INTERIOR
      BY <1>1, <2>1, <2>2 DEF RunsOK, Units
    <3>2. v \notin start .. start + k - 1
      <4>1. CASE u < start
        <5>1. start \notin u + 1 .. u + units[u] - 1
          BY <2>1 DEF RunsOK, RunsOf
        <5>2. QED
          BY <1>1, <2>2, <4>1, <5>1
      <4>2. CASE start < u
        <5>1. u \notin start + 1 .. start + k - 1
          BY <1>4, <2>1, <2>2, <1>1 DEF RunsOf
        <5>2. QED
          BY <1>1, <2>2, <4>2, <5>1
      <4>3. QED
        BY <1>1, <2>1, <2>2, <4>1, <4>2
    <3>3. QED
      BY <1>2, <3>1, <3>2
  <2>5. QED
    BY <2>2, <2>3, <2>4
<1>7. ASSUME NEW v \in Units, us[v] = INTERIOR
      PROVE  \E u \in RunsOf(us) : u < v /\ v < u + us[u]
  <2>1. v \notin start .. start + k - 1 /\ units[v] = INTERIOR
    BY <1>2, <1>7, <1>1 DEF INTERIOR, FREE
  <2>2. PICK u \in RunsOf(units) : u < v /\ v < u + units[u]
    BY <2>1 DEF RunsOK
  <2>3. u # start
    BY <1>1, <2>1, <2>2, UnitFacts DEF k
  <2>4. QED
    BY <1>5, <1>6, <2>2, <2>3
<1>8. QED
  BY <1>3, <1>5, <1>6, <1>7 DEF RunsOK, us

LEMMA PlacedRun ==
  ASSUME NEW units, RunsOK(units), NEW start \in Nat, NEW k \in 1 .. NUnits, start + k <= NUnits,
         \A v \in start .. start + k - 1 : units[v] = FREE
  PROVE  /\ RunsOK(WithRun(units, start, k))
         /\ RunsOf(WithRun(units, start, k)) = RunsOf(units) \cup {start}
         /\ start \in Units /\ start \notin RunsOf(units)
<1> DEFINE us == WithRun(units, start, k)
<1>1. NUnits \in Nat /\ start \in Units
  BY UnitFacts DEF Units
<1>2. /\ us[start] = k
      /\ \A u \in Units : u \in start + 1 .. start + k - 1 => us[u] = INTERIOR
      /\ \A u \in Units : u \notin start .. start + k - 1 => us[u] = units[u]
  BY <1>1 DEF WithRun, Units
<1>3. us \in [Units -> 0 .. INTERIOR]
  BY <1>1 DEF WithRun, RunsOK, INTERIOR
<1> HIDE DEF us
<1>4. k \notin {FREE, INTERIOR} /\ k \in Nat
  BY <1>1 DEF FREE, INTERIOR
<1>5. \A u \in Units : u \in start .. start + k - 1 => u \notin RunsOf(units) /\ units[u] # INTERIOR
  BY <1>1 DEF RunsOf, FREE, INTERIOR
<1>6. RunsOf(us) = RunsOf(units) \cup {start}
  <2>1. ASSUME NEW u \in RunsOf(us), u # start PROVE u \in RunsOf(units)
    <3>1. u \in Units /\ us[u] # INTERIOR /\ u \in Nat
      BY <2>1, UnitFacts DEF RunsOf
    <3>2. u \notin start .. start + k - 1
      BY <1>2, <2>1, <3>1
    <3>3. QED
      BY <1>2, <2>1, <3>1, <3>2 DEF RunsOf
  <2>2. ASSUME NEW u \in RunsOf(units) PROVE u \in RunsOf(us)
    <3>1. u \in Units /\ u \notin start .. start + k - 1
      BY <1>5, <2>2 DEF RunsOf
    <3>2. QED
      BY <1>2, <2>2, <3>1 DEF RunsOf
  <2>3. start \in RunsOf(us)
    BY <1>1, <1>2, <1>4 DEF RunsOf
  <2>4. QED
    BY <2>1, <2>2, <2>3
<1>7. start \notin RunsOf(units)
  BY <1>1, <1>5
<1>8. ASSUME NEW u \in RunsOf(us)
      PROVE  /\ u + us[u] <= NUnits
             /\ \A v \in u + 1 .. u + us[u] - 1 : us[v] = INTERIOR
             /\ u # start => us[u] = units[u]
  <2>1. CASE u = start
    <3>1. \A v \in u + 1 .. u + us[u] - 1 : v \in Units
      BY <1>1, <1>2, <2>1 DEF Units
    <3>2. QED
      BY <1>1, <1>2, <2>1, <3>1
  <2>2. CASE u # start
    <3>1. u \in RunsOf(units) /\ u \in Units /\ u \in Nat /\ units[u] \in 1 .. NUnits
          /\ u + units[u] <= NUnits
      BY <1>6, <2>2, RunIs
    <3>2. us[u] = units[u]
      BY <1>2, <1>5, <3>1
    <3>3. ASSUME NEW v \in u + 1 .. u + units[u] - 1 PROVE us[v] = INTERIOR
      <4>1. v \in Units /\ units[v] = INTERIOR
        BY <1>1, <3>1 DEF RunsOK, Units
      <4>2. QED
        BY <1>2, <1>5, <4>1
    <3>4. QED
      BY <3>1, <3>2, <3>3
  <2>3. QED
    BY <2>1, <2>2
<1>9. ASSUME NEW v \in Units, us[v] = INTERIOR
      PROVE  \E u \in RunsOf(us) : u < v /\ v < u + us[u]
  <2>0. v \in Nat
    BY UnitFacts
  <2>1. CASE v \in start .. start + k - 1
    <3>1. v # start
      BY <1>2, <1>4, <1>9
    <3>2. start \in RunsOf(us) /\ start < v /\ v < start + us[start]
      BY <1>2, <1>6, <2>0, <2>1, <3>1
    <3>3. QED
      BY <3>2
  <2>2. CASE v \notin start .. start + k - 1
    <3>1. units[v] = INTERIOR
      BY <1>2, <1>9, <2>2
    <3>2. PICK u \in RunsOf(units) : u < v /\ v < u + units[u]
      BY <3>1 DEF RunsOK
    <3>3. QED
      BY <1>6, <1>7, <1>8, <3>2
  <2>3. QED
    BY <2>1, <2>2
<1>10. QED
  BY <1>1, <1>3, <1>6, <1>7, <1>8, <1>9 DEF RunsOK, us

Frontiers == [lo : Nat, hi : 0 .. NUnits, units : [Units -> 0 .. INTERIOR]]

LEMMA FrontierParts ==
  ASSUME NEW f
  PROVE  FrontierOK(f) <=>
           /\ f \in Frontiers /\ RunsOK(f.units)
           /\ f.lo % ChunkSlots = 0 /\ f.lo <= Total
           /\ f.hi < NUnits => f.lo <= f.hi * UnitSlots /\ f.units[f.hi] # FREE
           /\ \A u \in Units : u < f.hi => f.units[u] = FREE
<1>1. f \in Frontiers => f.units \in [Units -> 0 .. INTERIOR]
  BY DEF Frontiers
<1>2. Runs(f) = RunsOf(f.units)
  BY DEF Runs, RunsOf
<1>3. QED
  BY <1>1, <1>2 DEF FrontierOK, FrontierWellFormed, RunsOK, Frontiers

(* Every run lies in the top region.                                       *)
LEMMA RunsAreHigh ==
  ASSUME NEW f, FrontierOK(f), NEW u \in Runs(f)
  PROVE  /\ u \in Units /\ u \in Nat /\ f.hi <= u /\ f.hi < NUnits /\ f.lo <= RunAddr(u)
         /\ f.units[u] \in 1 .. NUnits /\ u + f.units[u] <= NUnits
<1>1. u \in RunsOf(f.units) /\ RunsOK(f.units)
  BY FrontierParts DEF Runs, RunsOf
<1>2. u \in Units /\ u \in Nat /\ f.units[u] \in 1 .. NUnits /\ u + f.units[u] <= NUnits
  BY <1>1, RunIs
<1>3. f.hi \in Nat /\ NUnits \in Nat /\ f.lo \in Nat
  BY FrontierParts, UnitFacts DEF Frontiers
<1>4. f.hi <= u
  BY <1>2, <1>3, FrontierParts DEF FREE
<1>5. f.hi < NUnits
  BY <1>2, <1>3, <1>4
<1>6. f.lo <= RunAddr(f.hi)
  BY <1>5, FrontierParts DEF RunAddr
<1>7. RunAddr(f.hi) <= RunAddr(u) /\ RunAddr(f.hi) \in Nat /\ RunAddr(u) \in Nat
  BY <1>2, <1>3, <1>4, UnitFacts
<1>8. QED
  BY <1>2, <1>3, <1>4, <1>5, <1>6, <1>7

LEMMA TakeRunKeeps ==
  ASSUME NEW f, FrontierOK(f), NEW k \in Nat, CanTakeRun(f, k)
  PROVE  /\ FrontierOK(TakeRun(f, k)) /\ TakeRun(f, k).lo = f.lo
         /\ RunStart(f, k) \in Units /\ RunStart(f, k) \notin Runs(f)
         /\ Runs(TakeRun(f, k)) = Runs(f) \cup {RunStart(f, k)}
<1> DEFINE start == RunStart(f, k)
           g == TakeRun(f, k)
<1>1. /\ f \in Frontiers /\ RunsOK(f.units) /\ f.lo \in Nat /\ f.hi \in Nat /\ f.hi <= NUnits
      /\ NUnits \in Nat /\ k \in 1 .. NUnits
  BY FrontierParts, UnitFacts DEF CanTakeRun, Frontiers
<1>2. /\ start \in Nat /\ start + k <= NUnits /\ \A v \in start .. start + k - 1 : f.units[v] = FREE
      /\ start < f.hi => f.lo <= start * UnitSlots
  <2>1. CASE Gaps(f, k) # {}
    <3>1. Gaps(f, k) \subseteq Nat /\ \A m \in Gaps(f, k) : m <= NUnits
      BY <1>1 DEF Gaps
    <3>2. Max(Gaps(f, k)) \in Gaps(f, k)
      BY <1>1, <2>1, <3>1, MaxIs
    <3>3. start \in Gaps(f, k)
      BY <2>1, <3>2 DEF RunStart
    <3> HIDE DEF start
    <3>4. QED
      BY <1>1, <3>3 DEF Gaps
  <2>2. CASE Gaps(f, k) = {}
    <3>1. start = f.hi - k /\ k <= f.hi /\ f.lo <= (f.hi - k) * UnitSlots
      BY <2>2 DEF RunStart, CanTakeRun
    <3> HIDE DEF start
    <3>2. \A v \in start .. start + k - 1 : v \in Units /\ v < f.hi
      BY <1>1, <3>1 DEF Units
    <3>3. QED
      BY <1>1, <3>1, <3>2, FrontierParts
  <2>3. QED
    BY <2>1, <2>2
<1> DEFINE us == WithRun(f.units, start, k)
<1>3. /\ RunsOK(us) /\ RunsOf(us) = RunsOf(f.units) \cup {start}
      /\ start \in Units /\ start \notin RunsOf(f.units)
  <2> HIDE DEF start
  <2>1. QED
    BY <1>1, <1>2, PlacedRun
<1>4. PICK h \in Nat : h = Min({f.hi, start}) /\ h \in {f.hi, start} /\ h <= f.hi /\ h <= start
  <2> HIDE DEF start
  <2>1. QED
    BY <1>1, <1>2, MinIs
<1>5. g.lo = f.lo /\ g.hi = h /\ g.units = us /\ g = [f EXCEPT !.units = us, !.hi = h]
  BY <1>1, <1>4 DEF TakeRun, Frontiers
<1>6. us[start] = k /\ (\A u \in Units : u < start => us[u] = f.units[u])
      /\ \A u \in Units : us[u] = FREE => f.units[u] = FREE
  BY <1>1, <1>2, <1>3 DEF WithRun, FREE, INTERIOR, Units
<1> HIDE DEF start, us
<1> HIDE DEF g
<1>7. g \in Frontiers
  <2>1. h \in 0 .. NUnits /\ us \in [Units -> 0 .. INTERIOR]
    BY <1>1, <1>3, <1>4 DEF RunsOK
  <2>2. QED
    BY <1>1, <1>5, <2>1 DEF Frontiers
<1>8. g.hi < NUnits => g.lo <= g.hi * UnitSlots /\ g.units[g.hi] # FREE
  <2>1. CASE h = start
    <3>1. us[h] # FREE
      BY <1>1, <1>6, <2>1 DEF FREE
    <3>2. CASE start < f.hi
      BY <1>2, <1>5, <2>1, <3>1, <3>2
    <3>3. CASE start = f.hi
      <4>1. f.hi < NUnits
        BY <1>1, <1>2, <3>3
      <4>2. QED
        BY <1>5, <2>1, <3>1, <3>3, <4>1, FrontierParts
    <3>4. QED
      BY <1>1, <1>2, <1>4, <2>1, <3>2, <3>3
  <2>2. CASE h = f.hi
    <3>1. h < NUnits => f.lo <= h * UnitSlots /\ f.units[h] # FREE
      BY <2>2, FrontierParts
    <3>2. h < NUnits => h \in Units
      BY <1>1, <1>4 DEF Units
    <3>3. QED
      BY <1>5, <1>6, <3>1, <3>2
  <2>3. QED
    BY <1>4, <2>1, <2>2
<1>9. \A u \in Units : u < g.hi => g.units[u] = FREE
  <2> SUFFICES ASSUME NEW u \in Units, u < g.hi PROVE g.units[u] = FREE
    OBVIOUS
  <2>1. u \in Nat /\ u < f.hi /\ u < start
    BY <1>1, <1>2, <1>4, <1>5, UnitFacts
  <2>2. QED
    BY <1>5, <1>6, <2>1, FrontierParts
<1>10. FrontierOK(g)
  BY <1>3, <1>5, <1>7, <1>8, <1>9, FrontierParts
<1>11. Runs(g) = RunsOf(us) /\ Runs(f) = RunsOf(f.units)
  BY <1>5 DEF Runs, RunsOf
<1>12. QED
  BY <1>3, <1>5, <1>10, <1>11 DEF start, g

LEMMA ReleaseRunKeeps ==
  ASSUME NEW f, FrontierOK(f), NEW start \in Runs(f)
  PROVE  /\ FrontierOK(ReleaseRun(f, start)) /\ ReleaseRun(f, start).lo = f.lo
         /\ Runs(ReleaseRun(f, start)) = Runs(f) \ {start}
<1> DEFINE g == ReleaseRun(f, start)
           us == Freed(f.units, start)
           E == {NUnits} \cup {u \in f.hi .. NUnits - 1 : us[u] # FREE}
<1>1. /\ f \in Frontiers /\ RunsOK(f.units) /\ f.lo \in Nat /\ f.hi \in Nat /\ f.hi <= NUnits
      /\ NUnits \in Nat /\ start \in RunsOf(f.units)
  BY FrontierParts, UnitFacts DEF Frontiers, Runs, RunsOf
<1>2. RunsOK(us) /\ RunsOf(us) = RunsOf(f.units) \ {start}
  <2> HIDE DEF us
  <2>1. QED
    BY <1>1, FreedRun DEF us
<1>3. PICK h \in Nat : h = Min(E) /\ h \in E /\ \A m \in E : h <= m
  <2>1. E \subseteq Nat /\ E # {}
    BY <1>1
  <2> HIDE DEF E
  <2>2. QED
    BY <2>1, MinIs
<1>4. g.lo = f.lo /\ g.hi = h /\ g.units = us /\ g = [f EXCEPT !.units = us, !.hi = h]
  BY <1>1, <1>3 DEF ReleaseRun, Frontiers, Freed
<1>5. \A u \in Units : f.units[u] = FREE => us[u] = FREE
  BY DEF Freed
<1>6. f.hi <= h /\ h <= NUnits /\ (h < NUnits => us[h] # FREE)
  BY <1>1, <1>3
<1>7. \A u \in Units : f.hi <= u /\ u < h => us[u] = FREE
  <2> SUFFICES ASSUME NEW u \in Units, f.hi <= u, u < h, us[u] # FREE PROVE FALSE
    OBVIOUS
  <2>1. u \in E
    BY <1>1 DEF Units
  <2>2. QED
    BY <1>3, <2>1, UnitFacts
<1> HIDE DEF us, E
<1> HIDE DEF g
<1>8. g \in Frontiers
  <2>1. h \in 0 .. NUnits /\ us \in [Units -> 0 .. INTERIOR]
    BY <1>1, <1>2, <1>3, <1>6 DEF RunsOK
  <2>2. QED
    BY <1>1, <1>4, <2>1 DEF Frontiers
<1>9. g.hi < NUnits => g.lo <= g.hi * UnitSlots /\ g.units[g.hi] # FREE
  <2> SUFFICES ASSUME h < NUnits PROVE f.lo <= h * UnitSlots
    BY <1>4, <1>6
  <2>1. f.lo <= RunAddr(f.hi)
    BY <1>1, <1>6, FrontierParts DEF RunAddr
  <2>2. RunAddr(f.hi) <= RunAddr(h) /\ RunAddr(f.hi) \in Nat /\ RunAddr(h) \in Nat
    BY <1>1, <1>6, UnitFacts
  <2>3. f.lo <= RunAddr(h)
    BY <1>1, <2>1, <2>2
  <2>4. QED
    BY <2>3 DEF RunAddr
<1>10. \A u \in Units : u < g.hi => g.units[u] = FREE
  <2> SUFFICES ASSUME NEW u \in Units, u < h PROVE us[u] = FREE
    BY <1>4
  <2>1. u \in Nat
    BY UnitFacts
  <2>2. CASE u < f.hi
    BY <1>5, <2>2, FrontierParts
  <2>3. QED
    BY <1>1, <1>7, <2>1, <2>2
<1>11. FrontierOK(g)
  BY <1>2, <1>4, <1>8, <1>9, <1>10, FrontierParts
<1>12. Runs(g) = RunsOf(us) /\ Runs(f) = RunsOf(f.units)
  BY <1>4 DEF Runs, RunsOf
<1>13. QED
  BY <1>2, <1>4, <1>11, <1>12 DEF g

(* The run grows over its old place: it is freed, and placed again.        *)
LEMMA GrowRunKeeps ==
  ASSUME NEW f, FrontierOK(f), NEW start \in Runs(f), NEW kNew \in Nat, CanGrowRun(f, start, kNew)
  PROVE  /\ FrontierOK(GrowRun(f, start, kNew)) /\ GrowRun(f, start, kNew).lo = f.lo
         /\ start - Shift(f, start, kNew) \in Units
         /\ start - Shift(f, start, kNew) \notin Runs(f) \ {start}
         /\ Runs(GrowRun(f, start, kNew)) =
              (Runs(f) \ {start}) \cup {start - Shift(f, start, kNew)}
<1> DEFINE g == GrowRun(f, start, kNew)
           k == f.units[start]
           extra == kNew - k
           A == {a \in 0 .. extra : /\ start + k + a <= NUnits
                                    /\ \A v \in start + k .. start + k + a - 1 : f.units[v] = FREE}
           to == start - Shift(f, start, kNew)
<1>1. /\ f \in Frontiers /\ RunsOK(f.units) /\ f.lo \in Nat /\ f.hi \in Nat /\ f.hi <= NUnits
      /\ NUnits \in Nat /\ start \in RunsOf(f.units)
  BY FrontierParts, UnitFacts DEF Frontiers, Runs, RunsOf
<1>2. /\ start \in Units /\ start \in Nat /\ k \in 1 .. NUnits /\ start + k <= NUnits
      /\ f.hi <= start /\ f.hi < NUnits
  BY RunsAreHigh
<1>3. k < kNew /\ kNew <= NUnits /\ extra \in Nat
  BY <1>2 DEF CanGrowRun
<1>4. PICK above \in Nat : above = Above(f, start, extra) /\ above \in A
  <2>1. 0 \in A
    BY <1>2, <1>3
  <2>2. A \subseteq Nat /\ A # {} /\ \A m \in A : m <= extra
    BY <1>3, <2>1
  <2>3. Above(f, start, extra) = Max(A)
    BY DEF Above
  <2> HIDE DEF A
  <2>4. Max(A) \in A
    BY <1>3, <2>2, MaxIs
  <2>5. QED
    BY <2>2, <2>3, <2>4
<1>5. PICK shift \in Nat : /\ shift = Shift(f, start, kNew) /\ shift <= start
                           /\ shift + k + above = kNew
                           /\ \A u \in start - shift .. start - 1 : Claimable(f, u)
  <2>1. Shift(f, start, kNew) = kNew - k - above
    BY <1>4 DEF Shift
  <2>2. kNew - k - above \in Nat
    BY <1>2, <1>3, <1>4
  <2>3. QED
    BY <1>2, <1>3, <1>4, <2>1, <2>2 DEF CanGrowRun
<1>6. start + k + above <= NUnits /\ \A v \in start + k .. start + k + above - 1 : f.units[v] = FREE
  BY <1>4
<1>7. to = start - shift /\ to \in Nat /\ to <= start /\ to + kNew = start + k + above
  BY <1>2, <1>3, <1>5
<1> HIDE DEF to, A, extra
<1>8. \A u \in to .. start - 1 : f.units[u] = FREE /\ u \in Units
  <2> SUFFICES ASSUME NEW u \in to .. start - 1 PROVE f.units[u] = FREE /\ u \in Units
    OBVIOUS
  <2>1. u \in start - shift .. start - 1 /\ u \in Units /\ u \in Nat
    BY <1>1, <1>2, <1>7 DEF Units
  <2>2. CASE u >= f.hi
    BY <1>5, <2>1, <2>2 DEF Claimable
  <2>3. CASE u < f.hi
    BY <2>1, <2>3, FrontierParts
  <2>4. QED
    BY <1>1, <2>1, <2>2, <2>3
<1>9. to < f.hi => f.lo <= to * UnitSlots
  <2>1. to < f.hi => to \in start - shift .. start - 1
    BY <1>1, <1>2, <1>7
  <2>2. QED
    BY <1>1, <1>5, <1>7, <2>1 DEF Claimable
<1> DEFINE fr == Freed(f.units, start)
           us == WithRun(f.units, to, kNew)
<1>10. RunsOK(fr) /\ RunsOf(fr) = RunsOf(f.units) \ {start}
  BY <1>1, FreedRun
<1>11. \A v \in to .. to + kNew - 1 : fr[v] = FREE
  <2> SUFFICES ASSUME NEW v \in to .. to + kNew - 1 PROVE fr[v] = FREE
    OBVIOUS
  <2>0. v \in Units
    BY <1>1, <1>6, <1>7 DEF Units
  <2>1. fr[v] = IF v \in start .. start + k - 1 THEN FREE ELSE f.units[v]
    BY <2>0 DEF Freed
  <2> HIDE DEF fr
  <2>2. v \notin start .. start + k - 1 => v \in to .. start - 1 \/ v \in start + k .. start + k + above - 1
    BY <1>2, <1>3, <1>7
  <2>3. QED
    BY <1>6, <1>8, <2>1, <2>2
<1>12. WithRun(fr, to, kNew) = us
  <2>1. ASSUME NEW u \in Units, u # to, u \notin to + 1 .. to + kNew - 1
        PROVE  fr[u] = f.units[u]
    <3>1. u \notin start .. start + k - 1
      BY <1>2, <1>3, <1>7, <2>1
    <3>2. QED
      BY <3>1 DEF Freed
  <2> HIDE DEF fr
  <2>2. QED
    BY <2>1 DEF WithRun
<1> HIDE DEF k
<1>13. /\ RunsOK(us) /\ RunsOf(us) = (RunsOf(f.units) \ {start}) \cup {to}
       /\ to \in Units /\ to \notin RunsOf(f.units) \ {start}
  <2> HIDE DEF fr, us
  <2>1. kNew \in 1 .. NUnits /\ to + kNew <= NUnits
    BY <1>2, <1>3, <1>6, <1>7
  <2>2. RunsOf(WithRun(fr, to, kNew)) = RunsOf(fr) \cup {to} /\ RunsOK(WithRun(fr, to, kNew))
        /\ to \in Units /\ to \notin RunsOf(fr)
    BY <1>7, <1>10, <1>11, <2>1, PlacedRun
  <2>3. QED
    BY <1>10, <1>12, <2>2
<1>14. PICK h \in Nat : h = Min({f.hi, to}) /\ h \in {f.hi, to} /\ h <= f.hi /\ h <= to
  BY <1>1, <1>7, MinIs
<1>15. g.lo = f.lo /\ g.hi = h /\ g.units = us /\ g = [f EXCEPT !.units = us, !.hi = h]
  BY <1>1, <1>14 DEF GrowRun, Frontiers, to
<1>16. us[to] = kNew /\ (\A u \in Units : u < to => us[u] = f.units[u])
       /\ \A u \in Units : us[u] = FREE => f.units[u] = FREE
  BY <1>1, <1>2, <1>3, <1>7, <1>13 DEF WithRun, FREE, INTERIOR, Units
<1> HIDE DEF us, fr
<1> HIDE DEF g
<1>17. g \in Frontiers
  <2>1. h \in 0 .. NUnits /\ us \in [Units -> 0 .. INTERIOR]
    BY <1>1, <1>13, <1>14 DEF RunsOK
  <2>2. QED
    BY <1>1, <1>15, <2>1 DEF Frontiers
<1>18. g.hi < NUnits => g.lo <= g.hi * UnitSlots /\ g.units[g.hi] # FREE
  <2>1. CASE h = f.hi
    <3>1. f.lo <= h * UnitSlots /\ f.units[h] # FREE
      BY <1>2, <2>1, FrontierParts
    <3>0. h \in Units
      BY <1>1, <1>2, <2>1 DEF Units
    <3>2. QED
      BY <1>15, <1>16, <3>0, <3>1
  <2>2. CASE h = to /\ h # f.hi
    <3>1. us[h] # FREE
      BY <1>2, <1>3, <1>16, <2>2 DEF FREE
    <3>2. QED
      BY <1>1, <1>7, <1>9, <1>14, <1>15, <2>2, <3>1
  <2>3. QED
    BY <1>14, <2>1, <2>2
<1>19. \A u \in Units : u < g.hi => g.units[u] = FREE
  <2> SUFFICES ASSUME NEW u \in Units, u < h PROVE us[u] = FREE
    BY <1>15
  <2>1. u \in Nat /\ u < f.hi /\ u < to
    BY <1>1, <1>7, <1>14, UnitFacts
  <2>2. QED
    BY <1>16, <2>1, FrontierParts
<1>20. FrontierOK(g)
  BY <1>13, <1>15, <1>17, <1>18, <1>19, FrontierParts
<1>21. Runs(g) = RunsOf(us) /\ Runs(f) = RunsOf(f.units)
  BY <1>15 DEF Runs, RunsOf
<1>22. QED
  BY <1>13, <1>15, <1>20, <1>21 DEF to, g

LEMMA CarveKeeps ==
  ASSUME NEW f, FrontierOK(f), CanCarve(f)
  PROVE  /\ FrontierOK(CarveChunk(f)) /\ CarveChunk(f).lo = f.lo + ChunkSlots
         /\ Runs(CarveChunk(f)) = Runs(f) /\ f.lo + ChunkSlots <= Total
         /\ \A u \in Runs(f) : f.lo + ChunkSlots <= RunAddr(u)
<1> DEFINE g == CarveChunk(f)
<1>1. /\ f \in Frontiers /\ f.lo \in Nat /\ f.hi \in Nat /\ f.hi <= NUnits /\ NUnits \in Nat
      /\ ChunkSlots \in Nat \ {0} /\ Total \in Nat /\ f.lo % ChunkSlots = 0 /\ RunsOK(f.units)
  BY FrontierParts, UnitFacts, FrontierAssumption DEF Frontiers
<1>2. g.lo = f.lo + ChunkSlots /\ g.hi = f.hi /\ g.units = f.units
      /\ g = [f EXCEPT !.lo = f.lo + ChunkSlots]
  BY <1>1 DEF CarveChunk, Frontiers
<1>3. g \in Frontiers
  BY <1>1, <1>2 DEF Frontiers
<1> HIDE DEF g
<1>4. ChunkSlots % ChunkSlots = 0
  BY <1>1, ExactQuotient
<1>5. g.lo % ChunkSlots = 0
  BY <1>1, <1>2, <1>4, MultipleSum
<1>6. f.hi < NUnits => f.lo + ChunkSlots <= f.hi * UnitSlots
  BY <1>1 DEF CanCarve, BottomLimit
<1>7. f.lo + ChunkSlots <= Total
  <2>1. CASE f.hi < NUnits
    <3>1. f.hi * UnitSlots <= NUnits * UnitSlots /\ NUnits * UnitSlots \in Nat
          /\ f.hi * UnitSlots \in Nat
      BY <1>1, <2>1, Products, UnitFacts
    <3>2. QED
      BY <1>1, <1>6, <2>1, <3>1, UnitFacts
  <2>2. CASE f.hi = NUnits
    <3>1. PICK r \in 0 .. ChunkSlots - 1 : Total % ChunkSlots = r
      BY <1>1, Division
    <3>2. BottomLimit(f) = Total - (Total % ChunkSlots)
      BY <2>2 DEF BottomLimit
    <3>3. f.lo + ChunkSlots <= Total - r
      BY <3>1, <3>2 DEF CanCarve
    <3>4. f.lo \in Nat /\ ChunkSlots \in Nat /\ Total \in Nat /\ r \in Nat
      BY <1>1
    <3>5. QED
      BY <3>3, <3>4
  <2>3. f.hi \in Nat /\ f.hi <= NUnits /\ NUnits \in Nat
    BY <1>1
  <2>4. f.hi < NUnits \/ f.hi = NUnits
    BY <2>3
  <2>5. QED
    BY <2>1, <2>2, <2>4
<1>8. FrontierOK(g)
  BY <1>1, <1>2, <1>3, <1>5, <1>6, <1>7, FrontierParts
<1>9. Runs(g) = Runs(f)
  BY <1>2 DEF Runs
<1>10. \A u \in Runs(f) : f.lo + ChunkSlots <= RunAddr(u)
  BY <1>8, <1>9, <1>2, RunsAreHigh
<1>11. QED
  BY <1>2, <1>7, <1>8, <1>9, <1>10 DEF g

-----------------------------------------------------------------------------
(* What a step leaves alone.                                               *)

LEMMA Constants ==
  /\ Classes = 1 .. Len(SlabSizes) /\ Len(SlabSizes) \in Nat /\ LARGE \in Nat
  /\ \A c \in Classes : SlabSizes[c] \in Nat \ {0}
  /\ LARGE \notin Classes /\ None \notin Classes /\ None # LARGE /\ None \notin Slots
  /\ Slots \subseteq Nat /\ \A b \in Slots : b \in Nat /\ b < Total
  /\ TCACHE_CAPACITY \in Nat /\ TCACHE_REFILL \in 1 .. TCACHE_CAPACITY
  /\ TCACHE_SPILL \in 1 .. TCACHE_CAPACITY
<1>1. SlabSizes \in Seq(Nat \ {0}) /\ None \notin Nat
  BY SlabPoolAssumption
<1>2. Classes = 1 .. Len(SlabSizes) /\ Len(SlabSizes) \in Nat
  BY <1>1 DEF Classes
<1>3. \A c \in Classes : SlabSizes[c] \in Nat \ {0}
  BY <1>1, <1>2
<1>4. LARGE \in Nat /\ LARGE \notin Classes /\ None \notin Classes /\ None # LARGE
  BY <1>1, <1>2 DEF LARGE
<1>5. Slots \subseteq Nat /\ None \notin Slots /\ \A b \in Slots : b \in Nat /\ b < Total
  BY <1>1, FrontierAssumption DEF Slots
<1>6. TCACHE_CAPACITY \in Nat
  BY SlabPoolAssumption
<1>7. TCACHE_REFILL \in 1 .. TCACHE_CAPACITY /\ TCACHE_SPILL \in 1 .. TCACHE_CAPACITY
  BY SlabPoolAssumption
<1>8. QED
  BY <1>2, <1>3, <1>4, <1>5, <1>6, <1>7

(* A cache is not None.                                                    *)
LEMMA CacheIsSome == None \notin Caches
  BY SlabPoolAssumption DEF Caches

LEMMA IdleIsCall == Idle \in Calls
  BY DEF Idle, Calls, PCs, Ops, Maybe

(* The blocks of list c keep their owner, class and links.                 *)
SameList(own, own2, cls, cls2, links, links2, c) == \A b \in Slots :
  /\ own2[b] = ListTag(c) <=> own[b] = ListTag(c)
  /\ own[b] = ListTag(c) => cls2[b] = cls[b] /\ links2[b] = links[b]

LEMMA ListFrame ==
  ASSUME NEW own, NEW own2, NEW cls, NEW cls2, NEW c, NEW s, NEW top, NEW links, NEW links2,
         ListOK(own, cls, c, s, top, links), SameList(own, own2, cls, cls2, links, links2, c)
  PROVE  ListOK(own2, cls2, c, s, top, links2)
<1>0. /\ \A b \in Slots : own2[b] = ListTag(c) <=> own[b] = ListTag(c)
      /\ \A b \in Slots : own[b] = ListTag(c) => cls2[b] = cls[b] /\ links2[b] = links[b]
  BY DEF SameList
<1>1. Holds(own2, ListTag(c), s)
  BY <1>0, HoldsStays DEF ListOK
<1>2. \A b \in Slots : own2[b] = ListTag(c) => cls2[b] = c
  BY <1>0 DEF ListOK
<1>3. \A n \in 1 .. Len(s) : s[n] \in Slots /\ own[s[n]] = ListTag(c)
  BY ToSetIs DEF ListOK, Holds, HoldsSet
<1>4. QED
  BY <1>0, <1>1, <1>2, <1>3 DEF ListOK

LEMMA OwnsFrame ==
  ASSUME NEW own, NEW own2, NEW u, NEW chn, NEW ca, NEW call, NEW call2,
         Owns(own, u, chn, ca, call),
         \A b \in Slots : Of(own[b], u) \/ Of(own2[b], u) => own2[b] = own[b],
         call2.todo = call.todo, call2.first = call.first, call2.got = call.got,
         call2.addr = call.addr
  PROVE  Owns(own2, u, chn, ca, call2)
<1>1. ASSUME NEW g, Of(g, u) PROVE \A b \in Slots : own2[b] = g <=> own[b] = g
  BY <1>1
<1>2. /\ Of(ChainTag(u), u) /\ Of(GotTag(u), u) /\ Of(NewTag(u), u) /\ Of(TodoTag(u), u)
      /\ Of(AddrTag(u), u) /\ \A c : Of(BinTag(u, c), u)
  BY TagFacts DEF Of
<1>3. Holds(own2, ChainTag(u), chn)
  BY <1>1, <1>2, HoldsStays DEF Owns
<1>4. Holds(own2, TodoTag(u), call2.todo)
  BY <1>1, <1>2, HoldsStays DEF Owns
<1>5. ASSUME NEW c \in Classes PROVE Holds(own2, BinTag(u, c), BinOf(ca, c))
  BY <1>1, <1>2, HoldsStays DEF Owns
<1>6. /\ HoldsSet(own2, GotTag(u), IF call2.first = None THEN {call2.got} ELSE {})
      /\ HoldsSet(own2, NewTag(u), IF call2.first = None THEN {} ELSE {call2.got})
      /\ HoldsSet(own2, AddrTag(u), {call2.addr})
  BY <1>1, <1>2 DEF Owns, HoldsSet
<1>7. QED
  BY <1>3, <1>4, <1>5, <1>6 DEF Owns

LEMMA ClassesFrame ==
  ASSUME NEW own, NEW own2, NEW cls, NEW cls2, NEW u, NEW call, NEW call2,
         OwnClasses(own, cls, u, call),
         \A b \in Slots : Of(own[b], u) \/ Of(own2[b], u) => own2[b] = own[b],
         \A b \in Slots : Of(own[b], u) => cls2[b] = cls[b],
         call2.list = call.list, call2.class = call.class, call2.op = call.op
  PROVE  OwnClasses(own2, cls2, u, call2)
<1>2. /\ Of(ChainTag(u), u) /\ Of(GotTag(u), u) /\ Of(NewTag(u), u) /\ Of(TodoTag(u), u)
      /\ Of(AddrTag(u), u) /\ \A c : Of(BinTag(u, c), u)
  BY TagFacts DEF Of
<1>3. QED
  BY <1>2 DEF OwnClasses

(* The chain of a thread, and its end.                                     *)
LEMMA ChainIs ==
  ASSUME NEW own, NEW u, NEW chn, NEW links, NEW call, call.first # None,
         Holds(own, ChainTag(u), chn), ChainOK(chn, links, call)
  PROVE  /\ chn \in Seq(Slots) /\ Len(chn) \in Nat \ {0}
         /\ call.last \in Slots /\ own[call.last] = ChainTag(u)
         /\ \A n \in 1 .. Len(chn) : chn[n] \in Slots /\ own[chn[n]] = ChainTag(u)
         /\ chn[1] = call.last /\ chn[Len(chn)] = call.first
<1>1. chn \in Seq(Slots) /\ chn # << >> /\ chn[1] = call.last /\ chn[Len(chn)] = call.first
  BY DEF Holds, ChainOK
<1>2. Len(chn) \in Nat \ {0}
  BY <1>1, ToSetIs
<1>3. \A n \in 1 .. Len(chn) : chn[n] \in Slots /\ own[chn[n]] = ChainTag(u)
  BY <1>1, ToSetIs DEF Holds, HoldsSet
<1>4. QED
  BY <1>1, <1>2, <1>3

(* Thread u keeps its blocks, their classes and their links.               *)
SameBlocks(own, own2, cls, cls2, links, links2, u) == \A b \in Slots :
  /\ Of(own[b], u) \/ Of(own2[b], u) => own2[b] = own[b]
  /\ Of(own[b], u) => cls2[b] = cls[b] /\ links2[b] = links[b]

(* At most its CAS is bound to fail.                                       *)
SameCall(call, call2, heads, heads2, links, links2) ==
  /\ call2 \in {call, [call EXCEPT !.fresh = FALSE]}
  /\ call2.fresh = TRUE =>
       /\ heads2[call.list] = heads[call.list]
       /\ heads[call.list] # None => links2[heads[call.list]] = links[heads[call.list]]

(* A step of another thread.                                               *)
LEMMA ThreadFrame ==
  ASSUME NEW own, NEW own2, NEW cls, NEW cls2, NEW u, NEW chn, NEW ca, NEW call, NEW call2,
         NEW heads, NEW heads2, NEW links, NEW links2,
         ThreadOK(own, cls, u, chn, ca, call, heads, links),
         SameBlocks(own, own2, cls, cls2, links, links2, u),
         SameCall(call, call2, heads, heads2, links, links2)
  PROVE  ThreadOK(own2, cls2, u, chn, ca, call2, heads2, links2)
<1> SUFFICES
      ASSUME call2 \in {call, [call EXCEPT !.fresh = FALSE]},
             \A b \in Slots : Of(own[b], u) \/ Of(own2[b], u) => own2[b] = own[b],
             \A b \in Slots : Of(own[b], u) => cls2[b] = cls[b] /\ links2[b] = links[b],
             call2.fresh = TRUE =>
               /\ heads2[call.list] = heads[call.list]
               /\ heads[call.list] # None => links2[heads[call.list]] = links[heads[call.list]]
      PROVE  ThreadOK(own2, cls2, u, chn, ca, call2, heads2, links2)
  BY DEF SameBlocks, SameCall
<1>1. /\ call \in Calls /\ CallOK(call, ca) /\ ChainOK(chn, links, call)
      /\ Owns(own, u, chn, ca, call) /\ CasOK(call, heads, links)
  BY DEF ThreadOK, CallOK
<1>2. /\ call2 \in Calls /\ call2.pc = call.pc /\ call2.op = call.op /\ call2.class = call.class
      /\ call2.units = call.units /\ call2.addr = call.addr /\ call2.todo = call.todo
      /\ call2.list = call.list /\ call2.first = call.first /\ call2.last = call.last
      /\ call2.loaded = call.loaded /\ call2.succ = call.succ /\ call2.got = call.got
      /\ call2.extras = call.extras
  BY <1>1 DEF Calls
<1>3. call2.fresh = TRUE => call.fresh = TRUE
  BY <1>1 DEF Calls
<1>5. Owns(own2, u, chn, ca, call2)
  BY <1>1, <1>2, OwnsFrame
<1>6. OwnClasses(own2, cls2, u, call2)
  BY <1>2, ClassesFrame DEF ThreadOK
<1>7. CallOK(call2, ca)
  BY <1>1, <1>2 DEF CallOK, Bare, Returning, Refilling
<1>8. Of(ChainTag(u), u)
  BY TagFacts DEF Of
<1>9. ChainOK(chn, links2, call2)
  <2>1. CASE call.first = None
    BY <1>1, <1>2, <2>1 DEF ChainOK
  <2>2. CASE call.first # None
    <3>1. Len(chn) \in Nat \ {0} /\ \A n \in 1 .. Len(chn) : chn[n] \in Slots /\ own[chn[n]] = ChainTag(u)
      BY <1>1, <2>2, ChainIs DEF Owns
    <3>2. \A n \in 2 .. Len(chn) : n \in 1 .. Len(chn)
      BY <3>1
    <3>3. \A n \in 2 .. Len(chn) : links2[chn[n]] = links[chn[n]]
      BY <1>8, <3>1, <3>2
    <3>4. QED
      BY <1>1, <1>2, <2>2, <3>3 DEF ChainOK
  <2>3. QED
    BY <2>1, <2>2
<1>10. CasOK(call2, heads2, links2)
  <2> SUFFICES ASSUME call2.fresh = TRUE PROVE CasOK(call2, heads2, links2)
    BY DEF CasOK
  <2>1. /\ call.pc \in {"popNext", "popCas", "pushCas"} /\ call.loaded = heads[call.list]
        /\ call.pc = "popCas" => call.succ = links[call.loaded]
        /\ call.pc = "pushCas" => links[call.last] = call.loaded
    BY <1>1, <1>3 DEF CasOK
  <2>2. heads2[call.list] = heads[call.list]
    OBVIOUS
  <2>3. call.pc = "popCas" => links2[call.loaded] = links[call.loaded]
    BY <1>1, <2>1 DEF CallOK
  <2>4. call.pc = "pushCas" => links2[call.last] = links[call.last]
    <3>1. call.pc = "pushCas" => call.first # None
      BY <1>1 DEF CallOK
    <3>2. call.pc = "pushCas" => call.last \in Slots /\ own[call.last] = ChainTag(u)
      BY <1>1, <3>1, ChainIs DEF Owns
    <3>3. QED
      BY <1>8, <3>2
  <2>5. QED
    BY <1>2, <2>1, <2>2, <2>3, <2>4 DEF CasOK
<1>11. QED
  BY <1>5, <1>6, <1>7, <1>9, <1>10 DEF ThreadOK

LEMMA LayoutFrame ==
  ASSUME NEW own, NEW own2, NEW cls, NEW f, Layout(own, cls, f),
         \A b \in Slots : own2[b] = NoTag <=> own[b] = NoTag
  PROVE  Layout(own2, cls, f)
<1>1. SlabBlocks(own2, cls) = SlabBlocks(own, cls) /\ LargeBlocks(own2, cls) = LargeBlocks(own, cls)
  BY DEF SlabBlocks, LargeBlocks
<1>2. QED
  BY <1>1 DEF Layout

TypesNext ==
  /\ head' \in [Classes -> Maybe] /\ next' \in [Slots -> Maybe]
  /\ side' \in [Slots -> Classes \cup {LARGE, None}]
  /\ live' \subseteq Slots /\ pool' = "mapped"
  /\ cache' \in [Threads -> Caches \cup {None}] /\ th' \in [Threads -> Calls]
  /\ FrontierOK(frontier')

(* The next state is well formed, but for the other threads.               *)
NextOK(own, cls, stk, t, chn) ==
  /\ own \in [Slots -> Tags] /\ cls \in [Slots -> Classes \cup {LARGE}]
  /\ stk \in [Classes -> Seq(Slots)] /\ chn \in Seq(Slots)
  /\ HoldsSet(own, LiveTag, live') /\ SideOK(own, cls, side') /\ Layout(own, cls, frontier')
  /\ \A c \in Classes : ListOK(own, cls, c, stk[c], head'[c], next')
  /\ CacheOK(cache'[t], epoch')
  /\ ThreadOK(own, cls, t, chn, cache'[t], th'[t], head', next')

(* The other threads keep what they had.                                   *)
OthersKept(own, own2, cls, cls2, t) == \A u \in Threads \ {t} :
  /\ cache'[u] = cache[u] /\ SameCall(th[u], th'[u], head, head', next, next')
  /\ SameBlocks(own, own2, cls, cls2, next, next', u)

EpochNext == EpochInv' /\ epoch' \in Nat /\ epoch <= epoch'

LEMMA StepKeeps ==
  ASSUME TypesInv, TypesNext, EpochNext,
         NEW own, NEW cls, NEW stk, NEW chain \in [Threads -> Seq(Slots)],
         Blocked(own, cls, stk, chain), NEW t \in Threads,
         NEW own2, NEW cls2, NEW stk2, NEW chn,
         NextOK(own2, cls2, stk2, t, chn), OthersKept(own, own2, cls, cls2, t)
  PROVE  IInv'
<1> DEFINE chain2 == [chain EXCEPT ![t] = chn]
<1>1. chain2 \in [Threads -> Seq(Slots)] /\ chain2[t] = chn /\ \A u \in Threads \ {t} : chain2[u] = chain[u]
  BY DEF NextOK
<1> HIDE DEF chain2
<1>2. ASSUME NEW u \in Threads
      PROVE  ThreadOK(own2, cls2, u, chain2[u], cache'[u], th'[u], head', next')
  <2>1. CASE u = t
    BY <1>1, <2>1 DEF NextOK
  <2>2. CASE u # t
    <3>1. ThreadOK(own, cls, u, chain[u], cache[u], th[u], head, next)
      BY DEF Blocked
    <3>2. /\ u \in Threads \ {t} /\ SameBlocks(own, own2, cls, cls2, next, next', u)
          /\ SameCall(th[u], th'[u], head, head', next, next') /\ cache'[u] = cache[u]
      BY <2>2 DEF OthersKept
    <3>3. ThreadOK(own2, cls2, u, chain[u], cache[u], th'[u], head', next')
      BY <3>1, <3>2, ThreadFrame
    <3>4. QED
      BY <1>1, <3>2, <3>3
  <2>3. QED
    BY <2>1, <2>2
<1>3. Blocked(own2, cls2, stk2, chain2)'
  BY <1>2 DEF Blocked, NextOK
<1>4. \A u \in Threads : CacheOK(cache'[u], epoch')
  <2>1. ASSUME NEW u \in Threads \ {t} PROVE CacheOK(cache'[u], epoch')
    <3>1. CacheOK(cache[u], epoch) /\ cache'[u] = cache[u] /\ epoch \in Nat
      BY DEF TypesInv, OthersKept
    <3>2. cache[u] # None => cache[u].epoch \in Nat
      BY <3>1 DEF CacheOK, Caches
    <3>3. epoch' \in Nat /\ epoch <= epoch'
      BY DEF EpochNext
    <3>4. QED
      BY <3>1, <3>2, <3>3 DEF CacheOK
  <2>2. QED
    BY <2>1 DEF NextOK
<1>5. TypesInv'
  BY <1>4 DEF TypesInv, TypesNext, EpochNext
<1>6. stk2 \in [Classes -> Seq(Slots)]
  BY DEF NextOK
<1>7. QED
  BY <1>1, <1>3, <1>5, <1>6 DEF IInv, TypesNext, EpochNext

(* A step of thread t that leaves the lists alone: it moves blocks of its  *)
(* own, of callers, or that were nobody's.                                 *)
Mine(g, t) == Of(g, t) \/ g = NoTag \/ g = LiveTag

Moved(own, own2, cls, cls2, t) == \A b \in Slots :
  /\ own2[b] = own[b] \/ (Mine(own[b], t) /\ Mine(own2[b], t))
  /\ (cls2[b] = cls[b] /\ next'[b] = next[b]) \/ Mine(own[b], t)

LEMMA MineIs ==
  ASSUME NEW g, NEW t
  PROVE  /\ Mine(g, t) => (\A u : u # t => ~Of(g, u)) /\ \A c : g # ListTag(c)
         /\ \A c : ~Mine(ListTag(c), t)
         /\ Mine(NoTag, t) /\ Mine(LiveTag, t) /\ Mine(ChainTag(t), t) /\ Mine(GotTag(t), t)
         /\ Mine(NewTag(t), t) /\ Mine(TodoTag(t), t) /\ Mine(AddrTag(t), t)
         /\ \A c : Mine(BinTag(t, c), t)
  BY TagFacts DEF Mine, Of

(* The top of a list is a block of the list.                               *)
LEMMA TopIs ==
  ASSUME NEW own, NEW cls, NEW c, NEW s, NEW top, NEW links, ListOK(own, cls, c, s, top, links),
         top # None
  PROVE  /\ top \in Slots /\ own[top] = ListTag(c) /\ s # << >> /\ top = s[Len(s)]
         /\ s \in Seq(Slots) /\ Len(s) \in Nat \ {0}
<1>1. s \in Seq(Slots) /\ HoldsSet(own, ListTag(c), ToSet(s))
  BY DEF ListOK, Holds
<1>2. s # << >> /\ top = s[Len(s)]
  BY DEF ListOK
<1>3. Len(s) \in Nat \ {0} /\ Len(s) \in 1 .. Len(s)
  BY <1>1, <1>2, ToSetIs
<1>4. QED
  BY <1>1, <1>2, <1>3, ToSetIs DEF HoldsSet

(* A thread whose CAS can succeed works on a list.                         *)
LEMMA FreshList ==
  ASSUME NEW own, NEW cls, NEW u, NEW chn, NEW ca, NEW call, NEW heads, NEW links,
         ThreadOK(own, cls, u, chn, ca, call, heads, links),
         call.pc \in {"push", "pop", "popNext", "popCas", "pushCas"}
  PROVE  call.list \in Classes
<1>1. call \in Calls
  BY DEF ThreadOK, CallOK
<1>2. call.pc \in {"pop", "popNext", "popCas"} => call.list \in Classes
  BY DEF ThreadOK, CallOK, Refilling
<1>3. call.pc \in {"push", "pushCas"} => call.first # None /\ call.list \in Classes \cup {None}
  BY <1>1 DEF ThreadOK, CallOK, Calls
<1>4. call.pc \in {"push", "pushCas"} => call.list # None
  BY <1>3 DEF ThreadOK, ChainOK
<1>5. QED
  BY <1>2, <1>3, <1>4

LEMMA ThreadStep ==
  ASSUME TypesInv, TypesNext, EpochNext, head' = head,
         NEW own, NEW cls, NEW stk \in [Classes -> Seq(Slots)],
         NEW chain \in [Threads -> Seq(Slots)],
         Blocked(own, cls, stk, chain), NEW t \in Threads, CacheOK(cache'[t], epoch'),
         NEW own2 \in [Slots -> Tags], NEW cls2 \in [Slots -> Classes \cup {LARGE}],
         NEW chn \in Seq(Slots),
         HoldsSet(own2, LiveTag, live'), SideOK(own2, cls2, side'), Layout(own2, cls2, frontier'),
         ThreadOK(own2, cls2, t, chn, cache'[t], th'[t], head, next'),
         Moved(own, own2, cls, cls2, t),
         \A u \in Threads \ {t} : cache'[u] = cache[u] /\ th'[u] = th[u]
  PROVE  IInv'
<1>1. ASSUME NEW c \in Classes PROVE ListOK(own2, cls2, c, stk[c], head'[c], next')
  <2>1. ListOK(own, cls, c, stk[c], head[c], next)
    BY DEF Blocked
  <2>2. SameList(own, own2, cls, cls2, next, next', c)
    BY MineIs DEF Moved, SameList
  <2>3. ListOK(own2, cls2, c, stk[c], head[c], next')
    BY <2>1, <2>2, ListFrame
  <2>4. QED
    BY <2>3
<1>2. NextOK(own2, cls2, stk, t, chn)
  BY <1>1 DEF NextOK
<1>3. ASSUME NEW u \in Threads \ {t}
      PROVE  /\ cache'[u] = cache[u] /\ SameCall(th[u], th'[u], head, head', next, next')
             /\ SameBlocks(own, own2, cls, cls2, next, next', u)
  <2>1. SameBlocks(own, own2, cls, cls2, next, next', u)
    BY MineIs DEF Moved, SameBlocks
  <2>2. ASSUME th[u].fresh = TRUE, head[th[u].list] # None
        PROVE  next'[head[th[u].list]] = next[head[th[u].list]]
    <3> DEFINE c == th[u].list
    <3>1. ThreadOK(own, cls, u, chain[u], cache[u], th[u], head, next)
      BY DEF Blocked
    <3>2. th[u].pc \in {"popNext", "popCas", "pushCas"}
      BY <2>2, <3>1 DEF ThreadOK, CasOK
    <3>3. c \in Classes
      BY <3>1, <3>2, FreshList
    <3> HIDE DEF c
    <3>4. ListOK(own, cls, c, stk[c], head[c], next)
      BY <3>3 DEF Blocked
    <3>5. head[c] # None
      BY <2>2 DEF c
    <3>6. head[c] \in Slots /\ own[head[c]] = ListTag(c)
      BY <3>4, <3>5, TopIs
    <3>7. ~Mine(own[head[c]], t)
      BY <3>6, MineIs
    <3>8. QED
      BY <3>6, <3>7 DEF c, Moved
  <2>3. SameCall(th[u], th'[u], head, head', next, next')
    BY <2>2 DEF SameCall
  <2>4. QED
    BY <2>1, <2>3
<1>4. OthersKept(own, own2, cls, cls2, t)
  BY <1>3 DEF OthersKept
<1>5. QED
  BY <1>2, <1>4, StepKeeps

-----------------------------------------------------------------------------
(* Steps that move no block.                                               *)

LEMMA EpochStays ==
  ASSUME TypesInv, EpochInv, epoch' = epoch,
         \A u \in Threads : th'[u].op = "flush" => th[u].op = "flush"
  PROVE  EpochNext
<1>1. IsFiniteSet(Threads) /\ MaxEpoch \in Nat /\ epoch \in Nat
  BY SlabPoolAssumption DEF TypesInv
<1>2. Flushing \subseteq Threads /\ Flushing' \subseteq Flushing
  BY DEF Flushing
<1>3. IsFiniteSet(Flushing)
  BY <1>1, <1>2, FS_Subset
<1>4. Cardinality(Flushing') <= Cardinality(Flushing) /\ IsFiniteSet(Flushing')
  BY <1>2, <1>3, FS_Subset
<1>5. Cardinality(Flushing) \in Nat /\ Cardinality(Flushing') \in Nat
  BY <1>3, <1>4, FS_CardinalityType
<1>6. epoch + Cardinality(Flushing) <= MaxEpoch
  BY DEF EpochInv
<1>7. epoch' + Cardinality(Flushing') <= MaxEpoch
  BY <1>1, <1>4, <1>5, <1>6
<1>8. QED
  BY <1>1, <1>7 DEF EpochInv, EpochNext

(* Who owns what thread t holds.                                           *)
LEMMA OwnedBy ==
  ASSUME NEW own, NEW cls, NEW t, NEW chn, NEW ca, NEW call, NEW heads, NEW links,
         ThreadOK(own, cls, t, chn, ca, call, heads, links)
  PROVE  /\ \A b \in Slots :
              /\ own[b] = AddrTag(t) <=> b = call.addr
              /\ own[b] = GotTag(t) <=> call.first = None /\ b = call.got
              /\ own[b] = NewTag(t) <=> call.first # None /\ b = call.got
              /\ own[b] = TodoTag(t) <=> b \in ToSet(call.todo)
              /\ \A c \in Classes : own[b] = BinTag(t, c) <=> b \in ToSet(BinOf(ca, c))
              /\ call.first = None => own[b] # ChainTag(t)
         /\ call.first = None => chn = << >>
         /\ Holds(own, ChainTag(t), chn) /\ Holds(own, TodoTag(t), call.todo)
         /\ \A c \in Classes : Holds(own, BinTag(t, c), BinOf(ca, c))
         /\ call \in Calls /\ CallOK(call, ca) /\ CasOK(call, heads, links)
         /\ ChainOK(chn, links, call) /\ OwnClasses(own, cls, t, call) /\ Owns(own, t, chn, ca, call)
<1>1. Owns(own, t, chn, ca, call) /\ ChainOK(chn, links, call) /\ call \in Calls
  BY DEF ThreadOK, CallOK
<1>2. call.first = None => chn = << >>
  BY <1>1 DEF ChainOK
<1>3. ASSUME NEW b \in Slots, call.first = None PROVE own[b] # ChainTag(t)
  <2>1. own[b] = ChainTag(t) => b \in ToSet(<< >>)
    BY <1>1, <1>2, <1>3 DEF Owns, Holds, HoldsSet
  <2>2. QED
    BY <2>1 DEF ToSet
<1>4. ASSUME NEW b \in Slots
      PROVE  /\ own[b] = AddrTag(t) <=> b = call.addr
             /\ own[b] = GotTag(t) <=> call.first = None /\ b = call.got
             /\ own[b] = NewTag(t) <=> call.first # None /\ b = call.got
             /\ own[b] = TodoTag(t) <=> b \in ToSet(call.todo)
             /\ \A c \in Classes : own[b] = BinTag(t, c) <=> b \in ToSet(BinOf(ca, c))
  BY <1>1 DEF Owns, Holds, HoldsSet
<1>5. QED
  BY <1>1, <1>2, <1>3, <1>4 DEF ThreadOK, Owns

LEMMA CallFacts ==
  ASSUME IInv, NEW t \in Threads, pool = "mapped" \/ th[t].pc # "idle"
  PROVE  /\ pool = "mapped" /\ TypesInv /\ EpochInv
         /\ th[t] \in Calls /\ CallOK(th[t], cache[t]) /\ CasOK(th[t], head, next)
         /\ cache[t] \in Caches \cup {None} /\ CacheOK(cache[t], epoch)
         /\ th[t].pc \in {"push", "pop", "popNext", "popCas", "pushCas"} => th[t].list \in Classes
<1>1. pool = "mapped" /\ TypesInv /\ EpochInv
  BY DEF IInv, TypesInv
<1>2. PICK own, cls, stk, chain : ThreadOK(own, cls, t, chain[t], cache[t], th[t], head, next)
  BY <1>1 DEF IInv, Blocked
<1>3. th[t] \in Calls /\ CallOK(th[t], cache[t]) /\ CasOK(th[t], head, next)
  BY <1>2, OwnedBy
<1>4. th[t].pc \in {"push", "pop", "popNext", "popCas", "pushCas"} => th[t].list \in Classes
  BY <1>2, FreshList
<1>5. cache[t] \in Caches \cup {None} /\ CacheOK(cache[t], epoch)
  BY <1>1 DEF TypesInv
<1>6. QED
  BY <1>1, <1>3, <1>4, <1>5

(* Thread t goes on with call.                                             *)
Goes(t, call) ==
  /\ call \in Calls /\ th' = [th EXCEPT ![t] = call]
  /\ call.op = "flush" => th[t].op = "flush"

LEMMA GoesTo ==
  ASSUME TypesInv, NEW t \in Threads, NEW call, Goes(t, call)
  PROVE  /\ th'[t] = call /\ call \in Calls /\ th' \in [Threads -> Calls]
         /\ \A u \in Threads \ {t} : th'[u] = th[u]
         /\ \A u \in Threads : th'[u].op = "flush" => th[u].op = "flush"
  BY DEF Goes, TypesInv

LEMMA QuietStep ==
  ASSUME IInv, NEW t \in Threads, pool = "mapped",
         NEW call, Goes(t, call), UNCHANGED <<poolVars, cache, epoch, live, pool>>,
         call.todo = th[t].todo, call.first = th[t].first, call.got = th[t].got,
         call.addr = th[t].addr,
         th[t].first # None => call.list = th[t].list /\ call.last = th[t].last,
         th[t].got # None \/ th[t].addr # None => call.class = th[t].class,
         th[t].addr # None => call.op = th[t].op,
         CallOK(call, cache[t]), CasOK(call, head, next)
  PROVE  IInv'
<1>1. TypesInv /\ EpochInv /\ CacheOK(cache[t], epoch)
  BY CallFacts
<1>0. PICK own, cls :
        \E stk \in [Classes -> Seq(Slots)], chain \in [Threads -> Seq(Slots)] :
          Blocked(own, cls, stk, chain)
  BY DEF IInv
<1>2. PICK stk \in [Classes -> Seq(Slots)], chain \in [Threads -> Seq(Slots)] :
        Blocked(own, cls, stk, chain)
  BY <1>0
<1>3. /\ th'[t] = call /\ th' \in [Threads -> Calls]
      /\ \A u \in Threads \ {t} : th'[u] = th[u]
  BY <1>1, GoesTo
<1>4. EpochNext
  BY <1>1, EpochStays, GoesTo
<1>5. TypesNext
  BY <1>1, <1>3 DEF TypesInv, TypesNext, poolVars
<1>6. ThreadOK(own, cls, t, chain[t], cache[t], th[t], head, next)
  BY <1>2 DEF Blocked
<1>7. Owns(own, t, chain[t], cache[t], call)
  BY <1>6 DEF ThreadOK, Owns
<1>8. OwnClasses(own, cls, t, call)
  <2> SUFFICES ASSUME NEW b \in Slots
               PROVE /\ own[b] = ChainTag(t) => cls[b] = call.list
                     /\ own[b] \in {GotTag(t), NewTag(t)} => cls[b] = call.class
                     /\ own[b] = TodoTag(t) => cls[b] \in Classes
                     /\ own[b] = AddrTag(t) => CASE call.op = "free" -> cls[b] = call.class
                                                 [] call.op = "allocate" -> cls[b] \in Classes
                                                 [] OTHER -> TRUE
                     /\ \A c \in Classes : own[b] = BinTag(t, c) => cls[b] = c
    BY DEF OwnClasses
  <2>1. b # None
    BY Constants
  <2>2. /\ own[b] = ChainTag(t) => cls[b] = th[t].list
        /\ own[b] \in {GotTag(t), NewTag(t)} => cls[b] = th[t].class
        /\ own[b] = TodoTag(t) => cls[b] \in Classes
        /\ own[b] = AddrTag(t) => CASE th[t].op = "free" -> cls[b] = th[t].class
                                    [] th[t].op = "allocate" -> cls[b] \in Classes
                                    [] OTHER -> TRUE
        /\ \A c \in Classes : own[b] = BinTag(t, c) => cls[b] = c
    BY <1>6 DEF ThreadOK, OwnClasses
  <2>3. /\ own[b] = AddrTag(t) <=> b = th[t].addr
        /\ own[b] = GotTag(t) <=> th[t].first = None /\ b = th[t].got
        /\ own[b] = NewTag(t) <=> th[t].first # None /\ b = th[t].got
        /\ th[t].first = None => own[b] # ChainTag(t)
    BY <1>6, OwnedBy
  <2>4. QED
    BY <2>1, <2>2, <2>3
<1>9. ChainOK(chain[t], next, call)
  BY <1>6 DEF ThreadOK, ChainOK
<1>10. ThreadOK(own, cls, t, chain[t], cache[t], call, head, next)
  BY <1>7, <1>8, <1>9 DEF ThreadOK
<1>11. Moved(own, own, cls, cls, t)
  BY DEF Moved, poolVars
<1>12. /\ own \in [Slots -> Tags] /\ cls \in [Slots -> Classes \cup {LARGE}]
       /\ HoldsSet(own, LiveTag, live') /\ SideOK(own, cls, side') /\ Layout(own, cls, frontier')
  BY <1>2 DEF Blocked, poolVars
<1>13. /\ head' = head /\ CacheOK(cache'[t], epoch') /\ chain[t] \in Seq(Slots)
       /\ ThreadOK(own, cls, t, chain[t], cache'[t], th'[t], head, next')
       /\ \A u \in Threads \ {t} : cache'[u] = cache[u] /\ th'[u] = th[u]
  BY <1>1, <1>3, <1>10 DEF poolVars
<1>14. QED
  BY <1>1, <1>2, <1>4, <1>5, <1>11, <1>12, <1>13, ThreadStep

LEMMA AllocateKeeps ==
  ASSUME IInv, NEW t \in Threads, NEW c \in Classes, Allocate(t, c)
  PROVE  IInv'
<1> DEFINE call == [Idle EXCEPT !.pc = "check", !.op = "allocate", !.class = c]
<1>1. /\ pool = "mapped" /\ th[t].pc = "idle" /\ th' = [th EXCEPT ![t] = call]
      /\ UNCHANGED <<poolVars, cache, epoch, live, pool>>
  BY DEF Allocate, Begin, Step
<1>2. th[t] \in Calls /\ CallOK(th[t], cache[t])
  BY <1>1, CallFacts
<1>3. th[t].todo = << >> /\ th[t].got = None /\ th[t].first = None /\ th[t].addr = None
  BY <1>1, <1>2 DEF CallOK, Bare
<1>4. /\ call \in Calls /\ call.pc = "check" /\ call.op = "allocate" /\ call.class = c
      /\ call.addr = None /\ call.todo = << >> /\ call.list = None /\ call.first = None
      /\ call.got = None /\ call.extras = 0 /\ call.fresh = FALSE
  BY IdleIsCall DEF Idle, Calls, PCs, Ops
<1> HIDE DEF call
<1>5. Goes(t, call) /\ CallOK(call, cache[t]) /\ CasOK(call, head, next)
  BY <1>1, <1>4 DEF Goes, CallOK, CasOK, Bare
<1>6. QED
  BY <1>1, <1>3, <1>4, <1>5, QuietStep

LEMMA CacheMissKeeps ==
  ASSUME IInv, NEW t \in Threads, CacheMiss(t)
  PROVE  IInv'
<1> DEFINE call == [th[t] EXCEPT !.pc = "pop", !.list = th[t].class]
<1>1. /\ th[t].pc = "return" /\ th[t].todo = << >> /\ th[t].op = "allocate" /\ Bin(t) = << >>
      /\ th' = [th EXCEPT ![t] = call] /\ UNCHANGED <<poolVars, cache, epoch, live, pool>>
  BY DEF CacheMiss, Step
<1>2. th[t] \in Calls /\ CallOK(th[t], cache[t]) /\ CasOK(th[t], head, next) /\ pool = "mapped"
  BY <1>1, CallFacts
<1>3. /\ th[t].first = None /\ th[t].got = None /\ th[t].extras = 0 /\ th[t].class \in Classes
      /\ cache[t] # None /\ th[t].fresh # TRUE
  BY <1>1, <1>2 DEF CallOK, Returning, CasOK
<1>4. /\ call \in Calls /\ call.pc = "pop" /\ call.list = th[t].class
      /\ call.op = th[t].op /\ call.class = th[t].class
      /\ call.addr = th[t].addr /\ call.todo = th[t].todo /\ call.first = th[t].first
      /\ call.got = th[t].got /\ call.extras = th[t].extras /\ call.fresh = th[t].fresh
  BY <1>2, <1>3 DEF Calls, PCs
<1> HIDE DEF call
<1>5. Len(BinOf(cache[t], call.class)) = 0
  BY <1>1, <1>3, <1>4 DEF BinOf, Bin
<1>6. 0 <= TCACHE_REFILL - 1
  BY Constants
<1>7. CallOK(call, cache[t])
  BY <1>1, <1>3, <1>4, <1>5, <1>6 DEF CallOK, Refilling
<1>8. Goes(t, call) /\ CasOK(call, head, next)
  BY <1>1, <1>3, <1>4 DEF Goes, CasOK
<1>9. QED
  BY <1>1, <1>2, <1>3, <1>4, <1>7, <1>8, QuietStep

LEMMA CasFailsKeeps ==
  ASSUME IInv, NEW t \in Threads, CasFails(t)
  PROVE  IInv'
<1> DEFINE again == IF th[t].pc = "popCas" THEN "pop" ELSE "push"
           call == [th[t] EXCEPT !.pc = again, !.loaded = None, !.succ = None]
<1>1. /\ th[t].pc \in {"popCas", "pushCas"} /\ ~th[t].fresh
      /\ th' = [th EXCEPT ![t] = call] /\ UNCHANGED <<poolVars, cache, epoch, live, pool>>
  BY DEF CasFails, Step, CasSucceeds, Retry
<1>3. again \in PCs /\ again = IF th[t].pc = "popCas" THEN "pop" ELSE "push"
  BY DEF PCs
<1> HIDE DEF again
<1>2. th[t] \in Calls /\ CallOK(th[t], cache[t]) /\ pool = "mapped"
  BY <1>1, CallFacts
<1>4. /\ call \in Calls /\ call.pc = again
      /\ call.list = th[t].list
      /\ call.op = th[t].op /\ call.class = th[t].class
      /\ call.addr = th[t].addr /\ call.todo = th[t].todo /\ call.first = th[t].first
      /\ call.got = th[t].got /\ call.extras = th[t].extras /\ call.fresh = th[t].fresh
      /\ call.last = th[t].last
  BY <1>2, <1>3 DEF Calls, Maybe
<1> HIDE DEF call
<1>6. call.fresh # TRUE
  BY <1>1, <1>2, <1>4
<1>7. CallOK(call, cache[t])
  BY <1>1, <1>2, <1>3, <1>4 DEF CallOK, Refilling, Returning
<1>8. Goes(t, call) /\ CasOK(call, head, next)
  BY <1>1, <1>4, <1>6 DEF Goes, CasOK
<1>9. QED
  BY <1>1, <1>2, <1>4, <1>7, <1>8, QuietStep

LEMMA PopKeeps ==
  ASSUME IInv, NEW t \in Threads, Pop(t)
  PROVE  IInv'
<1> DEFINE call == IF head[th[t].list] = None THEN [th[t] EXCEPT !.pc = "carve"]
             ELSE [th[t] EXCEPT !.pc = "popNext", !.loaded = head[th[t].list], !.fresh = TRUE]
<1>1. /\ th[t].pc = "pop" /\ ~Refilled(t)
      /\ th' = [th EXCEPT ![t] = call] /\ UNCHANGED <<poolVars, cache, epoch, live, pool>>
  BY DEF Pop, Step
<1>2. /\ th[t] \in Calls /\ CallOK(th[t], cache[t]) /\ CasOK(th[t], head, next) /\ pool = "mapped"
      /\ TypesInv /\ th[t].list \in Classes
  BY <1>1, CallFacts
<1>3. th[t].first = None /\ Refilling(th[t], cache[t]) /\ th[t].fresh # TRUE
  BY <1>1, <1>2 DEF CallOK, CasOK
<1>4. head[th[t].list] \in Maybe
  BY <1>2 DEF TypesInv
<1>5. /\ call \in Calls /\ call.list = th[t].list
      /\ call.op = th[t].op /\ call.class = th[t].class
      /\ call.addr = th[t].addr /\ call.todo = th[t].todo /\ call.first = th[t].first
      /\ call.got = th[t].got /\ call.extras = th[t].extras /\ call.last = th[t].last
      /\ IF head[th[t].list] = None THEN call.pc = "carve" /\ call.fresh = th[t].fresh
         ELSE call.pc = "popNext" /\ call.loaded = head[th[t].list] /\ call.fresh = TRUE
  BY <1>2, <1>4 DEF Calls, PCs
<1> HIDE DEF call
<1>6. /\ head[th[t].list] = None => th[t].got = None
      /\ th[t].got # None => th[t].extras # TCACHE_REFILL - 1
      /\ TCACHE_REFILL \in Nat /\ th[t].extras \in Nat
  BY <1>1, <1>2, <1>3, Constants DEF Refilled, Refilling, Calls
<1>7. th[t].got # None => th[t].extras < TCACHE_REFILL - 1
  BY <1>3, <1>6 DEF Refilling
<1>8. CallOK(call, cache[t])
  BY <1>3, <1>5, <1>6, <1>7 DEF CallOK, Refilling
<1>9. Goes(t, call) /\ CasOK(call, head, next)
  BY <1>1, <1>3, <1>5 DEF Goes, CasOK
<1>10. QED
  BY <1>1, <1>2, <1>3, <1>5, <1>8, <1>9, QuietStep

LEMMA PopNextKeeps ==
  ASSUME IInv, NEW t \in Threads, PopNext(t)
  PROVE  IInv'
<1> DEFINE call == [th[t] EXCEPT !.pc = "popCas", !.succ = next[th[t].loaded]]
<1>1. /\ th[t].pc = "popNext"
      /\ th' = [th EXCEPT ![t] = call] /\ UNCHANGED <<poolVars, cache, epoch, live, pool>>
  BY DEF PopNext, Step
<1>2. /\ th[t] \in Calls /\ CallOK(th[t], cache[t]) /\ CasOK(th[t], head, next) /\ pool = "mapped"
      /\ TypesInv /\ th[t].list \in Classes
  BY <1>1, CallFacts
<1>3. th[t].first = None /\ Refilling(th[t], cache[t]) /\ th[t].loaded # None
  BY <1>1, <1>2 DEF CallOK
<1>4. next[th[t].loaded] \in Maybe
  BY <1>2, <1>3 DEF TypesInv, Calls, Maybe
<1>5. /\ call \in Calls /\ call.list = th[t].list
      /\ call.op = th[t].op /\ call.class = th[t].class
      /\ call.addr = th[t].addr /\ call.todo = th[t].todo /\ call.first = th[t].first
      /\ call.got = th[t].got /\ call.extras = th[t].extras /\ call.last = th[t].last
      /\ call.pc = "popCas" /\ call.loaded = th[t].loaded /\ call.succ = next[th[t].loaded]
      /\ call.fresh = th[t].fresh
  BY <1>2, <1>4 DEF Calls, PCs
<1> HIDE DEF call
<1>8. CallOK(call, cache[t])
  BY <1>1, <1>2, <1>3, <1>5 DEF CallOK, Refilling
<1>9. Goes(t, call) /\ CasOK(call, head, next)
  BY <1>1, <1>2, <1>3, <1>5 DEF Goes, CasOK
<1>10. QED
  BY <1>1, <1>2, <1>3, <1>5, <1>8, <1>9, QuietStep

(* push_chain links the end of the chain to the head it has loaded.        *)
LEMMA PushLinkKeeps ==
  ASSUME IInv, NEW t \in Threads, PushLink(t)
  PROVE  IInv'
<1> DEFINE top == head[th[t].list]
           call == [th[t] EXCEPT !.pc = "pushCas", !.loaded = top, !.fresh = TRUE]
           end == th[t].last
<1>1. /\ th[t].pc = "push" /\ next' = [next EXCEPT ![end] = top] /\ th' = [th EXCEPT ![t] = call]
      /\ UNCHANGED <<frontier, head, side, cache, epoch, live, pool>>
  BY DEF PushLink, Step
<1>2. /\ th[t] \in Calls /\ CallOK(th[t], cache[t]) /\ pool = "mapped" /\ TypesInv /\ EpochInv
      /\ th[t].list \in Classes /\ CacheOK(cache[t], epoch)
  BY <1>1, CallFacts
<1>3. top \in Maybe
  BY <1>2 DEF TypesInv
<1>4. /\ call \in Calls /\ call.pc = "pushCas" /\ call.list = th[t].list
      /\ call.op = th[t].op /\ call.class = th[t].class
      /\ call.addr = th[t].addr /\ call.todo = th[t].todo /\ call.first = th[t].first
      /\ call.got = th[t].got /\ call.extras = th[t].extras /\ call.last = end
      /\ call.loaded = top /\ call.fresh = TRUE
  BY <1>2, <1>3 DEF Calls, PCs
<1> HIDE DEF call, top
<1>5. PICK own, cls :
        \E stk \in [Classes -> Seq(Slots)], chain \in [Threads -> Seq(Slots)] :
          Blocked(own, cls, stk, chain)
  BY <1>2 DEF IInv
<1>6. PICK stk \in [Classes -> Seq(Slots)], chain \in [Threads -> Seq(Slots)] :
        Blocked(own, cls, stk, chain)
  BY <1>5
<1> DEFINE chn == chain[t]
<1>7. ThreadOK(own, cls, t, chn, cache[t], th[t], head, next)
  BY <1>6 DEF Blocked
<1>8. th[t].first # None /\ Holds(own, ChainTag(t), chn) /\ ChainOK(chn, next, th[t])
  BY <1>1, <1>2, <1>7 DEF CallOK, ThreadOK, Owns
<1>9. /\ Len(chn) \in Nat \ {0} /\ end \in Slots /\ own[end] = ChainTag(t) /\ chn[1] = end
      /\ \A n \in 1 .. Len(chn) : chn[n] \in Slots
  BY <1>8, ChainIs
<1>10. next' \in [Slots -> Maybe] /\ next'[end] = top
       /\ \A b \in Slots : b # end => next'[b] = next[b]
  BY <1>1, <1>2, <1>3, <1>9 DEF TypesInv
<1>11. ChainOK(chn, next', call)
  <2>1. \A n \in 2 .. Len(chn) : chn[n] # end /\ chn[n] \in Slots
    BY <1>8, <1>9 DEF Holds, Distinct
  <2>2. \A n \in 2 .. Len(chn) : next'[chn[n]] = next[chn[n]]
    BY <1>10, <2>1
  <2>3. QED
    BY <1>4, <1>8, <2>2 DEF ChainOK
<1>12. CallOK(call, cache[t])
  BY <1>1, <1>2, <1>4 DEF CallOK, Refilling, Returning
<1>13. CasOK(call, head, next')
  BY <1>4, <1>10 DEF CasOK, top
<1>14. Owns(own, t, chn, cache[t], call) /\ OwnClasses(own, cls, t, call)
  BY <1>4, <1>7 DEF ThreadOK, Owns, OwnClasses
<1>15. ThreadOK(own, cls, t, chn, cache[t], call, head, next')
  BY <1>11, <1>12, <1>13, <1>14 DEF ThreadOK
<1>16. Goes(t, call)
  BY <1>1, <1>4 DEF Goes
<1>17. /\ th'[t] = call /\ th' \in [Threads -> Calls]
       /\ \A u \in Threads \ {t} : th'[u] = th[u]
  BY <1>2, <1>16, GoesTo
<1>18. EpochNext
  BY <1>1, <1>2, <1>16, EpochStays, GoesTo
<1>19. TypesNext
  BY <1>1, <1>2, <1>10, <1>17 DEF TypesInv, TypesNext
<1>20. Moved(own, own, cls, cls, t)
  BY <1>9, <1>10, MineIs DEF Moved
<1>21. /\ own \in [Slots -> Tags] /\ cls \in [Slots -> Classes \cup {LARGE}]
       /\ HoldsSet(own, LiveTag, live') /\ SideOK(own, cls, side') /\ Layout(own, cls, frontier')
  BY <1>1, <1>6 DEF Blocked
<1>22. /\ head' = head /\ CacheOK(cache'[t], epoch') /\ chn \in Seq(Slots)
       /\ ThreadOK(own, cls, t, chn, cache'[t], th'[t], head, next')
       /\ \A u \in Threads \ {t} : cache'[u] = cache[u] /\ th'[u] = th[u]
  BY <1>1, <1>2, <1>15, <1>17
<1> HIDE DEF chn
<1>23. QED
  BY <1>2, <1>6, <1>18, <1>19, <1>20, <1>21, <1>22, ThreadStep

-----------------------------------------------------------------------------
(* Steps that move a block.                                                *)

LEMMA TagsDiffer ==
  ASSUME NEW t
  PROVE  /\ NoTag # LiveTag
         /\ \A c : /\ NoTag # ListTag(c) /\ LiveTag # ListTag(c) /\ ChainTag(t) # ListTag(c)
                   /\ GotTag(t) # ListTag(c) /\ NewTag(t) # ListTag(c) /\ TodoTag(t) # ListTag(c)
                   /\ AddrTag(t) # ListTag(c) /\ \A d : BinTag(t, d) # ListTag(c)
         /\ \A c : /\ NoTag # BinTag(t, c) /\ LiveTag # BinTag(t, c) /\ ChainTag(t) # BinTag(t, c)
                   /\ GotTag(t) # BinTag(t, c) /\ NewTag(t) # BinTag(t, c)
                   /\ TodoTag(t) # BinTag(t, c) /\ AddrTag(t) # BinTag(t, c)
         /\ NoTag # ChainTag(t) /\ NoTag # GotTag(t) /\ NoTag # NewTag(t) /\ NoTag # TodoTag(t)
         /\ NoTag # AddrTag(t) /\ LiveTag # ChainTag(t) /\ LiveTag # GotTag(t)
         /\ LiveTag # NewTag(t) /\ LiveTag # TodoTag(t) /\ LiveTag # AddrTag(t)
         /\ ChainTag(t) # GotTag(t) /\ ChainTag(t) # NewTag(t) /\ ChainTag(t) # TodoTag(t)
         /\ ChainTag(t) # AddrTag(t) /\ GotTag(t) # NewTag(t) /\ GotTag(t) # TodoTag(t)
         /\ GotTag(t) # AddrTag(t) /\ NewTag(t) # TodoTag(t) /\ NewTag(t) # AddrTag(t)
         /\ TodoTag(t) # AddrTag(t)
  BY TagFacts

LEMMA OutIs ==
  ASSUME NEW t
  PROVE  /\ Out(LiveTag) /\ Out(GotTag(t)) /\ Out(TodoTag(t)) /\ Out(AddrTag(t))
         /\ \A c : Out(BinTag(t, c)) /\ ~Out(ListTag(c))
         /\ ~Out(NoTag) /\ ~Out(ChainTag(t)) /\ ~Out(NewTag(t))
  BY TagFacts DEF Out

(* A thread that is pushing nothing.                                       *)
LEMMA ChainlessThread ==
  ASSUME NEW own, NEW cls, NEW t, NEW ca, NEW call, NEW heads, NEW links,
         call.first = None, CallOK(call, ca), CasOK(call, heads, links),
         \A b \in Slots : /\ own[b] # ChainTag(t) /\ own[b] # NewTag(t)
                          /\ own[b] = GotTag(t) <=> b = call.got
                          /\ own[b] = AddrTag(t) <=> b = call.addr,
         Holds(own, TodoTag(t), call.todo),
         \A c \in Classes : Holds(own, BinTag(t, c), BinOf(ca, c)),
         OwnClasses(own, cls, t, call)
  PROVE  ThreadOK(own, cls, t, << >>, ca, call, heads, links) /\ << >> \in Seq(Slots)
<1>1. Holds(own, ChainTag(t), << >>)
  BY HoldsNone
<1>2. Owns(own, t, << >>, ca, call)
  BY <1>1 DEF Owns, HoldsSet
<1>3. ChainOK(<< >>, links, call)
  BY DEF ChainOK
<1>4. QED
  BY <1>2, <1>3 DEF ThreadOK

(* Thread t goes on with call, the lists are as they were and the rest is  *)
(* well typed.                                                             *)
Moves(t, call) ==
  /\ pool = "mapped" /\ call \in Calls /\ th' = [th EXCEPT ![t] = call] /\ EpochNext
  /\ head' = head /\ pool' = pool /\ next' \in [Slots -> Maybe]
  /\ side' \in [Slots -> Classes \cup {LARGE, None}] /\ live' \subseteq Slots
  /\ FrontierOK(frontier') /\ cache' \in [Threads -> Caches \cup {None}]
  /\ CacheOK(cache'[t], epoch') /\ \A u \in Threads \ {t} : cache'[u] = cache[u]

LEMMA MoveStep ==
  ASSUME IInv, NEW t \in Threads, NEW call, Moves(t, call),
         NEW own, NEW cls, NEW stk \in [Classes -> Seq(Slots)],
         NEW chain \in [Threads -> Seq(Slots)], Blocked(own, cls, stk, chain),
         NEW own2 \in [Slots -> Tags], NEW cls2 \in [Slots -> Classes \cup {LARGE}],
         NEW chn \in Seq(Slots),
         HoldsSet(own2, LiveTag, live'), SideOK(own2, cls2, side'), Layout(own2, cls2, frontier'),
         Moved(own, own2, cls, cls2, t),
         ThreadOK(own2, cls2, t, chn, cache'[t], call, head, next')
  PROVE  IInv'
<1>1. TypesInv
  BY DEF IInv
<1>2. /\ th'[t] = call /\ th' \in [Threads -> Calls] /\ \A u \in Threads \ {t} : th'[u] = th[u]
  BY <1>1 DEF TypesInv, Moves
<1>3. /\ EpochNext /\ head' = head /\ CacheOK(cache'[t], epoch') /\ pool' = "mapped"
      /\ head' \in [Classes -> Maybe]
  BY <1>1 DEF Moves, TypesInv
<1>7. TypesNext
  BY <1>2, <1>3 DEF Moves, TypesNext
<1>4. ThreadOK(own2, cls2, t, chn, cache'[t], th'[t], head, next')
  BY <1>2
<1>5. \A u \in Threads \ {t} : cache'[u] = cache[u] /\ th'[u] = th[u]
  BY <1>2 DEF Moves
<1>6. QED
  BY <1>1, <1>3, <1>4, <1>5, <1>7, ThreadStep

(* A block that was a caller's, or nobody's, is so again.                  *)
LEMMA GoesEpoch ==
  ASSUME IInv, NEW t \in Threads, NEW call, Goes(t, call), epoch' = epoch
  PROVE  EpochNext
<1>1. TypesInv /\ EpochInv
  BY DEF IInv
<1>2. QED
  BY <1>1, EpochStays, GoesTo

(* A caller's block becomes the one a call frees or grows.                 *)
LEMMA TakeStep ==
  ASSUME IInv, NEW t \in Threads, pool = "mapped", th[t].pc = "idle", NEW b \in live,
         NEW call, Goes(t, call), live' = live \ {b},
         UNCHANGED <<poolVars, cache, epoch, pool>>,
         call.addr = b, call.todo = << >>, call.first = None, call.got = None, call.fresh = FALSE,
         call.op = "free" => call.class = side[b], call.op = "allocate" => side[b] \in Classes,
         CallOK(call, cache[t])
  PROVE  IInv'
<1>1. TypesInv /\ CacheOK(cache[t], epoch) /\ CallOK(th[t], cache[t]) /\ b \in Slots /\ b # None
  BY CallFacts, Constants DEF TypesInv
<1>2. PICK own, cls :
        \E stk \in [Classes -> Seq(Slots)], chain \in [Threads -> Seq(Slots)] :
          Blocked(own, cls, stk, chain)
  BY DEF IInv
<1>3. PICK stk \in [Classes -> Seq(Slots)], chain \in [Threads -> Seq(Slots)] :
        Blocked(own, cls, stk, chain)
  BY <1>2
<1>4. /\ own \in [Slots -> Tags] /\ cls \in [Slots -> Classes \cup {LARGE}]
      /\ HoldsSet(own, LiveTag, live) /\ SideOK(own, cls, side) /\ Layout(own, cls, frontier)
      /\ ThreadOK(own, cls, t, chain[t], cache[t], th[t], head, next)
  BY <1>3 DEF Blocked
<1> DEFINE g == AddrTag(t)
           own2 == Give(own, {b}, g)
<1>5. g \in Tags
  BY TagsAre
<1>6. own2 \in [Slots -> Tags] /\ own2[b] = g /\ \A d \in Slots : d # b => own2[d] = own[d]
  BY <1>1, <1>4, <1>5, GiveIs
<1> HIDE DEF own2
<1>7. own[b] = LiveTag /\ side[b] = cls[b]
  BY <1>1, <1>4, OutIs DEF HoldsSet, SideOK
<1>8. th[t].todo = << >> /\ th[t].first = None /\ th[t].got = None /\ th[t].addr = None
  BY <1>1 DEF CallOK, Bare
<1>9. HoldsSet(own2, LiveTag, live')
  BY <1>1, <1>4, <1>6, TagsDiffer DEF HoldsSet
<1>10. SideOK(own2, cls, side')
  BY <1>4, <1>6, <1>7, OutIs DEF SideOK, poolVars
<1>11. Layout(own2, cls, frontier')
  <2>1. \A d \in Slots : own2[d] = NoTag <=> own[d] = NoTag
    BY <1>6, <1>7, TagsDiffer
  <2>2. Layout(own2, cls, frontier)
    BY <1>4, <2>1, LayoutFrame
  <2>3. QED
    BY <2>2 DEF poolVars
<1>12. Moved(own, own2, cls, cls, t)
  BY <1>6, <1>7, MineIs DEF Moved, poolVars
<1>13. Moves(t, call)
  <2>1. EpochNext
    BY GoesEpoch
  <2>2. QED
    BY <1>1, <2>1 DEF Moves, Goes, poolVars, TypesInv
<1>14. /\ \A d \in Slots : /\ own[d] # ChainTag(t) /\ own[d] # NewTag(t) /\ own[d] # GotTag(t)
                           /\ own[d] # AddrTag(t)
       /\ Holds(own, TodoTag(t), << >>) /\ OwnClasses(own, cls, t, th[t])
       /\ \A c \in Classes : Holds(own, BinTag(t, c), BinOf(cache[t], c))
  BY <1>4, <1>8, OwnedBy, Constants
<1>15. \A d \in Slots : /\ own2[d] # ChainTag(t) /\ own2[d] # NewTag(t)
                        /\ own2[d] = GotTag(t) <=> d = call.got
                        /\ own2[d] = AddrTag(t) <=> d = call.addr
  BY <1>6, <1>14, TagsDiffer, Constants
<1>16. Holds(own2, TodoTag(t), call.todo)
  <2>1. \A d \in Slots : own2[d] = TodoTag(t) <=> own[d] = TodoTag(t)
    BY <1>6, <1>7, TagsDiffer
  <2>2. QED
    BY <1>14, <2>1, HoldsStays
<1>17. ASSUME NEW c \in Classes PROVE Holds(own2, BinTag(t, c), BinOf(cache[t], c))
  <2>1. \A d \in Slots : own2[d] = BinTag(t, c) <=> own[d] = BinTag(t, c)
    BY <1>6, <1>7, TagsDiffer
  <2>2. QED
    BY <1>14, <2>1, HoldsStays
<1>18. OwnClasses(own2, cls, t, call)
  <2> SUFFICES ASSUME NEW d \in Slots
               PROVE /\ own2[d] = ChainTag(t) => cls[d] = call.list
                     /\ own2[d] \in {GotTag(t), NewTag(t)} => cls[d] = call.class
                     /\ own2[d] = TodoTag(t) => cls[d] \in Classes
                     /\ own2[d] = AddrTag(t) => CASE call.op = "free" -> cls[d] = call.class
                                                  [] call.op = "allocate" -> cls[d] \in Classes
                                                  [] OTHER -> TRUE
                     /\ \A c \in Classes : own2[d] = BinTag(t, c) => cls[d] = c
    BY DEF OwnClasses
  <2>1. CASE d = b
    BY <1>6, <1>7, <2>1, TagsDiffer
  <2>2. CASE d # b
    <3>1. own2[d] = own[d]
      BY <1>6, <2>2
    <3>2. /\ own[d] = TodoTag(t) => cls[d] \in Classes
          /\ \A c \in Classes : own[d] = BinTag(t, c) => cls[d] = c
      BY <1>14 DEF OwnClasses
    <3>3. QED
      BY <1>14, <3>1, <3>2
  <2>3. QED
    BY <2>1, <2>2
<1>19. CasOK(call, head, next)
  BY DEF CasOK
<1>20. ThreadOK(own2, cls, t, << >>, cache[t], call, head, next) /\ << >> \in Seq(Slots)
  BY <1>15, <1>16, <1>17, <1>18, <1>19, ChainlessThread
<1>21. ThreadOK(own2, cls, t, << >>, cache'[t], call, head, next')
  BY <1>20 DEF poolVars
<1>22. QED
  BY <1>3, <1>4, <1>6, <1>9, <1>10, <1>11, <1>12, <1>13, <1>20, <1>21, MoveStep

LEMMA FreeKeeps ==
  ASSUME IInv, NEW t \in Threads, NEW b \in live, Free(t, b)
  PROVE  IInv'
<1> DEFINE call == [Idle EXCEPT !.pc = "check", !.op = "free", !.class = side[b], !.addr = b]
<1>1. /\ pool = "mapped" /\ th[t].pc = "idle" /\ th' = [th EXCEPT ![t] = call] /\ live' = live \ {b}
      /\ UNCHANGED <<poolVars, cache, epoch, pool>> /\ side[b] # LARGE
  BY DEF Free, Begin, Step
<1>2. TypesInv /\ b \in Slots
  BY <1>1, CallFacts DEF TypesInv
<1>3. side[b] \in Classes
  <2>1. PICK own, cls, stk, chain : Blocked(own, cls, stk, chain)
    BY <1>1 DEF IInv
  <2>2. own[b] = LiveTag /\ side[b] = cls[b] /\ cls[b] \in Classes \cup {LARGE}
    BY <1>2, <2>1, OutIs DEF Blocked, HoldsSet, SideOK
  <2>3. QED
    BY <1>1, <2>2
<1>4. /\ call \in Calls /\ call.pc = "check" /\ call.op = "free" /\ call.class = side[b]
      /\ call.addr = b /\ call.todo = << >> /\ call.list = None /\ call.first = None
      /\ call.got = None /\ call.extras = 0 /\ call.fresh = FALSE
  BY <1>2, <1>3, IdleIsCall DEF Idle, Calls, PCs, Ops, Maybe
<1> HIDE DEF call
<1>5. Goes(t, call) /\ CallOK(call, cache[t])
  BY <1>1, <1>2, <1>3, <1>4, Constants DEF Goes, CallOK, Bare
<1>6. QED
  BY <1>1, <1>4, <1>5, TakeStep

LEMMA GrowByCopyKeeps ==
  ASSUME IInv, NEW t \in Threads, NEW b \in live, NEW k \in RunSizes, GrowByCopy(t, b, k)
  PROVE  IInv'
<1> DEFINE call == [Idle EXCEPT !.pc = "copy", !.op = "grow", !.units = k, !.addr = b]
<1>1. /\ pool = "mapped" /\ th[t].pc = "idle" /\ th' = [th EXCEPT ![t] = call] /\ live' = live \ {b}
      /\ UNCHANGED <<poolVars, cache, epoch, pool>>
  BY DEF GrowByCopy, Begin, Step
<1>2. b \in Slots /\ k \in Nat
  BY <1>1, CallFacts, SlabPoolAssumption DEF TypesInv
<1>4. /\ call \in Calls /\ call.pc = "copy" /\ call.op = "grow" /\ call.units = k
      /\ call.addr = b /\ call.todo = << >> /\ call.list = None /\ call.first = None
      /\ call.got = None /\ call.extras = 0 /\ call.fresh = FALSE
  BY <1>2, IdleIsCall DEF Idle, Calls, PCs, Ops, Maybe
<1> HIDE DEF call
<1>5. Goes(t, call) /\ CallOK(call, cache[t])
  BY <1>1, <1>2, <1>4, Constants DEF Goes, CallOK, Bare
<1>6. QED
  BY <1>1, <1>4, <1>5, TakeStep

LEMMA GrowSlabKeeps ==
  ASSUME IInv, NEW t \in Threads, NEW b \in live, NEW c \in Classes, GrowSlab(t, b, c)
  PROVE  IInv'
<1> DEFINE call == [Idle EXCEPT !.pc = "check", !.op = "allocate", !.class = c, !.addr = b]
<1>1. /\ pool = "mapped" /\ th[t].pc = "idle" /\ th' = [th EXCEPT ![t] = call] /\ live' = live \ {b}
      /\ UNCHANGED <<poolVars, cache, epoch, pool>> /\ side[b] < c
  BY DEF GrowSlab, Begin, Step
<1>2. TypesInv /\ b \in Slots
  BY <1>1, CallFacts DEF TypesInv
<1>3. side[b] \in Classes
  <2>1. PICK own, cls, stk, chain : Blocked(own, cls, stk, chain)
    BY <1>1 DEF IInv
  <2>2. own[b] = LiveTag /\ side[b] = cls[b] /\ cls[b] \in Classes \cup {LARGE}
    BY <1>2, <2>1, OutIs DEF Blocked, HoldsSet, SideOK
  <2>3. c \in 1 .. Len(SlabSizes) /\ Len(SlabSizes) \in Nat /\ LARGE = Len(SlabSizes) + 1
    BY Constants DEF LARGE
  <2>4. QED
    BY <1>1, <2>2, <2>3
<1>4. /\ call \in Calls /\ call.pc = "check" /\ call.op = "allocate" /\ call.class = c
      /\ call.addr = b /\ call.todo = << >> /\ call.list = None /\ call.first = None
      /\ call.got = None /\ call.extras = 0 /\ call.fresh = FALSE
  BY <1>2, IdleIsCall DEF Idle, Calls, PCs, Ops, Maybe
<1> HIDE DEF call
<1>5. Goes(t, call) /\ CallOK(call, cache[t])
  BY <1>1, <1>4 DEF Goes, CallOK, Bare
<1>6. QED
  BY <1>1, <1>3, <1>4, <1>5, TakeStep

(* Blocks with a side table entry that keep it.                            *)
LEMMA MoveOut ==
  ASSUME IInv, NEW t \in Threads, NEW call, Moves(t, call),
         NEW own, NEW cls, NEW stk \in [Classes -> Seq(Slots)],
         NEW chain \in [Threads -> Seq(Slots)], Blocked(own, cls, stk, chain),
         NEW S, NEW g \in Tags, Out(g), Mine(g, t),
         \A b \in Slots : b \in S => Out(own[b]) /\ Mine(own[b], t),
         \A b \in Slots : b \notin S => next'[b] = next[b],
         frontier' = frontier, side' = side, HoldsSet(Give(own, S, g), LiveTag, live'),
         NEW chn \in Seq(Slots), ThreadOK(Give(own, S, g), cls, t, chn, cache'[t], call, head, next')
  PROVE  IInv'
<1> DEFINE own2 == Give(own, S, g)
<1>1. /\ own \in [Slots -> Tags] /\ cls \in [Slots -> Classes \cup {LARGE}]
      /\ SideOK(own, cls, side) /\ Layout(own, cls, frontier)
  BY DEF Blocked
<1>2. own2 \in [Slots -> Tags] /\ \A b \in Slots : own2[b] = IF b \in S THEN g ELSE own[b]
  BY <1>1, GiveIs
<1>3. HoldsSet(own2, LiveTag, live') /\ ThreadOK(own2, cls, t, chn, cache'[t], call, head, next')
  OBVIOUS
<1> HIDE DEF own2
<1>4. SideOK(own2, cls, side')
  BY <1>1, <1>2 DEF SideOK
<1>5. Layout(own2, cls, frontier')
  <2>1. \A d \in Slots : own2[d] = NoTag <=> own[d] = NoTag
    BY <1>2, OutIs
  <2>2. QED
    BY <1>1, <2>1, LayoutFrame
<1>6. Moved(own, own2, cls, cls, t)
  BY <1>2 DEF Moved
<1>7. QED
  BY <1>1, <1>2, <1>3, <1>4, <1>5, <1>6, MoveStep

LEMMA KeptHold ==
  ASSUME NEW own \in [Slots -> Tags], NEW S, NEW g \in Tags, NEW h, NEW s, Holds(own, h, s), g # h,
         \A b \in Slots : b \in S => own[b] # h
  PROVE  Holds(Give(own, S, g), h, s)
<1>1. \A b \in Slots : Give(own, S, g)[b] = h <=> own[b] = h
  BY GiveIs
<1>2. QED
  BY <1>1, HoldsStays

LEMMA IdleIs ==
  ASSUME NEW ca, NEW heads, NEW links
  PROVE  /\ Idle \in Calls /\ CallOK(Idle, ca) /\ CasOK(Idle, heads, links)
         /\ Idle.pc = "idle" /\ Idle.op = "none" /\ Idle.addr = None /\ Idle.todo = << >>
         /\ Idle.first = None /\ Idle.got = None /\ Idle.list = None /\ Idle.extras = 0
         /\ Idle.fresh = FALSE
<1>1. /\ Idle.pc = "idle" /\ Idle.op = "none" /\ Idle.addr = None /\ Idle.todo = << >>
      /\ Idle.first = None /\ Idle.got = None /\ Idle.list = None /\ Idle.extras = 0
      /\ Idle.fresh = FALSE
  BY DEF Idle
<1>2. QED
  BY <1>1, IdleIsCall DEF CallOK, CasOK, Bare

(* A thread that has ended its call holds its bins only.                   *)
LEMMA IdleThread ==
  ASSUME NEW own, NEW cls, NEW t, NEW ca, NEW heads, NEW links,
         \A b \in Slots : /\ own[b] # ChainTag(t) /\ own[b] # NewTag(t) /\ own[b] # GotTag(t)
                          /\ own[b] # AddrTag(t) /\ own[b] # TodoTag(t)
                          /\ \A c \in Classes : own[b] = BinTag(t, c) => cls[b] = c,
         \A c \in Classes : Holds(own, BinTag(t, c), BinOf(ca, c))
  PROVE  ThreadOK(own, cls, t, << >>, ca, Idle, heads, links) /\ << >> \in Seq(Slots)
<1>1. /\ CallOK(Idle, ca) /\ CasOK(Idle, heads, links) /\ Idle.addr = None /\ Idle.todo = << >>
      /\ Idle.first = None /\ Idle.got = None
  BY IdleIs
<1>2. Holds(own, TodoTag(t), Idle.todo)
  BY <1>1, HoldsNone
<1>3. OwnClasses(own, cls, t, Idle)
  BY DEF OwnClasses
<1>4. \A b \in Slots : /\ own[b] # ChainTag(t) /\ own[b] # NewTag(t)
                       /\ own[b] = GotTag(t) <=> b = Idle.got
                       /\ own[b] = AddrTag(t) <=> b = Idle.addr
  BY <1>1, Constants
<1>5. QED
  BY <1>1, <1>2, <1>3, <1>4, ChainlessThread

(* The todo of a thread is empty.                                          *)
LEMMA NoTodo ==
  ASSUME NEW own, NEW t, Holds(own, TodoTag(t), << >>)
  PROVE  \A b \in Slots : own[b] # TodoTag(t)
  BY DEF Holds, HoldsSet, ToSet

LEMMA ExhaustedKeeps ==
  ASSUME IInv, NEW t \in Threads, Exhausted(t)
  PROVE  IInv'
<1> DEFINE a == th[t].addr
<1>1. /\ th[t].pc \in {"carve", "copy"} /\ th' = [th EXCEPT ![t] = Idle]
      /\ live' = live \cup ({a} \ {None}) /\ UNCHANGED <<poolVars, cache, epoch, pool>>
  BY DEF Exhausted, Step
<1>2. /\ pool = "mapped" /\ TypesInv /\ th[t] \in Calls /\ CallOK(th[t], cache[t])
      /\ CacheOK(cache[t], epoch)
  BY <1>1, CallFacts
<1>3. th[t].todo = << >> /\ th[t].first = None /\ th[t].got = None
  BY <1>1, <1>2 DEF CallOK, Refilling, Bare
<1>4. a \in Slots \cup {None} /\ None \notin Slots
  BY <1>2, Constants DEF Calls, Maybe
<1>5. Moves(t, Idle)
  <2>1. EpochNext
    BY <1>1, IdleIs, GoesEpoch DEF Goes
  <2>2. live' \subseteq Slots
    BY <1>1, <1>2, <1>4 DEF TypesInv
  <2>3. QED
    BY <1>1, <1>2, <2>1, <2>2, IdleIs DEF Moves, poolVars, TypesInv
<1>6. PICK own, cls :
        \E stk \in [Classes -> Seq(Slots)], chain \in [Threads -> Seq(Slots)] :
          Blocked(own, cls, stk, chain)
  BY <1>2 DEF IInv
<1>7. PICK stk \in [Classes -> Seq(Slots)], chain \in [Threads -> Seq(Slots)] :
        Blocked(own, cls, stk, chain)
  BY <1>6
<1>8. /\ own \in [Slots -> Tags] /\ HoldsSet(own, LiveTag, live)
      /\ ThreadOK(own, cls, t, chain[t], cache[t], th[t], head, next)
  BY <1>7 DEF Blocked
<1>9. /\ \A d \in Slots : /\ own[d] # ChainTag(t) /\ own[d] # NewTag(t) /\ own[d] # GotTag(t)
                          /\ own[d] = AddrTag(t) <=> d = a
      /\ Holds(own, TodoTag(t), << >>) /\ OwnClasses(own, cls, t, th[t])
      /\ \A c \in Classes : Holds(own, BinTag(t, c), BinOf(cache[t], c))
  BY <1>3, <1>8, OwnedBy, Constants
<1> DEFINE own2 == Give(own, {a}, LiveTag)
<1>10. LiveTag \in Tags /\ Out(LiveTag) /\ Mine(LiveTag, t)
  BY TagsAre, OutIs, MineIs
<1>11. own2 \in [Slots -> Tags] /\ \A d \in Slots : own2[d] = IF d = a THEN LiveTag ELSE own[d]
  BY <1>8, <1>10, GiveIs
<1>12. \A d \in Slots : d \in {a} => Out(own[d]) /\ Mine(own[d], t)
  BY <1>9, OutIs, MineIs
<1>13. \A d \in Slots : own2[d] # TodoTag(t)
  BY <1>9, <1>11, NoTodo, TagsDiffer
<1>14. ASSUME NEW c \in Classes PROVE Holds(own2, BinTag(t, c), BinOf(cache[t], c))
  <2>1. LiveTag # BinTag(t, c) /\ AddrTag(t) # BinTag(t, c)
    BY TagsDiffer
  <2>2. QED
    BY <1>8, <1>9, <1>10, <2>1, KeptHold
<1> HIDE DEF own2
<1>15. HoldsSet(own2, LiveTag, live')
  BY <1>1, <1>4, <1>8, <1>11 DEF HoldsSet
<1>16. \A d \in Slots : /\ own2[d] # ChainTag(t) /\ own2[d] # NewTag(t) /\ own2[d] # GotTag(t)
                        /\ own2[d] # AddrTag(t)
  BY <1>9, <1>11, TagsDiffer
<1>17. \A d \in Slots : \A c \in Classes : own2[d] = BinTag(t, c) => cls[d] = c
  BY <1>9, <1>11, TagsDiffer DEF OwnClasses
<1>18. ThreadOK(own2, cls, t, << >>, cache[t], Idle, head, next) /\ << >> \in Seq(Slots)
  BY <1>13, <1>14, <1>16, <1>17, IdleThread
<1>19. ThreadOK(own2, cls, t, << >>, cache'[t], Idle, head, next')
  BY <1>1, <1>18 DEF poolVars
<1>20. frontier' = frontier /\ side' = side /\ \A d \in Slots : d \notin {a} => next'[d] = next[d]
  BY <1>1 DEF poolVars
<1>21. QED
  BY <1>5, <1>7, <1>10, <1>12, <1>15, <1>18, <1>19, <1>20, MoveOut DEF own2

(* The bin of class c in the cache of t is replaced.                       *)
LEMMA BinSet ==
  ASSUME TypesInv, NEW t \in Threads, cache[t] # None, NEW c \in Classes, NEW s \in Seq(Slots),
         Len(s) <= TCACHE_CAPACITY, cache' = [cache EXCEPT ![t].bins[c] = s]
  PROVE  /\ cache' \in [Threads -> Caches \cup {None}] /\ cache'[t] # None
         /\ BinOf(cache'[t], c) = s
         /\ \A d \in Classes : d # c => BinOf(cache'[t], d) = BinOf(cache[t], d)
         /\ CacheOK(cache'[t], epoch)
         /\ \A u \in Threads \ {t} : cache'[u] = cache[u]
<1> DEFINE ca == cache[t]
           ca2 == [ca EXCEPT !.bins[c] = s]
<1>1. ca \in Caches /\ cache \in [Threads -> Caches \cup {None}] /\ CacheOK(ca, epoch)
  BY DEF TypesInv
<1>2. cache' = [cache EXCEPT ![t] = ca2]
  BY <1>1
<1>3. ca2 \in Caches /\ ca2.epoch = ca.epoch /\ ca2.bins = [ca.bins EXCEPT ![c] = s]
  BY <1>1 DEF Caches
<1>4. ca.bins \in [Classes -> Seq(Slots)]
  BY <1>1 DEF Caches
<1> HIDE DEF ca2
<1>5. ca2.bins[c] = s /\ \A d \in Classes : d # c => ca2.bins[d] = ca.bins[d]
  BY <1>3, <1>4
<1>6. cache'[t] = ca2 /\ cache' \in [Threads -> Caches \cup {None}]
      /\ \A u \in Threads \ {t} : cache'[u] = cache[u]
  BY <1>1, <1>2, <1>3
<1>7. ca2 # None
  BY <1>3, CacheIsSome
<1>8. CacheOK(ca2, epoch)
  <2>1. ca2.epoch <= epoch
    BY <1>1, <1>3 DEF CacheOK
  <2>2. \A d \in Classes : Len(ca2.bins[d]) <= TCACHE_CAPACITY
    BY <1>1, <1>5 DEF CacheOK
  <2>3. QED
    BY <1>3, <2>1, <2>2 DEF CacheOK
<1>9. QED
  BY <1>5, <1>6, <1>7, <1>8 DEF BinOf

LEMMA CacheFreedKeeps ==
  ASSUME IInv, NEW t \in Threads, CacheFreed(t)
  PROVE  IInv'
<1> DEFINE a == th[t].addr
           c == th[t].class
           bin == cache[t].bins[c]
<1>1. /\ th[t].pc = "return" /\ th[t].todo = << >> /\ th[t].op = "free" /\ ~IsFull(t)
      /\ cache' = [cache EXCEPT ![t].bins[c] = Append(bin, a)]
      /\ th' = [th EXCEPT ![t] = Idle] /\ UNCHANGED <<poolVars, epoch, live, pool>>
  BY DEF CacheFreed, Step
<1>2. /\ pool = "mapped" /\ TypesInv /\ th[t] \in Calls /\ CallOK(th[t], cache[t])
      /\ CacheOK(cache[t], epoch)
  BY <1>1, CallFacts
<1>3. th[t].first = None /\ th[t].got = None /\ c \in Classes /\ cache[t] # None /\ a # None
  BY <1>1, <1>2 DEF CallOK, Returning
<1>4. a \in Slots
  BY <1>2, <1>3 DEF Calls, Maybe
<1>5. bin = BinOf(cache[t], c) /\ bin \in Seq(Slots) /\ Len(bin) \in Nat /\ ~(Len(bin) >= TCACHE_CAPACITY)
  <2>1. bin = BinOf(cache[t], c) /\ ~(Len(bin) >= TCACHE_CAPACITY)
    BY <1>1, <1>3 DEF BinOf, IsFull, Bin
  <2>2. bin \in Seq(Slots)
    BY <1>2, <1>3 DEF TypesInv, Caches
  <2>3. QED
    BY <2>1, <2>2
<1> HIDE DEF bin
<1>6. Append(bin, a) \in Seq(Slots) /\ Len(Append(bin, a)) <= TCACHE_CAPACITY
  BY <1>4, <1>5, Constants
<1>7. /\ cache' \in [Threads -> Caches \cup {None}]
      /\ BinOf(cache'[t], c) = Append(bin, a)
      /\ \A d \in Classes : d # c => BinOf(cache'[t], d) = BinOf(cache[t], d)
      /\ CacheOK(cache'[t], epoch)
      /\ \A u \in Threads \ {t} : cache'[u] = cache[u]
  BY <1>1, <1>2, <1>3, <1>6, BinSet
<1>8. Moves(t, Idle)
  <2>1. EpochNext
    BY <1>1, IdleIs, GoesEpoch DEF Goes
  <2>2. QED
    BY <1>1, <1>2, <1>7, <2>1, IdleIs DEF Moves, poolVars, TypesInv
<1>9. PICK own, cls :
        \E stk \in [Classes -> Seq(Slots)], chain \in [Threads -> Seq(Slots)] :
          Blocked(own, cls, stk, chain)
  BY <1>2 DEF IInv
<1>10. PICK stk \in [Classes -> Seq(Slots)], chain \in [Threads -> Seq(Slots)] :
         Blocked(own, cls, stk, chain)
  BY <1>9
<1>11. /\ own \in [Slots -> Tags] /\ HoldsSet(own, LiveTag, live)
       /\ ThreadOK(own, cls, t, chain[t], cache[t], th[t], head, next)
  BY <1>10 DEF Blocked
<1>12. /\ \A d \in Slots : /\ own[d] # ChainTag(t) /\ own[d] # NewTag(t) /\ own[d] # GotTag(t)
                           /\ own[d] = AddrTag(t) <=> d = a
       /\ \A d \in Slots : own[d] # TodoTag(t)
       /\ OwnClasses(own, cls, t, th[t])
       /\ \A d \in Classes : Holds(own, BinTag(t, d), BinOf(cache[t], d))
  BY <1>1, <1>3, <1>11, OwnedBy, NoTodo, Constants
<1> DEFINE g == BinTag(t, c)
           own2 == Give(own, {a}, g)
<1>13. g \in Tags /\ Out(g) /\ Mine(g, t)
  BY <1>3, TagsAre, OutIs, MineIs
<1>14. own2 \in [Slots -> Tags] /\ \A d \in Slots : own2[d] = IF d = a THEN g ELSE own[d]
  BY <1>11, <1>13, GiveIs
<1>15. \A d \in Slots : d \in {a} => Out(own[d]) /\ Mine(own[d], t)
  BY <1>12, OutIs, MineIs
<1>16. ASSUME NEW d \in Classes PROVE Holds(own2, BinTag(t, d), BinOf(cache'[t], d))
  <2>1. AddrTag(t) # BinTag(t, d) /\ own[a] = AddrTag(t)
    BY <1>4, <1>12, TagsDiffer
  <2>2. CASE d = c
    <3>1. Holds(own, g, bin) /\ own[a] # g
      BY <1>5, <1>12, <2>1, <2>2
    <3>2. \A b \in Slots : own2[b] = g <=> own[b] = g \/ b = a
      BY <1>14
    <3> HIDE DEF own2, g
    <3>3. Holds(own2, g, Append(bin, a))
      BY <1>4, <3>1, <3>2, HoldsAppend
    <3>4. QED
      BY <1>7, <2>2, <3>3 DEF g
  <2>3. CASE d # c
    <3>1. g # BinTag(t, d)
      BY <2>3, TagFacts
    <3> HIDE DEF g
    <3>2. Holds(own2, BinTag(t, d), BinOf(cache[t], d))
      BY <1>11, <1>12, <1>13, <2>1, <3>1, KeptHold
    <3>3. QED
      BY <1>7, <2>3, <3>2
  <2>4. QED
    BY <2>2, <2>3
<1> HIDE DEF own2
<1>17. HoldsSet(own2, LiveTag, live')
  BY <1>1, <1>4, <1>11, <1>12, <1>14, TagsDiffer DEF HoldsSet
<1>18. \A d \in Slots : /\ own2[d] # ChainTag(t) /\ own2[d] # NewTag(t) /\ own2[d] # GotTag(t)
                        /\ own2[d] # AddrTag(t) /\ own2[d] # TodoTag(t)
  BY <1>12, <1>14, TagsDiffer
<1>19. ASSUME NEW d \in Slots, NEW e \in Classes, own2[d] = BinTag(t, e) PROVE cls[d] = e
  <2>1. CASE d = a
    <3>1. e = c /\ own[d] = AddrTag(t)
      BY <1>12, <1>14, <1>19, <2>1, TagFacts
    <3>2. QED
      BY <1>1, <1>12, <3>1 DEF OwnClasses
  <2>2. CASE d # a
    BY <1>12, <1>14, <1>19, <2>2 DEF OwnClasses
  <2>3. QED
    BY <2>1, <2>2
<1>20. ThreadOK(own2, cls, t, << >>, cache'[t], Idle, head, next) /\ << >> \in Seq(Slots)
  BY <1>16, <1>18, <1>19, IdleThread
<1>21. ThreadOK(own2, cls, t, << >>, cache'[t], Idle, head, next')
  BY <1>1, <1>20 DEF poolVars
<1>22. frontier' = frontier /\ side' = side /\ \A d \in Slots : d \notin {a} => next'[d] = next[d]
  BY <1>1 DEF poolVars
<1> HIDE DEF g
<1>23. QED
  BY <1>8, <1>10, <1>13, <1>15, <1>17, <1>20, <1>21, <1>22, MoveOut DEF own2

(* A call that goes on to free the block at a.                             *)
Freeing(a, k) == [Idle EXCEPT !.pc = "check", !.op = "free", !.class = k, !.addr = a]

LEMMA FreeingCall ==
  ASSUME NEW a \in Slots, NEW k \in Classes
  PROVE  /\ Freeing(a, k) \in Calls /\ Freeing(a, k).pc = "check" /\ Freeing(a, k).op = "free"
         /\ Freeing(a, k).class = k /\ Freeing(a, k).addr = a /\ Freeing(a, k).todo = << >>
         /\ Freeing(a, k).list = None /\ Freeing(a, k).first = None /\ Freeing(a, k).got = None
         /\ Freeing(a, k).extras = 0
         /\ \A ca : CallOK(Freeing(a, k), ca)
         /\ \A heads, links : CasOK(Freeing(a, k), heads, links)
<1> DEFINE call == Freeing(a, k)
<1>1. /\ call \in Calls /\ call.pc = "check" /\ call.op = "free" /\ call.class = k
      /\ call.addr = a /\ call.todo = << >> /\ call.list = None /\ call.first = None
      /\ call.got = None /\ call.extras = 0 /\ call.fresh = FALSE
  BY IdleIsCall DEF Idle, Calls, PCs, Ops, Maybe, Freeing
<1> HIDE DEF call
<1>2. (\A ca : CallOK(call, ca)) /\ \A heads, links : CasOK(call, heads, links)
  BY <1>1, Constants DEF CallOK, CasOK, Bare
<1>3. QED
  BY <1>1, <1>2 DEF call

(* The caller gets block x, from the bin or from the call.                 *)
LEMMA ServedKeeps ==
  ASSUME IInv, NEW t \in Threads, th[t].pc # "idle", th[t].op = "allocate", th[t].todo = << >>,
         th[t].first = None, NEW x \in Slots, Served(t, x),
         UNCHANGED <<frontier, head, side, epoch, pool>>,
         cache' \in [Threads -> Caches \cup {None}], CacheOK(cache'[t], epoch),
         \A u \in Threads \ {t} : cache'[u] = cache[u],
         NEW own, NEW cls, NEW stk \in [Classes -> Seq(Slots)],
         NEW chain \in [Threads -> Seq(Slots)], Blocked(own, cls, stk, chain),
         own[x] = GotTag(t) \/ \E c \in Classes : own[x] = BinTag(t, c),
         \A d \in Slots : d # x => own[d] # GotTag(t),
         \A c \in Classes : Holds(Give(own, {x}, LiveTag), BinTag(t, c), BinOf(cache'[t], c))
  PROVE  IInv'
<1> DEFINE a == th[t].addr
           freeing == Freeing(a, side[a])
           call == IF a = None THEN Idle ELSE freeing
           own2 == Give(own, {x}, LiveTag)
<1>1. /\ live' = live \cup {x} /\ next' = [next EXCEPT ![x] = None]
      /\ th' = [th EXCEPT ![t] = call]
  BY DEF Served, Step, Freeing
<1>2. /\ pool = "mapped" /\ TypesInv /\ th[t] \in Calls /\ a \in Slots \cup {None}
  BY CallFacts DEF Calls, Maybe
<1>3. /\ own \in [Slots -> Tags] /\ HoldsSet(own, LiveTag, live) /\ SideOK(own, cls, side)
      /\ ThreadOK(own, cls, t, chain[t], cache[t], th[t], head, next)
  BY DEF Blocked
<1>4. /\ \A d \in Slots : /\ own[d] # ChainTag(t) /\ own[d] # NewTag(t)
                          /\ own[d] = AddrTag(t) <=> d = a
      /\ \A d \in Slots : own[d] # TodoTag(t)
      /\ OwnClasses(own, cls, t, th[t])
  BY <1>3, OwnedBy, NoTodo
<1>5. /\ LiveTag \in Tags /\ Out(LiveTag) /\ Mine(LiveTag, t) /\ Out(own[x]) /\ Mine(own[x], t)
      /\ own[x] # AddrTag(t)
  BY TagsAre, OutIs, MineIs, TagsDiffer
<1>6. own2 \in [Slots -> Tags] /\ own2[x] = LiveTag /\ \A d \in Slots : d # x => own2[d] = own[d]
  BY <1>3, <1>5, GiveIs
<1> HIDE DEF own2
<1>7. HoldsSet(own2, LiveTag, live')
  BY <1>1, <1>3, <1>6 DEF HoldsSet
<1>8. next' \in [Slots -> Maybe] /\ \A d \in Slots : d # x => next'[d] = next[d]
  BY <1>1, <1>2 DEF TypesInv, Maybe
<1>9. a # None => a \in Slots /\ side[a] = cls[a] /\ cls[a] \in Classes
  <2> SUFFICES ASSUME a # None PROVE a \in Slots /\ side[a] = cls[a] /\ cls[a] \in Classes
    OBVIOUS
  <2>1. a \in Slots
    BY <1>2
  <2>2. own[a] = AddrTag(t)
    BY <1>4, <2>1
  <2>3. QED
    BY <1>3, <1>4, <2>1, <2>2, OutIs DEF OwnClasses, SideOK
<1>10. \A d \in Slots : /\ own2[d] # ChainTag(t) /\ own2[d] # NewTag(t) /\ own2[d] # GotTag(t)
                        /\ own2[d] = AddrTag(t) <=> d = a
                        /\ own2[d] # TodoTag(t)
                        /\ \A c \in Classes : own2[d] = BinTag(t, c) => cls[d] = c
  <2> SUFFICES ASSUME NEW d \in Slots
               PROVE /\ own2[d] # ChainTag(t) /\ own2[d] # NewTag(t) /\ own2[d] # GotTag(t)
                     /\ own2[d] = AddrTag(t) <=> d = a
                     /\ own2[d] # TodoTag(t)
                     /\ \A c \in Classes : own2[d] = BinTag(t, c) => cls[d] = c
    OBVIOUS
  <2>1. CASE d = x
    BY <1>4, <1>5, <1>6, <2>1, TagsDiffer
  <2>2. CASE d # x
    BY <1>4, <1>6, <2>2 DEF OwnClasses
  <2>3. QED
    BY <2>1, <2>2
<1>11. \A c \in Classes : Holds(own2, BinTag(t, c), BinOf(cache'[t], c))
  BY DEF own2
<1>12. /\ call \in Calls /\ call.op # "flush"
       /\ ThreadOK(own2, cls, t, << >>, cache'[t], call, head, next')
  <2>1. CASE a = None
    <3>1. ThreadOK(own2, cls, t, << >>, cache'[t], Idle, head, next')
      BY <1>10, <1>11, <2>1, IdleThread, Constants
    <3>2. QED
      BY <2>1, <3>1, IdleIs
  <2>2. CASE a # None
    <3>0. a \in Slots /\ side[a] \in Classes
      BY <1>9, <2>2
    <3>1. /\ CallOK(freeing, cache'[t]) /\ CasOK(freeing, head, next')
          /\ freeing \in Calls /\ freeing.pc = "check" /\ freeing.op = "free"
          /\ freeing.class = side[a] /\ freeing.addr = a /\ freeing.todo = << >>
          /\ freeing.list = None /\ freeing.first = None /\ freeing.got = None
      BY <3>0, FreeingCall
    <3>2. call = freeing
      BY <2>2
    <3> HIDE DEF call, freeing
    <3>4. OwnClasses(own2, cls, t, freeing)
      BY <1>9, <1>10, <2>2, <3>1 DEF OwnClasses
    <3>5. Holds(own2, TodoTag(t), freeing.todo)
      BY <1>10, <3>1, HoldsNone
    <3>6. \A d \in Slots : /\ own2[d] # ChainTag(t) /\ own2[d] # NewTag(t)
                           /\ own2[d] = GotTag(t) <=> d = freeing.got
                           /\ own2[d] = AddrTag(t) <=> d = freeing.addr
      BY <1>10, <3>1, Constants
    <3>7. ThreadOK(own2, cls, t, << >>, cache'[t], freeing, head, next')
      BY <1>11, <3>1, <3>4, <3>5, <3>6, ChainlessThread
    <3>8. QED
      BY <3>1, <3>2, <3>7
  <2>3. QED
    BY <2>1, <2>2
<1> HIDE DEF call
<1>13. Moves(t, call)
  <2>1. EpochNext
    BY <1>1, <1>12, GoesEpoch DEF Goes
  <2>2. QED
    BY <1>1, <1>2, <1>8, <1>12, <2>1 DEF Moves, TypesInv
<1>14. << >> \in Seq(Slots)
  OBVIOUS
<1>15. \A d \in Slots : d \in {x} => Out(own[d]) /\ Mine(own[d], t)
  BY <1>5
<1>16. \A d \in Slots : d \notin {x} => next'[d] = next[d]
  BY <1>8
<1>17. QED
  BY <1>5, <1>7, <1>12, <1>13, <1>14, <1>15, <1>16, MoveOut DEF own2

LEMMA RefillEndsKeeps ==
  ASSUME IInv, NEW t \in Threads, RefillEnds(t)
  PROVE  IInv'
<1> DEFINE x == th[t].got
           own2(own) == Give(own, {x}, LiveTag)
<1>1. /\ th[t].pc = "pop" /\ x # None /\ Served(t, x)
      /\ UNCHANGED <<frontier, head, side, cache, epoch, pool>>
  BY DEF RefillEnds, Refilled
<1>2. /\ pool = "mapped" /\ TypesInv /\ th[t] \in Calls /\ CallOK(th[t], cache[t])
      /\ CacheOK(cache[t], epoch)
  BY <1>1, CallFacts
<1>3. th[t].first = None /\ th[t].op = "allocate" /\ th[t].todo = << >> /\ x \in Slots
  BY <1>1, <1>2 DEF CallOK, Refilling, Calls, Maybe
<1>4. PICK own, cls :
        \E stk \in [Classes -> Seq(Slots)], chain \in [Threads -> Seq(Slots)] :
          Blocked(own, cls, stk, chain)
  BY <1>2 DEF IInv
<1>5. PICK stk \in [Classes -> Seq(Slots)], chain \in [Threads -> Seq(Slots)] :
        Blocked(own, cls, stk, chain)
  BY <1>4
<1>6. /\ own \in [Slots -> Tags] /\ ThreadOK(own, cls, t, chain[t], cache[t], th[t], head, next)
  BY <1>5 DEF Blocked
<1>7. /\ own[x] = GotTag(t) /\ \A d \in Slots : d # x => own[d] # GotTag(t)
      /\ \A c \in Classes : Holds(own, BinTag(t, c), BinOf(cache[t], c))
  BY <1>3, <1>6, OwnedBy
<1>8. ASSUME NEW c \in Classes PROVE Holds(Give(own, {x}, LiveTag), BinTag(t, c), BinOf(cache'[t], c))
  <2>1. LiveTag # BinTag(t, c) /\ GotTag(t) # BinTag(t, c) /\ LiveTag \in Tags
    BY TagsDiffer, TagsAre
  <2>2. Holds(Give(own, {x}, LiveTag), BinTag(t, c), BinOf(cache[t], c))
    BY <1>6, <1>7, <2>1, KeptHold
  <2>3. QED
    BY <1>1, <2>2
<1>9. /\ UNCHANGED <<frontier, head, side, epoch, pool>> /\ th[t].pc # "idle"
      /\ cache' \in [Threads -> Caches \cup {None}] /\ CacheOK(cache'[t], epoch)
      /\ \A u \in Threads \ {t} : cache'[u] = cache[u]
  BY <1>1, <1>2 DEF TypesInv
<1> HIDE DEF x
<1>10. QED
  BY <1>1, <1>3, <1>5, <1>7, <1>8, <1>9, ServedKeeps

LEMMA CacheHitKeeps ==
  ASSUME IInv, NEW t \in Threads, CacheHit(t)
  PROVE  IInv'
<1> DEFINE c == th[t].class
           bin == cache[t].bins[c]
           x == Last(bin)
<1>1. /\ th[t].pc = "return" /\ th[t].todo = << >> /\ th[t].op = "allocate"
      /\ bin # << >> /\ Served(t, x) /\ cache' = [cache EXCEPT ![t].bins[c] = Front(bin)]
      /\ UNCHANGED <<frontier, head, side, epoch, pool>>
  BY DEF CacheHit, Bin
<1>2. /\ pool = "mapped" /\ TypesInv /\ th[t] \in Calls /\ CallOK(th[t], cache[t])
      /\ CacheOK(cache[t], epoch)
  BY <1>1, CallFacts
<1>3. th[t].first = None /\ th[t].got = None /\ c \in Classes /\ cache[t] # None
  BY <1>1, <1>2 DEF CallOK, Returning
<1>4. PICK own, cls :
        \E stk \in [Classes -> Seq(Slots)], chain \in [Threads -> Seq(Slots)] :
          Blocked(own, cls, stk, chain)
  BY <1>2 DEF IInv
<1>5. PICK stk \in [Classes -> Seq(Slots)], chain \in [Threads -> Seq(Slots)] :
        Blocked(own, cls, stk, chain)
  BY <1>4
<1>6. /\ own \in [Slots -> Tags] /\ ThreadOK(own, cls, t, chain[t], cache[t], th[t], head, next)
  BY <1>5 DEF Blocked
<1>7. /\ \A d \in Slots : own[d] # GotTag(t)
      /\ \A d \in Classes : Holds(own, BinTag(t, d), BinOf(cache[t], d))
  BY <1>3, <1>6, OwnedBy, Constants
<1> DEFINE own2 == Give(own, {x}, LiveTag)
           g == BinTag(t, c)
<1>8. LiveTag \in Tags /\ LiveTag # g
  BY TagsAre, TagsDiffer
<1>9. own2 \in [Slots -> Tags] /\ \A d \in Slots : own2[d] = IF d = x THEN LiveTag ELSE own[d]
  BY <1>6, <1>8, GiveIs
<1>10. Holds(own, g, bin)
  BY <1>3, <1>7 DEF BinOf
<1>11. \A d \in Slots : own2[d] = g <=> own[d] = g /\ d # x
  BY <1>8, <1>9
<1> HIDE DEF own2, g, bin
<1>12. /\ Holds(own2, g, Front(bin)) /\ x \in Slots /\ own[x] = g /\ Len(Front(bin)) = Len(bin) - 1
  <2>1. bin # << >>
    BY <1>1
  <2>2. \A b \in Slots : own2[b] = g <=> own[b] = g /\ b # Last(bin)
    BY <1>11
  <2>3. /\ Holds(own2, g, Front(bin)) /\ Last(bin) \in Slots /\ own[Last(bin)] = g
        /\ Len(Front(bin)) = Len(bin) - 1
    <3>1. Holds(own2, g, Front(bin))
      BY <1>10, <2>1, <2>2, HoldsFront
    <3>2. Last(bin) \in Slots /\ own[Last(bin)] = g
      BY <1>10, <2>1, <2>2, <3>1, HoldsFront
    <3>3. Len(Front(bin)) = Len(bin) - 1
      BY <1>10, <2>1, <2>2, <3>1, HoldsFront
    <3>4. QED
      BY <3>1, <3>2, <3>3
  <2>4. QED
    BY <2>3
<1> HIDE DEF x
<1>13. Front(bin) \in Seq(Slots) /\ Len(Front(bin)) <= TCACHE_CAPACITY
  <2>1. Len(bin) <= TCACHE_CAPACITY
    BY <1>2, <1>3 DEF CacheOK, bin
  <2>2. bin \in Seq(Slots) /\ Front(bin) \in Seq(Slots)
    BY <1>10, <1>12 DEF Holds
  <2>3. QED
    BY <1>12, <2>1, <2>2, Constants
<1>14. /\ cache' \in [Threads -> Caches \cup {None}]
       /\ BinOf(cache'[t], c) = Front(bin)
       /\ \A d \in Classes : d # c => BinOf(cache'[t], d) = BinOf(cache[t], d)
       /\ CacheOK(cache'[t], epoch)
       /\ \A u \in Threads \ {t} : cache'[u] = cache[u]
  BY <1>1, <1>2, <1>3, <1>13, BinSet
<1>15. ASSUME NEW d \in Classes PROVE Holds(own2, BinTag(t, d), BinOf(cache'[t], d))
  <2>1. CASE d = c
    BY <1>12, <1>14, <2>1 DEF g
  <2>2. CASE d # c
    <3>1. own[x] # BinTag(t, d) /\ LiveTag # BinTag(t, d)
      BY <1>12, <2>2, TagFacts DEF g
    <3>2. Holds(own2, BinTag(t, d), BinOf(cache[t], d))
      BY <1>6, <1>7, <1>8, <3>1, KeptHold DEF own2
    <3>3. QED
      BY <1>14, <2>2, <3>2
  <2>3. QED
    BY <2>1, <2>2
<1>16. th[t].pc # "idle" /\ \E d \in Classes : own[x] = BinTag(t, d)
  BY <1>1, <1>3, <1>12 DEF g
<1>17. QED
  BY <1>1, <1>3, <1>5, <1>7, <1>12, <1>14, <1>15, <1>16, ServedKeeps DEF own2

-----------------------------------------------------------------------------
(* Steps that place or release runs.                                       *)

AddrsOf(R) == {RunAddr(u) : u \in R}

(* The owners, classes and side table when the runs at gone are released   *)
(* and the runs at new given to callers.                                   *)
RunOwn(own, gone, new) ==
  [x \in Slots |-> IF x \in new THEN LiveTag ELSE IF x \in gone THEN NoTag ELSE own[x]]
RunCls(cls, new) == [x \in Slots |-> IF x \in new THEN LARGE ELSE cls[x]]
RunSide(table, gone, new) ==
  [x \in Slots |-> IF x \in new THEN LARGE ELSE IF x \in gone THEN None ELSE table[x]]

LEMMA AddrsAre ==
  ASSUME NEW R, R \subseteq Units
  PROVE  /\ AddrsOf(R) \subseteq Slots
         /\ \A u \in Units : RunAddr(u) \in AddrsOf(R) <=> u \in R
         /\ \A x : x \in AddrsOf(R) => \E u \in R : x = RunAddr(u)
<1>1. \A u \in Units : u \in Nat /\ RunAddr(u) \in Slots
  BY UnitFacts
<1>2. \A u, v \in Units : RunAddr(u) = RunAddr(v) => u = v
  BY <1>1, UnitFacts
<1>3. QED
  BY <1>1, <1>2 DEF AddrsOf

(* A block that is nobody's lies where no run did, at or above lo.         *)
LEMMA NewRuns ==
  ASSUME NEW own, NEW cls, NEW f, Layout(own, cls, f), FrontierOK(f),
         cls \in [Slots -> Classes \cup {LARGE}],
         NEW u \in Units, u \notin Runs(f), f.lo <= RunAddr(u)
  PROVE  RunAddr(u) \in Slots /\ own[RunAddr(u)] = NoTag
<1> DEFINE x == RunAddr(u)
<1>1. x \in Slots /\ x \in Nat
  BY UnitFacts, Constants
<1>2. Runs(f) \subseteq Units
  BY DEF Runs
<1>3. x \notin LargeBlocks(own, cls)
  <2>1. LargeBlocks(own, cls) = AddrsOf(Runs(f))
    BY DEF Layout, AddrsOf
  <2>2. QED
    BY <1>2, <2>1, AddrsAre
<1>4. x \notin SlabBlocks(own, cls)
  <2> SUFFICES ASSUME x \in SlabBlocks(own, cls) PROVE FALSE
    OBVIOUS
  <2>1. cls[x] \in Classes
    BY <1>1 DEF SlabBlocks
  <2>2. SlabSizes[cls[x]] \in Nat \ {0}
    BY <2>1, Constants
  <2>3. x + SlabSizes[cls[x]] <= f.lo
    BY DEF Layout, SlabsOK
  <2>4. f.lo \in Nat
    BY DEF FrontierOK
  <2>5. f.lo <= x
    OBVIOUS
  <2> HIDE DEF x
  <2>6. QED
    BY <1>1, <2>2, <2>3, <2>4, <2>5
<1>5. QED
  BY <1>1, <1>3, <1>4 DEF LargeBlocks, SlabBlocks

LEMMA RunStep ==
  ASSUME IInv, NEW t \in Threads, NEW call, Moves(t, call),
         NEW own, NEW cls, NEW stk \in [Classes -> Seq(Slots)],
         NEW chain \in [Threads -> Seq(Slots)], Blocked(own, cls, stk, chain),
         NEW G, G \subseteq Runs(frontier), NEW N, N \subseteq Units,
         N \cap (Runs(frontier) \ G) = {}, Runs(frontier') = (Runs(frontier) \ G) \cup N,
         frontier'.lo = frontier.lo, next' = next,
         side' = RunSide(side, AddrsOf(G), AddrsOf(N)),
         \A x \in AddrsOf(G) : Mine(own[x], t),
         HoldsSet(RunOwn(own, AddrsOf(G), AddrsOf(N)), LiveTag, live'),
         ThreadOK(RunOwn(own, AddrsOf(G), AddrsOf(N)), RunCls(cls, AddrsOf(N)), t, << >>,
                  cache'[t], call, head, next)
  PROVE  IInv'
<1> DEFINE gone == AddrsOf(G)
           new == AddrsOf(N)
           own2 == RunOwn(own, gone, new)
           cls2 == RunCls(cls, new)
<1>1. /\ own \in [Slots -> Tags] /\ cls \in [Slots -> Classes \cup {LARGE}]
      /\ SideOK(own, cls, side) /\ Layout(own, cls, frontier)
      /\ side \in [Slots -> Classes \cup {LARGE, None}] /\ FrontierOK(frontier) /\ FrontierOK(frontier')
  BY DEF Blocked, Moves, IInv, TypesInv
<1>2. /\ own2 \in [Slots -> Tags] /\ cls2 \in [Slots -> Classes \cup {LARGE}]
      /\ \A x \in Slots : /\ own2[x] = IF x \in new THEN LiveTag ELSE IF x \in gone THEN NoTag ELSE own[x]
                          /\ cls2[x] = IF x \in new THEN LARGE ELSE cls[x]
                          /\ side'[x] = IF x \in new THEN LARGE ELSE IF x \in gone THEN None ELSE side[x]
  <2>1. LiveTag \in Tags /\ NoTag \in Tags
    BY TagsAre
  <2> HIDE DEF new, gone
  <2>2. QED
    BY <1>1, <2>1 DEF RunOwn, RunCls, RunSide, new, gone
<1>3. HoldsSet(own2, LiveTag, live') /\ ThreadOK(own2, cls2, t, << >>, cache'[t], call, head, next')
  OBVIOUS
<1>4. /\ Runs(frontier) \subseteq Units /\ Runs(frontier') \subseteq Units /\ G \subseteq Units
      /\ new \subseteq Slots /\ gone \subseteq Slots
  BY AddrsAre DEF Runs
<1>5. ASSUME NEW x \in Slots, x \in new, x \notin gone PROVE own[x] = NoTag
  <2>1. PICK u \in N : x = RunAddr(u)
    BY <1>5, AddrsAre
  <2>2. u \notin G
    BY <1>4, <1>5, <2>1, AddrsAre
  <2>3. u \notin Runs(frontier) /\ u \in Runs(frontier')
    BY <2>2
  <2>4. frontier.lo <= RunAddr(u)
    BY <1>1, <2>3, RunsAreHigh
  <2>5. QED
    BY <1>1, <2>1, <2>3, <2>4, NewRuns
<1> HIDE DEF own2, cls2
<1>6. SideOK(own2, cls2, side')
  BY <1>1, <1>2, OutIs DEF SideOK
<1>7. LargeBlocks(own, cls) = AddrsOf(Runs(frontier))
  BY <1>1 DEF Layout, AddrsOf
<1>8. \A x \in Slots : x \in gone => own[x] # NoTag /\ cls[x] = LARGE
  <2>1. ASSUME NEW x \in gone PROVE x \in AddrsOf(Runs(frontier))
    <3>1. PICK u \in G : x = RunAddr(u)
      BY <1>4, AddrsAre
    <3>2. QED
      BY <1>4, <3>1, AddrsAre
  <2>2. QED
    BY <1>7, <2>1 DEF LargeBlocks
<1>9. LargeBlocks(own2, cls2) = AddrsOf(Runs(frontier'))
  <2>1. ASSUME NEW x \in LargeBlocks(own2, cls2) PROVE x \in AddrsOf(Runs(frontier'))
    <3>1. x \in Slots /\ own2[x] # NoTag /\ cls2[x] = LARGE
      BY DEF LargeBlocks
    <3>2. CASE x \in new
      <4>1. PICK u \in N : x = RunAddr(u)
        BY <3>2, AddrsAre
      <4>2. QED
        BY <1>4, <4>1, AddrsAre
    <3>3. CASE x \notin new
      <4>1. x \notin gone /\ own[x] # NoTag /\ cls[x] = LARGE
        BY <1>2, <3>1, <3>3
      <4>2. x \in AddrsOf(Runs(frontier))
        BY <1>7, <3>1, <4>1 DEF LargeBlocks
      <4>3. PICK u \in Runs(frontier) : x = RunAddr(u)
        BY <1>4, <4>2, AddrsAre
      <4>4. u \notin G
        BY <1>4, <4>1, <4>3, AddrsAre
      <4>5. u \in Runs(frontier')
        BY <4>4
      <4>6. QED
        BY <1>4, <4>3, <4>5, AddrsAre
    <3>4. QED
      BY <3>2, <3>3
  <2>2. ASSUME NEW x \in AddrsOf(Runs(frontier')) PROVE x \in LargeBlocks(own2, cls2)
    <3>1. PICK u \in Runs(frontier') : x = RunAddr(u)
      BY <1>4, AddrsAre
    <3>2. x \in Slots
      BY <1>4, AddrsAre
    <3>3. CASE u \in N
      <4>1. x \in new
        BY <3>1, <3>3, AddrsAre
      <4>2. own2[x] = LiveTag /\ cls2[x] = LARGE
        BY <1>2, <3>2, <4>1
      <4>3. QED
        BY <3>2, <4>2, TagsDiffer DEF LargeBlocks
    <3>4. CASE u \notin N
      <4>1. u \in Runs(frontier) /\ u \notin G
        BY <3>1, <3>4
      <4>2. x \notin new /\ x \notin gone /\ x \in AddrsOf(Runs(frontier))
        BY <1>4, <3>1, <3>4, <4>1, AddrsAre
      <4>3. own[x] # NoTag /\ cls[x] = LARGE
        BY <1>7, <4>2 DEF LargeBlocks
      <4>4. QED
        BY <1>2, <3>2, <4>2, <4>3 DEF LargeBlocks
    <3>5. QED
      BY <3>3, <3>4
  <2>3. QED
    BY <2>1, <2>2
<1> HIDE DEF gone, new
<1>10. SlabBlocks(own2, cls2) = SlabBlocks(own, cls)
       /\ \A x \in SlabBlocks(own, cls) : cls2[x] = cls[x]
  <2>1. ASSUME NEW x \in Slots
        PROVE  /\ x \in SlabBlocks(own2, cls2) <=> x \in SlabBlocks(own, cls)
               /\ x \in SlabBlocks(own, cls) => cls2[x] = cls[x]
    <3>1. CASE x \in new
      BY <1>2, <1>5, <1>8, <3>1 DEF SlabBlocks
    <3>2. CASE x \notin new
      BY <1>2, <1>8, <3>2 DEF SlabBlocks
    <3>3. QED
      BY <3>1, <3>2
  <2>2. QED
    BY <2>1 DEF SlabBlocks
<1>11. Layout(own2, cls2, frontier')
  <2>1. SlabsOK(SlabBlocks(own, cls), cls2, frontier.lo)
    BY <1>1, <1>10 DEF Layout, SlabsOK
  <2>2. QED
    BY <1>9, <1>10, <2>1 DEF Layout, AddrsOf
<1>12. Moved(own, own2, cls, cls2, t)
  <2> SUFFICES ASSUME NEW x \in Slots
               PROVE /\ own2[x] = own[x] \/ (Mine(own[x], t) /\ Mine(own2[x], t))
                     /\ (cls2[x] = cls[x] /\ next'[x] = next[x]) \/ Mine(own[x], t)
    BY DEF Moved
  <2>1. x \in gone => Mine(own[x], t)
    BY DEF gone
  <2>2. Mine(NoTag, t) /\ Mine(LiveTag, t)
    BY MineIs
  <2>3. x \in new => Mine(own[x], t)
    BY <1>5, <2>1, <2>2
  <2>4. QED
    BY <1>2, <2>1, <2>2, <2>3
<1>13. << >> \in Seq(Slots)
  OBVIOUS
<1>14. QED
  BY <1>2, <1>3, <1>6, <1>11, <1>12, <1>13, MoveStep

LEMMA AddrsOfOne ==
  AddrsOf({}) = {} /\ \A u : AddrsOf({u}) = {RunAddr(u)}
  BY DEF AddrsOf

(* take_run takes units that were nobody's.                                *)
LEMMA TakenRun ==
  ASSUME IInv, NEW own, NEW cls, NEW stk, NEW chain, Blocked(own, cls, stk, chain),
         NEW k \in Nat, CanTakeRun(frontier, k)
  PROVE  /\ FrontierOK(TakeRun(frontier, k)) /\ TakeRun(frontier, k).lo = frontier.lo
         /\ RunStart(frontier, k) \in Units /\ RunStart(frontier, k) \notin Runs(frontier)
         /\ Runs(TakeRun(frontier, k)) = Runs(frontier) \cup {RunStart(frontier, k)}
         /\ RunAddr(RunStart(frontier, k)) \in Slots
         /\ own[RunAddr(RunStart(frontier, k))] = NoTag
<1>1. FrontierOK(frontier) /\ Layout(own, cls, frontier) /\ cls \in [Slots -> Classes \cup {LARGE}]
  BY DEF IInv, TypesInv, Blocked
<1> DEFINE u == RunStart(frontier, k)
           g == TakeRun(frontier, k)
<1>2. /\ FrontierOK(g) /\ g.lo = frontier.lo /\ u \in Units /\ u \notin Runs(frontier)
      /\ Runs(g) = Runs(frontier) \cup {u}
  BY <1>1, TakeRunKeeps
<1> HIDE DEF u, g
<1>3. g.lo <= RunAddr(u)
  BY <1>2, RunsAreHigh
<1>4. RunAddr(u) \in Slots /\ own[RunAddr(u)] = NoTag
  BY <1>1, <1>2, <1>3, NewRuns
<1>5. QED
  BY <1>2, <1>4 DEF u, g

(* The run of a block of the large class.                                  *)
LEMMA RunOfBlock ==
  ASSUME IInv, NEW own, NEW cls, NEW stk, NEW chain, Blocked(own, cls, stk, chain),
         NEW b \in Slots, own[b] # NoTag, cls[b] = LARGE
  PROVE  b \div UnitSlots \in Runs(frontier) /\ RunAddr(b \div UnitSlots) = b
<1>1. b \in AddrsOf(Runs(frontier))
  BY DEF Blocked, Layout, LargeBlocks, AddrsOf
<1>2. PICK u \in Runs(frontier) : b = RunAddr(u)
  BY <1>1 DEF AddrsOf
<1>3. u \in Units
  BY DEF Runs
<1>4. RunAddr(u) \div UnitSlots = u
  BY <1>3, UnitFacts
<1>5. QED
  BY <1>2, <1>4

LEMMA RunHolds ==
  ASSUME NEW own \in [Slots -> Tags], NEW gone, NEW new, NEW h, NEW s, Holds(own, h, s),
         h # NoTag, h # LiveTag, \A x \in Slots : x \in gone \/ x \in new => own[x] # h
  PROVE  Holds(RunOwn(own, gone, new), h, s)
<1>1. \A x \in Slots : RunOwn(own, gone, new)[x] = h <=> own[x] = h
  BY DEF RunOwn
<1>2. QED
  BY <1>1, HoldsStays

LEMMA AllocateLargeKeeps ==
  ASSUME IInv, NEW t \in Threads, NEW k \in RunSizes, AllocateLarge(t, k)
  PROVE  IInv'
<1> DEFINE u == RunStart(frontier, k)
           x == RunAddr(u)
<1>1. /\ pool = "mapped" /\ th[t].pc = "idle" /\ th' = [th EXCEPT ![t] = Idle]
      /\ CanTakeRun(frontier, k) /\ frontier' = TakeRun(frontier, k)
      /\ side' = [side EXCEPT ![x] = LARGE] /\ live' = live \cup {x}
      /\ UNCHANGED <<head, next, cache, epoch, pool>>
  BY DEF AllocateLarge, Begin, Step
<1>2. /\ TypesInv /\ th[t] \in Calls /\ CallOK(th[t], cache[t])
      /\ CacheOK(cache[t], epoch) /\ k \in Nat
  BY <1>1, CallFacts, SlabPoolAssumption
<1>3. PICK own, cls :
        \E stk \in [Classes -> Seq(Slots)], chain \in [Threads -> Seq(Slots)] :
          Blocked(own, cls, stk, chain)
  BY <1>1 DEF IInv
<1>4. PICK stk \in [Classes -> Seq(Slots)], chain \in [Threads -> Seq(Slots)] :
        Blocked(own, cls, stk, chain)
  BY <1>3
<1>5. /\ own \in [Slots -> Tags] /\ HoldsSet(own, LiveTag, live)
      /\ ThreadOK(own, cls, t, chain[t], cache[t], th[t], head, next)
  BY <1>4 DEF Blocked
<1>6. /\ FrontierOK(frontier') /\ frontier'.lo = frontier.lo
      /\ u \in Units /\ u \notin Runs(frontier) /\ Runs(frontier') = Runs(frontier) \cup {u}
      /\ x \in Slots /\ own[x] = NoTag
  BY <1>1, <1>2, <1>4, TakenRun
<1> HIDE DEF u, x
<1>7. AddrsOf({}) = {} /\ AddrsOf({u}) = {x}
  BY AddrsOfOne DEF x
<1>8. side' \in [Slots -> Classes \cup {LARGE, None}] /\ side' = RunSide(side, {}, {x})
  BY <1>1, <1>2, <1>6 DEF TypesInv, RunSide
<1>9. Moves(t, Idle)
  <2>1. EpochNext
    BY <1>1, IdleIs, GoesEpoch DEF Goes
  <2>2. QED
    BY <1>1, <1>2, <1>6, <1>8, <2>1, IdleIs DEF Moves, TypesInv
<1> DEFINE own2 == RunOwn(own, {}, {x})
           cls2 == RunCls(cls, {x})
<1>10. \A d \in Slots : /\ own2[d] = IF d = x THEN LiveTag ELSE own[d]
                        /\ cls2[d] = IF d = x THEN LARGE ELSE cls[d]
  BY DEF RunOwn, RunCls
<1>11. th[t].todo = << >> /\ th[t].first = None /\ th[t].got = None /\ th[t].addr = None
  BY <1>1, <1>2 DEF CallOK, Bare
<1>12. /\ \A d \in Slots : /\ own[d] # ChainTag(t) /\ own[d] # NewTag(t) /\ own[d] # GotTag(t)
                           /\ own[d] # AddrTag(t)
       /\ \A d \in Slots : own[d] # TodoTag(t)
       /\ OwnClasses(own, cls, t, th[t])
       /\ \A c \in Classes : Holds(own, BinTag(t, c), BinOf(cache[t], c))
  BY <1>5, <1>11, OwnedBy, NoTodo, Constants
<1>13. ASSUME NEW c \in Classes PROVE Holds(own2, BinTag(t, c), BinOf(cache[t], c))
  <2>1. BinTag(t, c) # NoTag /\ BinTag(t, c) # LiveTag
    BY TagsDiffer
  <2>2. QED
    BY <1>5, <1>6, <1>12, <2>1, RunHolds
<1> HIDE DEF own2, cls2
<1>14. HoldsSet(own2, LiveTag, live')
  BY <1>1, <1>5, <1>10 DEF HoldsSet
<1>15. \A d \in Slots : /\ own2[d] # ChainTag(t) /\ own2[d] # NewTag(t) /\ own2[d] # GotTag(t)
                        /\ own2[d] # AddrTag(t) /\ own2[d] # TodoTag(t)
                        /\ \A c \in Classes : own2[d] = BinTag(t, c) => cls2[d] = c
  BY <1>10, <1>12, TagsDiffer DEF OwnClasses
<1>16. ThreadOK(own2, cls2, t, << >>, cache[t], Idle, head, next)
  BY <1>13, <1>15, IdleThread
<1>17. ThreadOK(own2, cls2, t, << >>, cache'[t], Idle, head, next) /\ next' = next
  BY <1>1, <1>16
<1> DEFINE G == {}
           N == {u}
<1>18. /\ G \subseteq Runs(frontier) /\ N \subseteq Units /\ N \cap (Runs(frontier) \ G) = {}
       /\ Runs(frontier') = (Runs(frontier) \ G) \cup N /\ AddrsOf(G) = {} /\ AddrsOf(N) = {x}
  BY <1>6, <1>7
<1> HIDE DEF G, N
<1>19. /\ side' = RunSide(side, AddrsOf(G), AddrsOf(N))
       /\ \A d \in AddrsOf(G) : Mine(own[d], t)
       /\ HoldsSet(RunOwn(own, AddrsOf(G), AddrsOf(N)), LiveTag, live')
       /\ ThreadOK(RunOwn(own, AddrsOf(G), AddrsOf(N)), RunCls(cls, AddrsOf(N)), t, << >>,
                   cache'[t], Idle, head, next)
  BY <1>8, <1>14, <1>17, <1>18 DEF own2, cls2
<1>20. QED
  BY <1>4, <1>6, <1>9, <1>17, <1>18, <1>19, RunStep

(* A run is released and the call ends.                                    *)
LEMMA ReleaseStep ==
  ASSUME IInv, NEW t \in Threads, pool = "mapped",
         NEW own, NEW cls, NEW stk \in [Classes -> Seq(Slots)],
         NEW chain \in [Threads -> Seq(Slots)], Blocked(own, cls, stk, chain),
         NEW x \in Slots, cls[x] = LARGE, own[x] \in {LiveTag, AddrTag(t)},
         th[t].todo = << >>, th[t].first = None, th[t].got = None, th[t].addr \in {x, None},
         th' = [th EXCEPT ![t] = Idle], side' = Cleared(x), live' = live \ {x},
         frontier' = ReleaseRun(frontier, x \div UnitSlots),
         UNCHANGED <<head, next, cache, epoch, pool>>
  PROVE  IInv'
<1> DEFINE u == x \div UnitSlots
<1>1. /\ TypesInv /\ th[t] \in Calls /\ CallOK(th[t], cache[t])
      /\ CacheOK(cache[t], epoch) /\ FrontierOK(frontier)
  BY CallFacts DEF TypesInv
<1>2. /\ own \in [Slots -> Tags] /\ HoldsSet(own, LiveTag, live)
      /\ ThreadOK(own, cls, t, chain[t], cache[t], th[t], head, next)
  BY DEF Blocked
<1>3. u \in Runs(frontier) /\ RunAddr(u) = x /\ own[x] # NoTag
  BY RunOfBlock, TagsDiffer
<1> HIDE DEF u
<1>4. frontier' = ReleaseRun(frontier, u)
  BY DEF u
<1>5. FrontierOK(frontier') /\ frontier'.lo = frontier.lo /\ Runs(frontier') = Runs(frontier) \ {u}
  BY <1>1, <1>3, <1>4, ReleaseRunKeeps
<1>7. AddrsOf({}) = {} /\ AddrsOf({u}) = {x}
  BY <1>3, AddrsOfOne
<1>8. side' \in [Slots -> Classes \cup {LARGE, None}] /\ side' = RunSide(side, {x}, {})
  BY <1>1 DEF TypesInv, RunSide, Cleared
<1>9. Moves(t, Idle)
  <2>1. EpochNext
    BY IdleIs, GoesEpoch DEF Goes
  <2>2. QED
    BY <1>1, <1>5, <1>8, <2>1, IdleIs DEF Moves, TypesInv
<1> DEFINE own2 == RunOwn(own, {x}, {})
           cls2 == RunCls(cls, {})
<1>10. \A d \in Slots : own2[d] = (IF d = x THEN NoTag ELSE own[d]) /\ cls2[d] = cls[d]
  BY DEF RunOwn, RunCls
<1>12. /\ \A d \in Slots : /\ own[d] # ChainTag(t) /\ own[d] # NewTag(t) /\ own[d] # GotTag(t)
                           /\ d # x => own[d] # AddrTag(t)
       /\ \A d \in Slots : own[d] # TodoTag(t)
       /\ OwnClasses(own, cls, t, th[t])
       /\ \A c \in Classes : Holds(own, BinTag(t, c), BinOf(cache[t], c))
  BY <1>2, OwnedBy, NoTodo, Constants
<1>13. ASSUME NEW c \in Classes PROVE Holds(own2, BinTag(t, c), BinOf(cache[t], c))
  <2>1. BinTag(t, c) # NoTag /\ BinTag(t, c) # LiveTag /\ BinTag(t, c) # AddrTag(t)
    BY TagsDiffer
  <2>2. QED
    BY <1>2, <1>12, <2>1, RunHolds
<1> HIDE DEF own2, cls2
<1>14. HoldsSet(own2, LiveTag, live')
  BY <1>2, <1>10, TagsDiffer DEF HoldsSet
<1>15. \A d \in Slots : /\ own2[d] # ChainTag(t) /\ own2[d] # NewTag(t) /\ own2[d] # GotTag(t)
                        /\ own2[d] # AddrTag(t) /\ own2[d] # TodoTag(t)
                        /\ \A c \in Classes : own2[d] = BinTag(t, c) => cls2[d] = c
  BY <1>10, <1>12, TagsDiffer DEF OwnClasses
<1>16. ThreadOK(own2, cls2, t, << >>, cache[t], Idle, head, next)
  BY <1>13, <1>15, IdleThread
<1>17. ThreadOK(own2, cls2, t, << >>, cache'[t], Idle, head, next) /\ next' = next
  BY <1>16
<1> DEFINE G == {u}
           N == {}
<1>18. /\ G \subseteq Runs(frontier) /\ N \subseteq Units /\ N \cap (Runs(frontier) \ G) = {}
       /\ Runs(frontier') = (Runs(frontier) \ G) \cup N /\ AddrsOf(G) = {x} /\ AddrsOf(N) = {}
  BY <1>3, <1>5, <1>7
<1>a. Mine(own[x], t)
  BY MineIs
<1> HIDE DEF G, N
<1>19. /\ side' = RunSide(side, AddrsOf(G), AddrsOf(N))
       /\ \A d \in AddrsOf(G) : Mine(own[d], t)
       /\ HoldsSet(RunOwn(own, AddrsOf(G), AddrsOf(N)), LiveTag, live')
       /\ ThreadOK(RunOwn(own, AddrsOf(G), AddrsOf(N)), RunCls(cls, AddrsOf(N)), t, << >>,
                   cache'[t], Idle, head, next)
  BY <1>8, <1>14, <1>17, <1>18, <1>a DEF own2, cls2
<1>20. QED
  BY <1>5, <1>9, <1>17, <1>18, <1>19, RunStep

LEMMA FreeLargeKeeps ==
  ASSUME IInv, NEW t \in Threads, NEW b \in live, FreeLarge(t, b)
  PROVE  IInv'
<1>1. /\ pool = "mapped" /\ th[t].pc = "idle" /\ th' = [th EXCEPT ![t] = Idle] /\ side[b] = LARGE
      /\ side' = Cleared(b) /\ frontier' = ReleaseRun(frontier, b \div UnitSlots)
      /\ live' = live \ {b} /\ UNCHANGED <<head, next, cache, epoch, pool>>
  BY DEF FreeLarge, Begin, Step
<1>2. /\ TypesInv /\ CallOK(th[t], cache[t]) /\ b \in Slots
  BY <1>1, CallFacts DEF TypesInv
<1>3. PICK own, cls :
        \E stk \in [Classes -> Seq(Slots)], chain \in [Threads -> Seq(Slots)] :
          Blocked(own, cls, stk, chain)
  BY <1>1 DEF IInv
<1>4. PICK stk \in [Classes -> Seq(Slots)], chain \in [Threads -> Seq(Slots)] :
        Blocked(own, cls, stk, chain)
  BY <1>3
<1>5. own[b] = LiveTag /\ cls[b] = LARGE
  BY <1>1, <1>2, <1>4, OutIs DEF Blocked, HoldsSet, SideOK
<1>6. th[t].todo = << >> /\ th[t].first = None /\ th[t].got = None /\ th[t].addr = None
  BY <1>1, <1>2 DEF CallOK, Bare
<1>7. QED
  BY <1>1, <1>2, <1>4, <1>5, <1>6, ReleaseStep

LEMMA ReleaseCopiedKeeps ==
  ASSUME IInv, NEW t \in Threads, ReleaseCopied(t)
  PROVE  IInv'
<1> DEFINE x == th[t].addr
<1>1. /\ th[t].pc = "release" /\ th' = [th EXCEPT ![t] = Idle]
      /\ side' = Cleared(x) /\ frontier' = ReleaseRun(frontier, x \div UnitSlots)
      /\ UNCHANGED <<head, next, cache, epoch, live, pool>>
  BY DEF ReleaseCopied, Step
<1>2. /\ TypesInv /\ CallOK(th[t], cache[t]) /\ th[t] \in Calls /\ pool = "mapped"
  BY <1>1, CallFacts
<1>3. PICK own, cls :
        \E stk \in [Classes -> Seq(Slots)], chain \in [Threads -> Seq(Slots)] :
          Blocked(own, cls, stk, chain)
  BY <1>2 DEF IInv
<1>4. PICK stk \in [Classes -> Seq(Slots)], chain \in [Threads -> Seq(Slots)] :
        Blocked(own, cls, stk, chain)
  BY <1>3
<1>5. /\ th[t].todo = << >> /\ th[t].first = None /\ th[t].got = None /\ x # None
      /\ th[t].op = "free" /\ th[t].class = LARGE
  BY <1>1, <1>2 DEF CallOK, Bare
<1>6. x \in Slots
  BY <1>2, <1>5 DEF Calls, Maybe
<1>7. /\ ThreadOK(own, cls, t, chain[t], cache[t], th[t], head, next)
      /\ HoldsSet(own, LiveTag, live)
  BY <1>4 DEF Blocked
<1>8. own[x] = AddrTag(t) /\ OwnClasses(own, cls, t, th[t])
  BY <1>6, <1>7, OwnedBy
<1>9. cls[x] = LARGE
  BY <1>5, <1>6, <1>8 DEF OwnClasses
<1>10. live' = live \ {x}
  BY <1>1, <1>6, <1>7, <1>8, TagsDiffer DEF HoldsSet
<1>11. UNCHANGED <<head, next, cache, epoch, pool>> /\ th[t].addr \in {x, None}
  BY <1>1
<1> HIDE DEF x
<1>12. QED
  BY <1>1, <1>2, <1>4, <1>5, <1>6, <1>8, <1>9, <1>10, <1>11, ReleaseStep

LEMMA GrowInPlaceKeeps ==
  ASSUME IInv, NEW t \in Threads, NEW b \in live, NEW k \in RunSizes, GrowInPlace(t, b, k)
  PROVE  IInv'
<1> DEFINE u == b \div UnitSlots
           v == u - Shift(frontier, u, k)
           x == RunAddr(v)
<1>1. /\ pool = "mapped" /\ th[t].pc = "idle" /\ th' = [th EXCEPT ![t] = Idle] /\ side[b] = LARGE
      /\ CanGrowRun(frontier, u, k) /\ frontier' = GrowRun(frontier, u, k)
      /\ side' = [Cleared(b) EXCEPT ![x] = LARGE] /\ live' = (live \ {b}) \cup {x}
      /\ UNCHANGED <<head, next, cache, epoch, pool>>
  BY DEF GrowInPlace, Begin, Step
<1>2. /\ TypesInv /\ CallOK(th[t], cache[t]) /\ b \in Slots /\ CacheOK(cache[t], epoch)
      /\ FrontierOK(frontier) /\ k \in Nat
  BY <1>1, CallFacts, SlabPoolAssumption DEF TypesInv
<1>3. PICK own, cls :
        \E stk \in [Classes -> Seq(Slots)], chain \in [Threads -> Seq(Slots)] :
          Blocked(own, cls, stk, chain)
  BY <1>1 DEF IInv
<1>4. PICK stk \in [Classes -> Seq(Slots)], chain \in [Threads -> Seq(Slots)] :
        Blocked(own, cls, stk, chain)
  BY <1>3
<1>5. /\ own \in [Slots -> Tags] /\ HoldsSet(own, LiveTag, live)
      /\ ThreadOK(own, cls, t, chain[t], cache[t], th[t], head, next)
      /\ cls \in [Slots -> Classes \cup {LARGE}] /\ Layout(own, cls, frontier)
  BY <1>4 DEF Blocked
<1>6. own[b] = LiveTag /\ cls[b] = LARGE
  BY <1>1, <1>2, <1>4, OutIs DEF Blocked, HoldsSet, SideOK
<1>7. u \in Runs(frontier) /\ RunAddr(u) = b
  BY <1>2, <1>4, <1>6, RunOfBlock, TagsDiffer
<1> HIDE DEF u
<1>8. /\ FrontierOK(frontier') /\ frontier'.lo = frontier.lo /\ v \in Units
      /\ v \notin Runs(frontier) \ {u} /\ Runs(frontier') = (Runs(frontier) \ {u}) \cup {v}
  BY <1>1, <1>2, <1>7, GrowRunKeeps
<1> HIDE DEF v
<1>9. x \in Slots
  BY <1>8, UnitFacts
<1>10. x # b => own[x] = NoTag
  <2> SUFFICES ASSUME x # b PROVE own[x] = NoTag
    OBVIOUS
  <2>1. v # u /\ v \notin Runs(frontier)
    BY <1>7, <1>8
  <2>2. frontier.lo <= RunAddr(v)
    BY <1>8, RunsAreHigh
  <2>3. QED
    BY <1>2, <1>5, <1>8, <2>1, <2>2, NewRuns
<1> HIDE DEF x
<1>11. AddrsOf({u}) = {b} /\ AddrsOf({v}) = {x}
  BY <1>7, AddrsOfOne DEF x
<1>12. side' \in [Slots -> Classes \cup {LARGE, None}] /\ side' = RunSide(side, {b}, {x})
  BY <1>1, <1>2, <1>9 DEF TypesInv, RunSide, Cleared
<1>13. Moves(t, Idle)
  <2>1. EpochNext
    BY <1>1, IdleIs, GoesEpoch DEF Goes
  <2>2. QED
    BY <1>1, <1>2, <1>8, <1>9, <1>12, <2>1, IdleIs DEF Moves, TypesInv
<1> DEFINE own2 == RunOwn(own, {b}, {x})
           cls2 == RunCls(cls, {x})
<1>14. \A d \in Slots :
         /\ own2[d] = (IF d = x THEN LiveTag ELSE IF d = b THEN NoTag ELSE own[d])
         /\ cls2[d] = IF d = x THEN LARGE ELSE cls[d]
  BY DEF RunOwn, RunCls
<1>15. th[t].todo = << >> /\ th[t].first = None /\ th[t].got = None /\ th[t].addr = None
  BY <1>1, <1>2 DEF CallOK, Bare
<1>16. /\ \A d \in Slots : /\ own[d] # ChainTag(t) /\ own[d] # NewTag(t) /\ own[d] # GotTag(t)
                           /\ own[d] # AddrTag(t)
       /\ \A d \in Slots : own[d] # TodoTag(t)
       /\ OwnClasses(own, cls, t, th[t])
       /\ \A c \in Classes : Holds(own, BinTag(t, c), BinOf(cache[t], c))
  BY <1>5, <1>15, OwnedBy, NoTodo, Constants
<1>17. ASSUME NEW c \in Classes PROVE Holds(own2, BinTag(t, c), BinOf(cache[t], c))
  <2>1. BinTag(t, c) # NoTag /\ BinTag(t, c) # LiveTag
    BY TagsDiffer
  <2>2. QED
    BY <1>5, <1>6, <1>10, <1>16, <2>1, RunHolds
<1> HIDE DEF own2, cls2
<1>18. HoldsSet(own2, LiveTag, live')
  BY <1>1, <1>2, <1>5, <1>14, TagsDiffer DEF HoldsSet
<1>19. \A d \in Slots : /\ own2[d] # ChainTag(t) /\ own2[d] # NewTag(t) /\ own2[d] # GotTag(t)
                        /\ own2[d] # AddrTag(t) /\ own2[d] # TodoTag(t)
                        /\ \A c \in Classes : own2[d] = BinTag(t, c) => cls2[d] = c
  BY <1>14, <1>16, TagsDiffer DEF OwnClasses
<1>20. ThreadOK(own2, cls2, t, << >>, cache[t], Idle, head, next)
  BY <1>17, <1>19, IdleThread
<1>21. ThreadOK(own2, cls2, t, << >>, cache'[t], Idle, head, next) /\ next' = next
  BY <1>1, <1>20
<1> DEFINE G == {u}
           N == {v}
<1>22. /\ G \subseteq Runs(frontier) /\ N \subseteq Units /\ N \cap (Runs(frontier) \ G) = {}
       /\ Runs(frontier') = (Runs(frontier) \ G) \cup N /\ AddrsOf(G) = {b} /\ AddrsOf(N) = {x}
  BY <1>7, <1>8, <1>11
<1>23. Mine(own[b], t)
  BY <1>6, MineIs
<1> HIDE DEF G, N
<1>24. /\ side' = RunSide(side, AddrsOf(G), AddrsOf(N))
       /\ \A d \in AddrsOf(G) : Mine(own[d], t)
       /\ HoldsSet(RunOwn(own, AddrsOf(G), AddrsOf(N)), LiveTag, live')
       /\ ThreadOK(RunOwn(own, AddrsOf(G), AddrsOf(N)), RunCls(cls, AddrsOf(N)), t, << >>,
                   cache'[t], Idle, head, next)
  BY <1>12, <1>18, <1>21, <1>22, <1>23 DEF own2, cls2
<1>25. QED
  BY <1>4, <1>8, <1>13, <1>21, <1>22, <1>24, RunStep

LEMMA CopyToRunKeeps ==
  ASSUME IInv, NEW t \in Threads, CopyToRun(t)
  PROVE  IInv'
<1> DEFINE k == th[t].units
           a == th[t].addr
           u == RunStart(frontier, k)
           x == RunAddr(u)
           pc == IF side[a] = LARGE THEN "release" ELSE "check"
           call == [Idle EXCEPT !.pc = pc, !.op = "free", !.class = side[a], !.addr = a]
<1>1. /\ th[t].pc = "copy" /\ th' = [th EXCEPT ![t] = call]
      /\ CanTakeRun(frontier, k) /\ frontier' = TakeRun(frontier, k)
      /\ side' = [side EXCEPT ![x] = LARGE] /\ live' = live \cup {x}
      /\ UNCHANGED <<head, next, cache, epoch, pool>>
  BY DEF CopyToRun, Step
<1>2. /\ TypesInv /\ th[t] \in Calls /\ CallOK(th[t], cache[t])
      /\ CacheOK(cache[t], epoch) /\ pool = "mapped"
  BY <1>1, CallFacts
<1>3. PICK own, cls :
        \E stk \in [Classes -> Seq(Slots)], chain \in [Threads -> Seq(Slots)] :
          Blocked(own, cls, stk, chain)
  BY <1>2 DEF IInv
<1>4. PICK stk \in [Classes -> Seq(Slots)], chain \in [Threads -> Seq(Slots)] :
        Blocked(own, cls, stk, chain)
  BY <1>3
<1>5. /\ own \in [Slots -> Tags] /\ HoldsSet(own, LiveTag, live)
      /\ ThreadOK(own, cls, t, chain[t], cache[t], th[t], head, next)
      /\ cls \in [Slots -> Classes \cup {LARGE}] /\ SideOK(own, cls, side)
  BY <1>4 DEF Blocked
<1>b. k \in Nat
  BY <1>2 DEF Calls
<1>6. /\ FrontierOK(frontier') /\ frontier'.lo = frontier.lo
      /\ u \in Units /\ u \notin Runs(frontier) /\ Runs(frontier') = Runs(frontier) \cup {u}
      /\ x \in Slots /\ own[x] = NoTag
  BY <1>1, <1>4, <1>b, TakenRun
<1> HIDE DEF u, x, k
<1>7. AddrsOf({}) = {} /\ AddrsOf({u}) = {x}
  BY AddrsOfOne DEF x
<1>8. side' \in [Slots -> Classes \cup {LARGE, None}] /\ side' = RunSide(side, {}, {x})
  BY <1>1, <1>2, <1>6 DEF TypesInv, RunSide
<1>11. /\ th[t].todo = << >> /\ th[t].first = None /\ th[t].got = None /\ a # None
  BY <1>1, <1>2 DEF CallOK, Bare
<1>12. a \in Slots
  BY <1>2, <1>11 DEF Calls, Maybe
<1>13. /\ \A d \in Slots : /\ own[d] # ChainTag(t) /\ own[d] # NewTag(t) /\ own[d] # GotTag(t)
                           /\ own[d] = AddrTag(t) <=> d = a
       /\ \A d \in Slots : own[d] # TodoTag(t)
       /\ OwnClasses(own, cls, t, th[t])
       /\ \A c \in Classes : Holds(own, BinTag(t, c), BinOf(cache[t], c))
  BY <1>5, <1>11, OwnedBy, NoTodo, Constants
<1>14. own[a] = AddrTag(t) /\ side[a] = cls[a] /\ cls[a] \in Classes \cup {LARGE}
  BY <1>5, <1>12, <1>13, OutIs DEF SideOK
<1>15. PICK a0 \in Slots, k0 \in Classes \cup {LARGE} : a0 = a /\ k0 = side[a]
  BY <1>12, <1>14
<1>16. pc \in PCs /\ pc = IF k0 = LARGE THEN "release" ELSE "check"
  BY <1>15 DEF PCs
<1>c. call = [Idle EXCEPT !.pc = pc, !.op = "free", !.class = k0, !.addr = a0]
  BY <1>15
<1> HIDE DEF pc, call
<1>17. /\ call \in Calls /\ call.pc = pc /\ call.op = "free" /\ call.class = k0
       /\ call.addr = a0 /\ call.todo = << >> /\ call.list = None /\ call.first = None
       /\ call.got = None /\ call.extras = 0 /\ call.fresh = FALSE
  BY <1>16, <1>c, IdleIsCall DEF Idle, Calls, Ops, Maybe
<1>18. CallOK(call, cache[t]) /\ CasOK(call, head, next)
  BY <1>16, <1>17, Constants DEF CallOK, CasOK, Bare
<1>9. Moves(t, call)
  <2>1. EpochNext
    BY <1>1, <1>17, GoesEpoch DEF Goes
  <2>2. QED
    BY <1>1, <1>2, <1>6, <1>8, <1>17, <2>1 DEF Moves, TypesInv
<1> DEFINE own2 == RunOwn(own, {}, {x})
           cls2 == RunCls(cls, {x})
<1>10. \A d \in Slots : /\ own2[d] = IF d = x THEN LiveTag ELSE own[d]
                        /\ cls2[d] = IF d = x THEN LARGE ELSE cls[d]
  BY DEF RunOwn, RunCls
<1>19. ASSUME NEW c \in Classes PROVE Holds(own2, BinTag(t, c), BinOf(cache[t], c))
  <2>1. BinTag(t, c) # NoTag /\ BinTag(t, c) # LiveTag
    BY TagsDiffer
  <2>2. QED
    BY <1>5, <1>6, <1>13, <2>1, RunHolds
<1> HIDE DEF own2, cls2
<1>20. HoldsSet(own2, LiveTag, live')
  BY <1>1, <1>5, <1>10 DEF HoldsSet
<1>21. a # x
  BY <1>6, <1>14, TagsDiffer
<1>22. \A d \in Slots : /\ own2[d] # ChainTag(t) /\ own2[d] # NewTag(t) /\ own2[d] # GotTag(t)
                        /\ own2[d] # TodoTag(t) /\ (own2[d] = AddrTag(t) <=> d = a0)
                        /\ \A c \in Classes : own2[d] = BinTag(t, c) => cls2[d] = c
  BY <1>6, <1>10, <1>13, <1>15, <1>21, TagsDiffer DEF OwnClasses
<1>23. OwnClasses(own2, cls2, t, call)
  <2>1. cls2[a0] = k0
    BY <1>10, <1>14, <1>15, <1>21
  <2>2. QED
    BY <1>17, <1>22, <2>1 DEF OwnClasses
<1>24. ThreadOK(own2, cls2, t, << >>, cache[t], call, head, next)
  <2>1. Holds(own2, TodoTag(t), call.todo)
    BY <1>17, <1>22, HoldsNone
  <2>2. \A d \in Slots : /\ own2[d] # ChainTag(t) /\ own2[d] # NewTag(t)
                         /\ own2[d] = GotTag(t) <=> d = call.got
                         /\ own2[d] = AddrTag(t) <=> d = call.addr
    BY <1>17, <1>22, Constants
  <2>3. QED
    BY <1>17, <1>18, <1>19, <1>23, <2>1, <2>2, ChainlessThread
<1>25. ThreadOK(own2, cls2, t, << >>, cache'[t], call, head, next) /\ next' = next
  BY <1>1, <1>24
<1> DEFINE G == {}
           N == {u}
<1>26. /\ G \subseteq Runs(frontier) /\ N \subseteq Units /\ N \cap (Runs(frontier) \ G) = {}
       /\ Runs(frontier') = (Runs(frontier) \ G) \cup N /\ AddrsOf(G) = {} /\ AddrsOf(N) = {x}
  BY <1>6, <1>7
<1> HIDE DEF G, N
<1>27. /\ side' = RunSide(side, AddrsOf(G), AddrsOf(N))
       /\ \A d \in AddrsOf(G) : Mine(own[d], t)
       /\ HoldsSet(RunOwn(own, AddrsOf(G), AddrsOf(N)), LiveTag, live')
       /\ ThreadOK(RunOwn(own, AddrsOf(G), AddrsOf(N)), RunCls(cls, AddrsOf(N)), t, << >>,
                   cache'[t], call, head, next)
  BY <1>8, <1>20, <1>25, <1>26 DEF own2, cls2
<1>28. QED
  BY <1>4, <1>6, <1>9, <1>25, <1>26, <1>27, RunStep
-----------------------------------------------------------------------------
(* Steps that empty a cache.                                               *)

(* The concatenation, as the recursive function in it computes it.         *)
LEMMA FlattenUnfolds ==
  ASSUME NEW s, NEW N \in Nat \ {0}, Len(s) = N
  PROVE  \E f : /\ FlattenSeq(s) = f[N] /\ f[1] = s[1]
                /\ \A n \in 2 .. N : f[n] = f[n - 1] \o s[n]
<1> DEFINE StepOf(v, n) == v \o s[n]
           Solves(f, k) == f = [n \in 1 .. k |-> IF n = 1 THEN s[n] ELSE StepOf(f[n - 1], n)]
           S == {k \in 0 .. N : k = 0 \/ \E f : Solves(f, k)}
<1>1. FlattenSeq(s) = (CHOOSE f : Solves(f, N))[N]
  BY DEF FlattenSeq
<1> HIDE DEF StepOf
<1>2. ASSUME NEW k \in 1 .. N, k - 1 \in S
      PROVE  k \in S
  <2>1. CASE k = 1
    <3> DEFINE f1 == [n \in 1 .. 1 |-> s[1]]
    <3>1. Solves(f1, 1)
      OBVIOUS
    <3> HIDE DEF f1, Solves
    <3>2. QED
      BY <2>1, <3>1
  <2>2. CASE k # 1
    <3>1. PICK f : Solves(f, k - 1)
      BY <1>2, <2>2
    <3> DEFINE g == [n \in 1 .. k |-> IF n = k THEN StepOf(f[k - 1], k) ELSE f[n]]
    <3>2. \A n \in 1 .. k - 1 : g[n] = f[n]
      OBVIOUS
    <3>3. \A n \in 1 .. k - 1 : f[n] = IF n = 1 THEN s[n] ELSE StepOf(f[n - 1], n)
      BY <3>1
    <3>4. ASSUME NEW n \in 1 .. k
          PROVE  g[n] = IF n = 1 THEN s[n] ELSE StepOf(g[n - 1], n)
      <4>1. CASE n = k
        <5>1. g[n] = StepOf(f[n - 1], n) /\ g[n - 1] = f[n - 1] /\ n # 1
          BY <2>2, <3>2, <4>1
        <5>2. QED
          BY <5>1
      <4>2. CASE n # k
        <5>1. n \in 1 .. k - 1 /\ (n # 1 => n - 1 \in 1 .. k - 1)
          BY <4>2
        <5>2. QED
          BY <5>1, <3>2, <3>3
      <4>3. QED
        BY <4>1, <4>2
    <3>5. g = [n \in 1 .. k |-> g[n]]
      OBVIOUS
    <3> HIDE DEF g
    <3>6. Solves(g, k)
      BY <3>4, <3>5
    <3>7. QED
      BY <3>6
  <2>3. QED
    BY <2>1, <2>2
<1> HIDE DEF S
<1>3. N \in S
  <2>1. 0 \in S
    BY DEF S
  <2>2. \A k \in 0 .. N : k \in S
    BY <1>2, <2>1, UpTo
  <2>3. QED
    BY <2>2
<1>4. \E f : Solves(f, N)
  BY <1>3 DEF S
<1> DEFINE h == CHOOSE f : Solves(f, N)
<1>5. Solves(h, N)
  BY <1>4
<1> HIDE DEF h
<1>6. h[1] = s[1] /\ \A n \in 2 .. N : h[n] = StepOf(h[n - 1], n)
  BY <1>5
<1>7. QED
  BY <1>1, <1>6 DEF h, StepOf

(* A sequence of the blocks of all bins of thread t, once each.            *)
Joined(own, t, s) ==
  /\ s \in Seq(Slots) /\ Distinct(s)
  /\ \A b \in Slots : b \in ToSet(s) <=> \E c \in Classes : own[b] = BinTag(t, c)

LEMMA JoinedBins ==
  ASSUME NEW own, NEW t, NEW ca, ca = None \/ ca \in Caches,
         \A c \in Classes : Holds(own, BinTag(t, c), BinOf(ca, c))
  PROVE  Joined(own, t, IF ca = None THEN << >> ELSE FlattenSeq(ca.bins))
<1> DEFINE bins == ca.bins
           N == Len(SlabSizes)
<1>0. Classes = 1 .. N /\ N \in Nat
  BY Constants
<1>1. CASE ca = None
  <2>1. ASSUME NEW b \in Slots, NEW c \in Classes PROVE own[b] # BinTag(t, c)
    <3>1. Holds(own, BinTag(t, c), << >>)
      BY <1>1 DEF BinOf
    <3>2. QED
      BY <3>1 DEF Holds, HoldsSet, ToSet
  <2>2. << >> \in Seq(Slots) /\ Distinct(<< >>) /\ ToSet(<< >>) = {}
    BY DEF Distinct, ToSet
  <2>3. QED
    BY <1>1, <2>1, <2>2 DEF Joined
<1>2. CASE ca # None
  <2>1. bins \in [Classes -> Seq(Slots)] /\ Len(bins) = N
    BY <1>0, <1>2 DEF Caches
  <2>2. \A c \in Classes : Holds(own, BinTag(t, c), bins[c])
    BY <1>2 DEF BinOf
  <2> HIDE DEF bins, N
  <2>3. CASE N = 0
    <3>1. FlattenSeq(bins) = bins
      BY <2>1, <2>3 DEF FlattenSeq
    <3>2. bins = << >> /\ Classes = {}
      BY <1>0, <2>1, <2>3
    <3>3. << >> \in Seq(Slots) /\ Distinct(<< >>) /\ ToSet(<< >>) = {}
      BY DEF Distinct, ToSet
    <3>4. Joined(own, t, FlattenSeq(bins))
      BY <3>1, <3>2, <3>3 DEF Joined
    <3>5. QED
      BY <1>2, <3>4 DEF bins
  <2>4. CASE N # 0
    <3>0. N \in Nat \ {0} /\ Len(bins) = N
      BY <1>0, <2>1, <2>4
    <3>1. PICK f : /\ FlattenSeq(bins) = f[N] /\ f[1] = bins[1]
                   /\ \A n \in 2 .. N : f[n] = f[n - 1] \o bins[n]
      BY ONLY <3>0, FlattenUnfolds, Zenon
    <3> DEFINE all == BinTag(t, 0)
               In(b, n) == \E c \in 1 .. n : own[b] = BinTag(t, c)
               W(n) == [b \in Slots |-> IF In(b, n) THEN all
                                        ELSE IF In(b, N) THEN own[b] ELSE NoTag]
               S == {n \in 0 .. N : n = 0 \/ Holds(W(n), all, f[n])}
    <3>2. NoTag # all /\ \A c \in Classes : BinTag(t, c) # all /\ BinTag(t, c) # NoTag
      BY <1>0, TagFacts
    <3>3. \A c, d \in Classes : BinTag(t, c) = BinTag(t, d) => c = d
      BY TagFacts
    <3>4. ASSUME NEW n \in 1 .. N, NEW b \in Slots PROVE W(n)[b] = all <=> In(b, n)
      BY <1>0, <3>2
    <3>5. ASSUME NEW n \in 2 .. N, NEW b \in Slots
          PROVE  W(n - 1)[b] = BinTag(t, n) <=> own[b] = BinTag(t, n)
      <4>1. n \in Classes /\ n - 1 \in 1 .. N
        BY <1>0
      <4>2. own[b] = BinTag(t, n) => In(b, N) /\ ~In(b, n - 1)
        BY <1>0, <3>3, <4>1
      <4>3. BinTag(t, n) # all /\ BinTag(t, n) # NoTag
        BY <3>2, <4>1
      <4>4. W(n - 1)[b] = IF In(b, n - 1) THEN all ELSE IF In(b, N) THEN own[b] ELSE NoTag
        OBVIOUS
      <4> HIDE DEF W, In, all
      <4>5. QED
        BY <4>2, <4>3, <4>4
    <3>6. ASSUME NEW n \in 2 .. N, NEW b \in Slots
          PROVE  In(b, n) <=> In(b, n - 1) \/ own[b] = BinTag(t, n)
      BY <1>0
    <3>7. ASSUME NEW b \in Slots PROVE In(b, 1) <=> own[b] = BinTag(t, 1)
      OBVIOUS
    <3>8. ASSUME NEW b \in Slots PROVE In(b, N) <=> \E c \in Classes : own[b] = BinTag(t, c)
      BY <1>0
    <3> HIDE DEF W, In, all
    <3>9. ASSUME NEW n \in 1 .. N, n - 1 \in S PROVE n \in S
      <4>1. CASE n = 1
        <5>1. Holds(own, BinTag(t, 1), f[1])
          BY <1>0, <2>2, <3>1, <4>1
        <5>2. \A b \in Slots : W(1)[b] = all <=> own[b] = BinTag(t, 1)
          BY <3>4, <3>7, <4>1
        <5>3. Holds(W(1), all, f[1])
          BY <5>1, <5>2 DEF Holds, HoldsSet
        <5>4. QED
          BY <4>1, <5>3
      <4>2. CASE n # 1
        <5>1. n \in 2 .. N /\ n - 1 \in 1 .. N /\ n \in Classes
          BY <1>0, <4>2
        <5>2. Holds(W(n - 1), all, f[n - 1])
          BY <3>9, <5>1
        <5>3. Holds(W(n - 1), BinTag(t, n), bins[n])
          <6>1. Holds(own, BinTag(t, n), bins[n])
            BY <2>2, <5>1
          <6>2. \A b \in Slots : W(n - 1)[b] = BinTag(t, n) <=> own[b] = BinTag(t, n)
            BY <3>5, <5>1
          <6>3. QED
            BY <6>1, <6>2, HoldsStays
        <5>4. \A b \in Slots : W(n)[b] = all <=> W(n - 1)[b] = all \/ W(n - 1)[b] = BinTag(t, n)
          BY <3>4, <3>5, <3>6, <5>1
        <5>5. all # BinTag(t, n)
          BY <3>2, <5>1
        <5>6. Holds(W(n), all, f[n - 1] \o bins[n])
          BY <5>2, <5>3, <5>4, <5>5, HoldsConcat
        <5>7. f[n] = f[n - 1] \o bins[n]
          BY <3>1, <5>1
        <5>8. Holds(W(n), all, f[n])
          BY <5>6, <5>7
        <5>9. QED
          BY <5>8
      <4>3. QED
        BY <4>1, <4>2
    <3> HIDE DEF S
    <3>10. N \in S
      <4>1. 0 \in S
        BY <1>0 DEF S
      <4>2. \A n \in 0 .. N : n \in S
        BY <1>0, <3>9, <4>1, UpTo
      <4>3. QED
        BY <1>0, <4>2
    <3>11. Holds(W(N), all, f[N])
      BY <2>4, <3>10 DEF S
    <3>12. \A b \in Slots : W(N)[b] = all <=> \E c \in Classes : own[b] = BinTag(t, c)
      BY <1>0, <2>4, <3>4, <3>8
    <3>13. Joined(own, t, f[N])
      BY <3>11, <3>12 DEF Holds, HoldsSet, Joined
    <3>14. QED
      BY <1>2, <3>1, <3>13 DEF bins
  <2>5. QED
    BY <2>3, <2>4
<1>3. QED
  BY <1>1, <1>2

LEMMA AllCachedIs ==
  ASSUME IInv, NEW t \in Threads, pool = "mapped"
  PROVE  AllCached(t) \in Seq(Slots)
<1>1. cache[t] \in Caches \cup {None}
  BY CallFacts
<1>2. PICK own, cls, stk, chain : ThreadOK(own, cls, t, chain[t], cache[t], th[t], head, next)
  BY DEF IInv, Blocked
<1>3. \A d \in Classes : Holds(own, BinTag(t, d), BinOf(cache[t], d))
  BY <1>2, OwnedBy
<1>4. cache[t] = None \/ cache[t] \in Caches
  BY <1>1
<1>5. Joined(own, t, IF cache[t] = None THEN << >> ELSE FlattenSeq(cache[t].bins))
  BY <1>3, <1>4, JoinedBins
<1>6. QED
  BY <1>5 DEF AllCached, Joined

(* Thread t empties its bins, and is to return what was in them.           *)
LEMMA EmptyStep ==
  ASSUME IInv, NEW t \in Threads, NEW call, Moves(t, call),
         UNCHANGED <<poolVars, live>>,
         th[t].todo = << >>, th[t].first = None, th[t].got = None,
         call.todo = AllCached(t), call.first = None, call.got = None, call.addr = th[t].addr,
         th[t].addr # None => call.op = th[t].op /\ call.class = th[t].class,
         CallOK(call, cache'[t]), CasOK(call, head, next),
         \A c \in Classes : BinOf(cache'[t], c) = << >>
  PROVE  IInv'
<1>1. pool = "mapped" /\ cache[t] \in Caches \cup {None}
  BY CallFacts DEF Moves
<1>2. PICK own, cls :
        \E stk \in [Classes -> Seq(Slots)], chain \in [Threads -> Seq(Slots)] :
          Blocked(own, cls, stk, chain)
  BY <1>1 DEF IInv
<1>3. PICK stk \in [Classes -> Seq(Slots)], chain \in [Threads -> Seq(Slots)] :
        Blocked(own, cls, stk, chain)
  BY <1>2
<1>4. /\ own \in [Slots -> Tags] /\ HoldsSet(own, LiveTag, live)
      /\ ThreadOK(own, cls, t, chain[t], cache[t], th[t], head, next)
  BY <1>3 DEF Blocked
<1>5. /\ \A d \in Slots : /\ own[d] # ChainTag(t) /\ own[d] # NewTag(t) /\ own[d] # GotTag(t)
                          /\ own[d] = AddrTag(t) <=> d = th[t].addr
      /\ \A d \in Slots : own[d] # TodoTag(t)
      /\ OwnClasses(own, cls, t, th[t])
      /\ \A d \in Classes : Holds(own, BinTag(t, d), BinOf(cache[t], d))
  BY <1>4, OwnedBy, NoTodo, Constants
<1>6. Joined(own, t, call.todo)
  <2>1. cache[t] = None \/ cache[t] \in Caches
    BY <1>1
  <2>2. Joined(own, t, IF cache[t] = None THEN << >> ELSE FlattenSeq(cache[t].bins))
    BY <1>5, <2>1, JoinedBins
  <2>3. QED
    BY <2>2 DEF AllCached
<1> DEFINE g == TodoTag(t)
           S == {b \in Slots : \E c \in Classes : own[b] = BinTag(t, c)}
           own2 == Give(own, S, g)
<1>7. g \in Tags /\ Out(g) /\ Mine(g, t)
  BY TagsAre, OutIs, MineIs
<1>10. \A d \in Slots : d \in S <=> \E c \in Classes : own[d] = BinTag(t, c)
  OBVIOUS
<1> HIDE DEF S, g
<1>8. own2 \in [Slots -> Tags] /\ \A d \in Slots : own2[d] = IF d \in S THEN g ELSE own[d]
  BY <1>4, <1>7, GiveIs
<1> USE DEF g
<1>9. \A d \in Slots : d \in S => Out(own[d]) /\ Mine(own[d], t)
  BY <1>10, OutIs, MineIs
<1> HIDE DEF own2
<1>11. \A d \in Slots : d \in S => own[d] # AddrTag(t) /\ own[d] # LiveTag
  BY <1>10, TagsDiffer
<1>12. HoldsSet(own2, LiveTag, live')
  BY <1>4, <1>8, <1>11, TagsDiffer DEF HoldsSet
<1>13. Holds(own2, TodoTag(t), call.todo)
  <2>1. \A d \in Slots : own2[d] = TodoTag(t) <=> d \in S
    BY <1>5, <1>8
  <2>2. QED
    BY <1>6, <1>10, <2>1 DEF Joined, Holds, HoldsSet
<1>14. ASSUME NEW c \in Classes PROVE Holds(own2, BinTag(t, c), BinOf(cache'[t], c))
  <2>1. \A d \in Slots : own2[d] # BinTag(t, c)
    BY <1>8, <1>10, TagsDiffer
  <2>2. QED
    BY <2>1, HoldsNone
<1>15. \A d \in Slots : /\ own2[d] # ChainTag(t) /\ own2[d] # NewTag(t)
                        /\ own2[d] = GotTag(t) <=> d = call.got
                        /\ own2[d] = AddrTag(t) <=> d = call.addr
  BY <1>5, <1>8, <1>11, TagsDiffer, Constants
<1>16. OwnClasses(own2, cls, t, call)
  <2> SUFFICES ASSUME NEW d \in Slots
               PROVE /\ own2[d] = ChainTag(t) => cls[d] = call.list
                     /\ own2[d] \in {GotTag(t), NewTag(t)} => cls[d] = call.class
                     /\ own2[d] = TodoTag(t) => cls[d] \in Classes
                     /\ own2[d] = AddrTag(t) => CASE call.op = "free" -> cls[d] = call.class
                                                  [] call.op = "allocate" -> cls[d] \in Classes
                                                  [] OTHER -> TRUE
                     /\ \A c \in Classes : own2[d] = BinTag(t, c) => cls[d] = c
    BY DEF OwnClasses
  <2>1. /\ own[d] = AddrTag(t) => CASE th[t].op = "free" -> cls[d] = th[t].class
                                    [] th[t].op = "allocate" -> cls[d] \in Classes
                                    [] OTHER -> TRUE
        /\ \A c \in Classes : own[d] = BinTag(t, c) => cls[d] = c
    BY <1>5 DEF OwnClasses
  <2>2. d # None
    BY Constants
  <2>3. CASE d \in S
    <3>1. cls[d] \in Classes
      BY <1>10, <2>1, <2>3
    <3>2. own2[d] = TodoTag(t)
      BY <1>8, <2>3
    <3>3. QED
      BY <3>1, <3>2, TagsDiffer
  <2>4. CASE d \notin S
    <3>1. own2[d] = own[d]
      BY <1>8, <2>4
    <3>2. own[d] = AddrTag(t) => th[t].addr # None
      BY <1>5, <2>2
    <3>3. QED
      BY <1>5, <2>1, <3>1, <3>2
  <2>5. QED
    BY <2>3, <2>4
<1>17. ThreadOK(own2, cls, t, << >>, cache'[t], call, head, next) /\ << >> \in Seq(Slots)
  BY <1>13, <1>14, <1>15, <1>16, ChainlessThread
<1>18. ThreadOK(own2, cls, t, << >>, cache'[t], call, head, next')
  BY <1>17 DEF poolVars
<1>19. frontier' = frontier /\ side' = side /\ \A d \in Slots : d \notin S => next'[d] = next[d]
  BY DEF poolVars
<1> HIDE DEF g
<1>20. QED
  BY <1>3, <1>7, <1>9, <1>12, <1>17, <1>18, <1>19, MoveOut DEF own2

(* A cache without blocks.                                                 *)
LEMMA NoBinsIs ==
  ASSUME TypesInv, NEW e \in 0 .. epoch
  PROVE  /\ [bins |-> NoBins, epoch |-> e] \in Caches
         /\ CacheOK([bins |-> NoBins, epoch |-> e], epoch)
         /\ [bins |-> NoBins, epoch |-> e] # None
         /\ \A c \in Classes : BinOf([bins |-> NoBins, epoch |-> e], c) = << >>
<1> DEFINE ca == [bins |-> NoBins, epoch |-> e]
<1>1. NoBins \in [Classes -> Seq(Slots)] /\ \A c \in Classes : NoBins[c] = << >>
  BY DEF NoBins
<1>2. ca.bins = NoBins /\ ca.epoch = e /\ e \in Nat /\ e <= epoch
  BY DEF TypesInv
<1>3. ca \in Caches
  BY <1>1, <1>2 DEF Caches
<1>4. ca # None
  BY <1>3, CacheIsSome
<1> HIDE DEF ca
<1>5. Len(<< >>) <= TCACHE_CAPACITY
  BY Constants
<1>6. CacheOK(ca, epoch) /\ \A c \in Classes : BinOf(ca, c) = << >>
  BY <1>1, <1>2, <1>3, <1>4, <1>5 DEF CacheOK, BinOf
<1>7. QED
  BY <1>3, <1>4, <1>6 DEF ca

LEMMA DropCacheKeeps ==
  ASSUME IInv, NEW t \in Threads, DropCache(t)
  PROVE  IInv'
<1> DEFINE call == [Idle EXCEPT !.pc = "return", !.op = "drop", !.todo = AllCached(t)]
<1>1. /\ pool = "mapped" /\ th[t].pc = "idle" /\ th' = [th EXCEPT ![t] = call]
      /\ cache' = [cache EXCEPT ![t] = None] /\ UNCHANGED <<poolVars, epoch, live, pool>>
  BY DEF DropCache, Begin, Step
<1>2. /\ TypesInv /\ CallOK(th[t], cache[t])
  BY <1>1, CallFacts
<1>3. th[t].todo = << >> /\ th[t].first = None /\ th[t].got = None /\ th[t].addr = None
  BY <1>1, <1>2 DEF CallOK, Bare
<1>4. AllCached(t) \in Seq(Slots)
  BY <1>1, AllCachedIs
<1>5. /\ call \in Calls /\ call.pc = "return" /\ call.op = "drop" /\ call.todo = AllCached(t)
      /\ call.addr = None /\ call.list = None /\ call.first = None
      /\ call.got = None /\ call.extras = 0 /\ call.fresh = FALSE
  BY <1>4, IdleIsCall DEF Idle, Calls, PCs, Ops
<1> HIDE DEF call
<1>6. /\ cache'[t] = None /\ cache' \in [Threads -> Caches \cup {None}]
      /\ \A u \in Threads \ {t} : cache'[u] = cache[u]
  BY <1>1, <1>2 DEF TypesInv
<1>7. \A c \in Classes : BinOf(cache'[t], c) = << >>
  BY <1>6 DEF BinOf
<1>8. Goes(t, call) /\ CallOK(call, cache'[t]) /\ CasOK(call, head, next)
  BY <1>1, <1>5 DEF Goes, CallOK, CasOK, Returning
<1>9. EpochNext
  BY <1>1, <1>8, GoesEpoch
<1>10. CacheOK(cache'[t], epoch')
  BY <1>6 DEF CacheOK
<1>11. Moves(t, call)
  BY <1>1, <1>2, <1>5, <1>6, <1>9, <1>10 DEF Moves, poolVars, TypesInv
<1>12. QED
  BY <1>1, <1>3, <1>5, <1>7, <1>8, <1>11, EmptyStep

LEMMA FlushCachesKeeps ==
  ASSUME IInv, NEW t \in Threads, FlushCaches(t)
  PROVE  IInv'
<1> DEFINE call == [Idle EXCEPT !.pc = "return", !.op = "flush", !.todo = AllCached(t)]
<1>1. /\ pool = "mapped" /\ th[t].pc = "idle" /\ th' = [th EXCEPT ![t] = call]
      /\ cache' = IF cache[t] = None THEN cache ELSE [cache EXCEPT ![t].bins = NoBins]
      /\ UNCHANGED <<poolVars, epoch, live, pool>>
      /\ epoch + Cardinality(Flushing) < MaxEpoch
  BY DEF FlushCaches, Begin, Step, Flushing
<1>2. /\ TypesInv /\ CallOK(th[t], cache[t]) /\ CacheOK(cache[t], epoch)
      /\ cache[t] \in Caches \cup {None}
  BY <1>1, CallFacts
<1>3. /\ th[t].todo = << >> /\ th[t].first = None /\ th[t].got = None /\ th[t].addr = None
      /\ th[t].op = "none"
  BY <1>1, <1>2 DEF CallOK, Bare
<1>4. AllCached(t) \in Seq(Slots)
  BY <1>1, AllCachedIs
<1>5. /\ call \in Calls /\ call.pc = "return" /\ call.op = "flush" /\ call.todo = AllCached(t)
      /\ call.addr = None /\ call.list = None /\ call.first = None
      /\ call.got = None /\ call.extras = 0 /\ call.fresh = FALSE
  BY <1>4, IdleIsCall DEF Idle, Calls, PCs, Ops
<1> HIDE DEF call
<1>6. /\ cache' \in [Threads -> Caches \cup {None}] /\ CacheOK(cache'[t], epoch')
      /\ \A u \in Threads \ {t} : cache'[u] = cache[u]
      /\ \A c \in Classes : BinOf(cache'[t], c) = << >>
  <2>1. CASE cache[t] = None
    BY <1>1, <1>2, <2>1 DEF TypesInv, BinOf
  <2>2. CASE cache[t] # None
    <3> DEFINE ca == [bins |-> NoBins, epoch |-> cache[t].epoch]
    <3>1. cache[t] \in Caches /\ cache[t].epoch \in 0 .. epoch
      BY <1>2, <2>2 DEF CacheOK, Caches, TypesInv
    <3>2. ca \in Caches /\ CacheOK(ca, epoch) /\ \A c \in Classes : BinOf(ca, c) = << >>
      BY <1>2, <3>1, NoBinsIs
    <3>3. [cache[t] EXCEPT !.bins = NoBins] = ca
      BY <3>1 DEF Caches
    <3>4. cache' = [cache EXCEPT ![t] = ca]
      BY <1>1, <2>2, <3>3
    <3> HIDE DEF ca
    <3>5. QED
      BY <1>1, <1>2, <3>2, <3>4 DEF TypesInv
  <2>3. QED
    BY <2>1, <2>2
<1>7. CallOK(call, cache'[t]) /\ CasOK(call, head, next)
  BY <1>1, <1>5 DEF CallOK, CasOK, Returning
<1>8. EpochNext
  <2>1. IsFiniteSet(Threads) /\ MaxEpoch \in Nat /\ epoch \in Nat
    BY <1>2, SlabPoolAssumption DEF TypesInv
  <2>2. Flushing \subseteq Threads /\ Flushing' = Flushing \cup {t} /\ t \notin Flushing
    <3>1. \A u \in Threads : th'[u] = IF u = t THEN call ELSE th[u]
      BY <1>1, <1>2 DEF TypesInv
    <3>2. QED
      BY <1>3, <1>5, <3>1 DEF Flushing
  <2>3. IsFiniteSet(Flushing)
    BY <2>1, <2>2, FS_Subset
  <2>4. Cardinality(Flushing') = Cardinality(Flushing) + 1
    BY <2>2, <2>3, FS_AddElement
  <2>5. Cardinality(Flushing) \in Nat
    BY <2>3, FS_CardinalityType
  <2>6. epoch' + Cardinality(Flushing') <= MaxEpoch
    BY <1>1, <2>1, <2>4, <2>5
  <2>7. QED
    BY <1>1, <2>1, <2>6 DEF EpochNext, EpochInv
<1>9. Moves(t, call)
  BY <1>1, <1>2, <1>5, <1>6, <1>8 DEF Moves, poolVars, TypesInv
<1>10. QED
  BY <1>1, <1>3, <1>5, <1>6, <1>7, <1>9, EmptyStep

LEMMA CheckEpochKeeps ==
  ASSUME IInv, NEW t \in Threads, CheckEpoch(t)
  PROVE  IInv'
<1> DEFINE stale == cache[t] # None /\ cache[t].epoch # epoch
           call == [th[t] EXCEPT !.pc = "return", !.todo = IF stale THEN AllCached(t) ELSE << >>]
           ca == [bins |-> NoBins, epoch |-> epoch]
<1>1. /\ th[t].pc = "check" /\ th' = [th EXCEPT ![t] = call]
      /\ cache' = IF cache[t] = None \/ stale THEN [cache EXCEPT ![t] = ca] ELSE cache
      /\ UNCHANGED <<poolVars, epoch, live, pool>>
  BY DEF CheckEpoch, Step
<1>2. /\ pool = "mapped" /\ TypesInv /\ th[t] \in Calls /\ CallOK(th[t], cache[t])
      /\ CacheOK(cache[t], epoch) /\ cache[t] \in Caches \cup {None} /\ CasOK(th[t], head, next)
  BY <1>1, CallFacts
<1>3. /\ th[t].todo = << >> /\ th[t].first = None /\ th[t].got = None /\ th[t].list = None
      /\ th[t].extras = 0 /\ th[t].class \in Classes /\ th[t].op \in {"allocate", "free"}
      /\ th[t].op = "free" => th[t].addr # None
      /\ th[t].fresh # TRUE
  BY <1>1, <1>2 DEF CallOK, Bare, CasOK
<1>4. AllCached(t) \in Seq(Slots)
  BY <1>2, AllCachedIs
<1>5. (IF stale THEN AllCached(t) ELSE << >>) \in Seq(Slots)
  BY <1>4
<1>6. /\ call \in Calls /\ call.pc = "return" /\ call.op = th[t].op /\ call.class = th[t].class
      /\ call.todo = IF stale THEN AllCached(t) ELSE << >>
      /\ call.addr = th[t].addr /\ call.list = None /\ call.first = None
      /\ call.got = None /\ call.extras = 0 /\ call.fresh = th[t].fresh
  BY <1>2, <1>3, <1>5 DEF Calls, PCs
<1>7. Goes(t, call)
  BY <1>1, <1>6 DEF Goes
<1> HIDE DEF call
<1>8. ASSUME cache'[t] # None PROVE CallOK(call, cache'[t]) /\ CasOK(call, head, next)
  BY <1>3, <1>6, <1>8 DEF CallOK, CasOK, Returning
<1>9. CASE cache[t] = None \/ stale
  <2>1. epoch \in 0 .. epoch
    BY <1>2 DEF TypesInv
  <2>2. ca \in Caches /\ CacheOK(ca, epoch) /\ ca # None /\ \A c \in Classes : BinOf(ca, c) = << >>
    BY <1>2, <2>1, NoBinsIs
  <2> HIDE DEF ca
  <2>3. /\ cache'[t] = ca /\ cache' \in [Threads -> Caches \cup {None}]
        /\ \A u \in Threads \ {t} : cache'[u] = cache[u]
    BY <1>1, <1>2, <1>9, <2>2 DEF TypesInv
  <2>4. EpochNext
    BY <1>1, <1>7, GoesEpoch
  <2>5. CacheOK(cache'[t], epoch')
    BY <1>1, <2>2, <2>3
  <2>6. Moves(t, call)
    BY <1>1, <1>2, <1>6, <2>3, <2>4, <2>5 DEF Moves, poolVars, TypesInv
  <2>7. call.todo = AllCached(t)
    BY <1>6, <1>9 DEF AllCached
  <2>8. \A c \in Classes : BinOf(cache'[t], c) = << >>
    BY <2>2, <2>3
  <2>9. CallOK(call, cache'[t]) /\ CasOK(call, head, next)
    BY <1>8, <2>2, <2>3
  <2>10. QED
    BY <1>1, <1>3, <1>6, <2>6, <2>7, <2>8, <2>9, EmptyStep
<1>10. CASE ~(cache[t] = None \/ stale)
  <2>1. cache' = cache /\ call.todo = << >> /\ cache[t] # None
    BY <1>1, <1>6, <1>10
  <2>2. CallOK(call, cache[t]) /\ CasOK(call, head, next)
    BY <1>8, <2>1
  <2>3. UNCHANGED <<poolVars, cache, epoch, live, pool>>
    BY <1>1, <2>1
  <2>4. QED
    BY <1>2, <1>3, <1>6, <1>7, <2>1, <2>2, <2>3, QuietStep
<1>11. QED
  BY <1>9, <1>10

(* The first n blocks of a sequence are given away.                        *)
FirstOf(s, n) == SubSeq(s, 1, n)
RestOf(s, n) == SubSeq(s, n + 1, Len(s))
OwnedAll(own, p, g) == \A b \in Slots : b \in ToSet(p) => own[b] = g
GivenTo(own, own2, h, p) == \A b \in Slots :
  own[b] # h /\ own2[b] = IF b \in ToSet(p) THEN h ELSE own[b]

LEMMA HoldsSplit ==
  ASSUME NEW own, NEW own2, NEW g, NEW h, NEW s, Holds(own, g, s), NEW n, n \in 0 .. Len(s), g # h,
         GivenTo(own, own2, h, FirstOf(s, n))
  PROVE  /\ Holds(own2, h, FirstOf(s, n)) /\ Holds(own2, g, RestOf(s, n))
         /\ OwnedAll(own, FirstOf(s, n), g)
<1> DEFINE p == SubSeq(s, 1, n)
           q == SubSeq(s, n + 1, Len(s))
<1>0. /\ \A b \in Slots : own[b] # h
      /\ \A b \in Slots : own2[b] = IF b \in ToSet(SubSeq(s, 1, n)) THEN h ELSE own[b]
  BY DEF GivenTo, FirstOf
<1>1. s \in Seq(Slots) /\ Len(s) \in Nat /\ n \in Nat /\ n <= Len(s)
  BY DEF Holds
<1>2. p \in Seq(Slots) /\ Len(p) = n /\ \A i \in 1 .. n : p[i] = s[i]
  <2>1. 1 \in Nat \ {0} /\ 1 <= n + 1
    BY <1>1
  <2>2. /\ p \in Seq(Slots) /\ Len(p) = n - 1 + 1
        /\ \A i \in 1 .. n - 1 + 1 : p[i] = s[1 + i - 1]
    BY <1>1, <2>1, SubSeqIs
  <2>3. \A i \in 1 .. n - 1 + 1 : 1 + i - 1 = i
    OBVIOUS
  <2> HIDE DEF p
  <2>4. QED
    BY <1>1, <2>2, <2>3
<1>3. q \in Seq(Slots) /\ Len(q) = Len(s) - n /\ \A i \in 1 .. Len(s) - n : q[i] = s[n + i]
  <2>1. n + 1 \in Nat \ {0} /\ n + 1 <= Len(s) + 1 /\ Len(s) <= Len(s)
    BY <1>1
  <2>2. /\ q \in Seq(Slots) /\ Len(q) = Len(s) - (n + 1) + 1
        /\ \A i \in 1 .. Len(s) - (n + 1) + 1 : q[i] = s[n + 1 + i - 1]
    BY <1>1, <2>1, SubSeqIs
  <2>3. \A i \in 1 .. Len(s) - (n + 1) + 1 : n + 1 + i - 1 = n + i
    BY <1>1
  <2> HIDE DEF q
  <2>4. QED
    BY <1>1, <2>2, <2>3
<1> HIDE DEF p, q
<1>4. \A b \in Slots : own[b] # h /\ own2[b] = IF b \in ToSet(p) THEN h ELSE own[b]
  BY <1>0 DEF p
<1>5. Distinct(p)
  BY <1>1, <1>2 DEF Holds, Distinct
<1>6. Distinct(q)
  <2> SUFFICES ASSUME NEW i \in 1 .. Len(q), NEW j \in 1 .. Len(q), q[i] = q[j] PROVE i = j
    BY DEF Distinct
  <2>1. n + i \in 1 .. Len(s) /\ n + j \in 1 .. Len(s) /\ s[n + i] = s[n + j]
    BY <1>1, <1>3
  <2>2. n + i = n + j
    BY <2>1 DEF Holds, Distinct
  <2>3. QED
    BY <1>1, <1>3, <2>2
<1>7. \A b \in Slots : b \in ToSet(p) => own[b] = g
  <2> SUFFICES ASSUME NEW b \in Slots, b \in ToSet(p) PROVE own[b] = g
    OBVIOUS
  <2>1. PICK i \in 1 .. Len(p) : p[i] = b
    BY <1>2, ToSetIs
  <2>2. i \in 1 .. Len(s) /\ s[i] = b
    BY <1>1, <1>2, <2>1
  <2>3. QED
    BY <1>1, <2>2, ToSetIs DEF Holds, HoldsSet
<1>8. Holds(own2, h, p)
  BY <1>2, <1>4, <1>5 DEF Holds, HoldsSet
<1>9. ASSUME NEW b \in Slots PROVE own2[b] = g <=> b \in ToSet(q)
  <2>1. ASSUME own2[b] = g PROVE b \in ToSet(q)
    <3>1. b \notin ToSet(p) /\ own[b] = g
      BY <1>4, <2>1
    <3>2. b \in ToSet(s)
      BY <3>1 DEF Holds, HoldsSet
    <3>3. PICK i \in 1 .. Len(s) : s[i] = b
      BY <1>1, <3>2, ToSetIs
    <3>4. ~(i <= n)
      <4>1. i <= n => i \in 1 .. Len(p) /\ p[i] = b
        BY <1>1, <1>2, <3>3
      <4>2. QED
        BY <1>2, <3>1, <4>1, ToSetIs
    <3>5. i - n \in 1 .. Len(q) /\ n + (i - n) = i
      BY <1>1, <1>3, <3>4
    <3>6. q[i - n] = b
      BY <1>3, <3>3, <3>5
    <3>7. QED
      BY <1>3, <3>5, <3>6, ToSetIs
  <2>2. ASSUME b \in ToSet(q) PROVE own2[b] = g
    <3>1. PICK i \in 1 .. Len(q) : q[i] = b
      BY <1>3, <2>2, ToSetIs
    <3>2. n + i \in 1 .. Len(s) /\ s[n + i] = b
      BY <1>1, <1>3, <3>1
    <3>3. own[b] = g
      BY <1>1, <3>2, ToSetIs DEF Holds, HoldsSet
    <3>4. b \notin ToSet(p)
      <4>1. SUFFICES ASSUME b \in ToSet(p) PROVE FALSE
        OBVIOUS
      <4>2. PICK j \in 1 .. Len(p) : p[j] = b
        BY <1>2, <4>1, ToSetIs
      <4>3. j \in 1 .. Len(s) /\ s[j] = b /\ j <= n
        BY <1>1, <1>2, <4>2
      <4>4. j = n + i
        BY <3>2, <4>3 DEF Holds, Distinct
      <4>5. QED
        BY <1>1, <3>1, <1>3, <4>3, <4>4
    <3>5. QED
      BY <1>4, <3>3, <3>4
  <2>3. QED
    BY <2>1, <2>2
<1>10. Holds(own2, g, q)
  BY <1>3, <1>6, <1>9 DEF Holds, HoldsSet
<1>11. QED
  BY <1>7, <1>8, <1>10 DEF p, q, FirstOf, RestOf, OwnedAll

LEMMA SpillKeeps ==
  ASSUME IInv, NEW t \in Threads, Spill(t)
  PROVE  IInv'
<1> DEFINE c == th[t].class
           bin == cache[t].bins[c]
           n == TCACHE_SPILL
           rest == SubSeq(bin, n + 1, Len(bin))
           call == [th[t] EXCEPT !.todo = SubSeq(bin, 1, n)]
<1>1. /\ th[t].pc = "return" /\ th[t].todo = << >> /\ th[t].op = "free" /\ IsFull(t)
      /\ cache' = [cache EXCEPT ![t].bins[c] = rest]
      /\ th' = [th EXCEPT ![t] = call] /\ UNCHANGED <<poolVars, epoch, live, pool>>
  BY DEF Spill, Step, Bin
<1>2. /\ pool = "mapped" /\ TypesInv /\ th[t] \in Calls /\ CallOK(th[t], cache[t])
      /\ CacheOK(cache[t], epoch) /\ CasOK(th[t], head, next)
  BY <1>1, CallFacts
<1>3. /\ th[t].first = None /\ th[t].got = None /\ c \in Classes /\ cache[t] # None
      /\ th[t].addr # None /\ th[t].list = None /\ th[t].extras = 0 /\ th[t].fresh # TRUE
  BY <1>1, <1>2 DEF CallOK, Returning, CasOK
<1>4. bin = BinOf(cache[t], c) /\ bin \in Seq(Slots) /\ Len(bin) \in Nat /\ Len(bin) >= TCACHE_CAPACITY
      /\ Len(bin) <= TCACHE_CAPACITY
  <2>1. bin = BinOf(cache[t], c) /\ Len(bin) >= TCACHE_CAPACITY
    BY <1>1, <1>3 DEF BinOf, IsFull, Bin
  <2>2. bin \in Seq(Slots)
    BY <1>2, <1>3 DEF TypesInv, Caches
  <2>3. Len(bin) <= TCACHE_CAPACITY
    BY <1>2, <1>3 DEF CacheOK
  <2>4. QED
    BY <2>1, <2>2, <2>3
<1> HIDE DEF bin, n
<1>5. n \in Nat \ {0} /\ n <= Len(bin)
  BY <1>4, Constants DEF n
<1>6. SubSeq(bin, 1, n) \in Seq(Slots)
  <2>1. 1 \in Nat \ {0} /\ 1 <= n + 1 /\ n \in Nat
    BY <1>5
  <2>2. QED
    BY <1>4, <1>5, <2>1, SubSeqIs
<1>7. rest \in Seq(Slots) /\ Len(rest) <= TCACHE_CAPACITY
  <2>1. n + 1 \in Nat \ {0} /\ n + 1 <= Len(bin) + 1 /\ Len(bin) <= Len(bin)
    BY <1>4, <1>5
  <2>2. rest \in Seq(Slots) /\ Len(rest) = Len(bin) - (n + 1) + 1
    BY <1>4, <2>1, SubSeqIs
  <2> HIDE DEF rest
  <2>3. TCACHE_CAPACITY \in Nat
    BY Constants
  <2>4. QED
    BY <1>4, <1>5, <2>2, <2>3
<1>8. /\ call \in Calls /\ call.pc = "return" /\ call.op = "free" /\ call.class = c
      /\ call.todo = SubSeq(bin, 1, n) /\ call.addr = th[t].addr /\ call.list = None
      /\ call.first = None /\ call.got = None /\ call.extras = 0 /\ call.fresh = th[t].fresh
  BY <1>1, <1>2, <1>3, <1>6 DEF Calls
<1> HIDE DEF call, rest
<1>9. /\ cache' \in [Threads -> Caches \cup {None}] /\ cache'[t] # None
      /\ BinOf(cache'[t], c) = rest
      /\ \A d \in Classes : d # c => BinOf(cache'[t], d) = BinOf(cache[t], d)
      /\ CacheOK(cache'[t], epoch)
      /\ \A u \in Threads \ {t} : cache'[u] = cache[u]
  BY <1>1, <1>2, <1>3, <1>7, BinSet
<1>10. CallOK(call, cache'[t]) /\ CasOK(call, head, next) /\ Goes(t, call)
  BY <1>1, <1>3, <1>8, <1>9 DEF CallOK, CasOK, Returning, Goes
<1>11. Moves(t, call)
  <2>1. EpochNext
    BY <1>1, <1>10, GoesEpoch
  <2>2. QED
    BY <1>1, <1>2, <1>8, <1>9, <2>1 DEF Moves, poolVars, TypesInv
<1>12. PICK own, cls :
        \E stk \in [Classes -> Seq(Slots)], chain \in [Threads -> Seq(Slots)] :
          Blocked(own, cls, stk, chain)
  BY <1>2 DEF IInv
<1>13. PICK stk \in [Classes -> Seq(Slots)], chain \in [Threads -> Seq(Slots)] :
         Blocked(own, cls, stk, chain)
  BY <1>12
<1>14. /\ own \in [Slots -> Tags] /\ HoldsSet(own, LiveTag, live)
       /\ ThreadOK(own, cls, t, chain[t], cache[t], th[t], head, next)
  BY <1>13 DEF Blocked
<1>15. /\ \A d \in Slots : /\ own[d] # ChainTag(t) /\ own[d] # NewTag(t) /\ own[d] # GotTag(t)
                           /\ own[d] = AddrTag(t) <=> d = th[t].addr
       /\ \A d \in Slots : own[d] # TodoTag(t)
       /\ OwnClasses(own, cls, t, th[t])
       /\ \A d \in Classes : Holds(own, BinTag(t, d), BinOf(cache[t], d))
  BY <1>1, <1>3, <1>14, OwnedBy, NoTodo, Constants
<1> DEFINE g == TodoTag(t)
           S == ToSet(SubSeq(bin, 1, n))
           own2 == Give(own, S, g)
<1>16. g \in Tags /\ Out(g) /\ Mine(g, t) /\ g # BinTag(t, c)
  BY TagsAre, OutIs, MineIs, TagsDiffer
<1> HIDE DEF S, g
<1>17. own2 \in [Slots -> Tags] /\ \A d \in Slots : own2[d] = IF d \in S THEN g ELSE own[d]
  BY <1>14, <1>16, GiveIs
<1> HIDE DEF own2
<1>18. /\ Holds(own2, g, SubSeq(bin, 1, n)) /\ Holds(own2, BinTag(t, c), rest)
       /\ \A b \in Slots : b \in S => own[b] = BinTag(t, c)
  <2>1. Holds(own, BinTag(t, c), bin)
    BY <1>3, <1>4, <1>15
  <2>2. \A b \in Slots : own2[b] = IF b \in ToSet(SubSeq(bin, 1, n)) THEN g ELSE own[b]
    BY <1>17 DEF S
  <2>3. \A b \in Slots : own[b] # g
    BY <1>15 DEF g
  <2>4. n \in 0 .. Len(bin)
    BY <1>4, <1>5
  <2>5. BinTag(t, c) # g /\ GivenTo(own, own2, g, FirstOf(bin, n))
    BY <1>16, <2>2, <2>3 DEF GivenTo, FirstOf
  <2>6. /\ Holds(own2, g, FirstOf(bin, n)) /\ Holds(own2, BinTag(t, c), RestOf(bin, n))
        /\ OwnedAll(own, FirstOf(bin, n), BinTag(t, c))
    BY <2>1, <2>4, <2>5, HoldsSplit
  <2>7. QED
    BY <2>6 DEF rest, S, FirstOf, RestOf, OwnedAll
<1>19. \A d \in Slots : d \in S => Out(own[d]) /\ Mine(own[d], t) /\ own[d] # LiveTag /\ own[d] # AddrTag(t)
  BY <1>18, OutIs, MineIs, TagsDiffer
<1>20. HoldsSet(own2, LiveTag, live')
  BY <1>1, <1>14, <1>17, <1>19, TagsDiffer DEF HoldsSet, g
<1>21. Holds(own2, TodoTag(t), call.todo)
  BY <1>8, <1>18 DEF g
<1>22. ASSUME NEW d \in Classes PROVE Holds(own2, BinTag(t, d), BinOf(cache'[t], d))
  <2>1. CASE d = c
    BY <1>9, <1>18, <2>1
  <2>2. CASE d # c
    <3>1. BinTag(t, c) # BinTag(t, d) /\ g # BinTag(t, d)
      BY <2>2, TagFacts, TagsDiffer DEF g
    <3>2. \A b \in Slots : own2[b] = BinTag(t, d) <=> own[b] = BinTag(t, d)
      BY <1>17, <1>18, <3>1
    <3>3. Holds(own2, BinTag(t, d), BinOf(cache[t], d))
      BY <1>15, <3>2, HoldsStays
    <3>4. QED
      BY <1>9, <2>2, <3>3
  <2>3. QED
    BY <2>1, <2>2
<1>23. \A d \in Slots : /\ own2[d] # ChainTag(t) /\ own2[d] # NewTag(t)
                        /\ own2[d] = GotTag(t) <=> d = call.got
                        /\ own2[d] = AddrTag(t) <=> d = call.addr
  BY <1>8, <1>15, <1>17, <1>19, TagsDiffer, Constants DEF g
<1>24. OwnClasses(own2, cls, t, call)
  <2> SUFFICES ASSUME NEW d \in Slots
               PROVE /\ own2[d] = ChainTag(t) => cls[d] = call.list
                     /\ own2[d] \in {GotTag(t), NewTag(t)} => cls[d] = call.class
                     /\ own2[d] = TodoTag(t) => cls[d] \in Classes
                     /\ own2[d] = AddrTag(t) => CASE call.op = "free" -> cls[d] = call.class
                                                  [] call.op = "allocate" -> cls[d] \in Classes
                                                  [] OTHER -> TRUE
                     /\ \A e \in Classes : own2[d] = BinTag(t, e) => cls[d] = e
    BY DEF OwnClasses
  <2>1. /\ own[d] = AddrTag(t) => cls[d] = c
        /\ \A e \in Classes : own[d] = BinTag(t, e) => cls[d] = e
    BY <1>1, <1>15 DEF OwnClasses
  <2>2. CASE d \in S
    <3>1. cls[d] \in Classes
      BY <1>3, <1>18, <2>1, <2>2
    <3>2. own2[d] = TodoTag(t)
      BY <1>17, <2>2 DEF g
    <3>3. QED
      BY <3>1, <3>2, TagsDiffer
  <2>3. CASE d \notin S
    <3>1. own2[d] = own[d]
      BY <1>17, <2>3
    <3>2. QED
      BY <1>8, <1>15, <2>1, <3>1
  <2>4. QED
    BY <2>2, <2>3
<1>25. ThreadOK(own2, cls, t, << >>, cache'[t], call, head, next) /\ << >> \in Seq(Slots)
  BY <1>8, <1>10, <1>21, <1>22, <1>23, <1>24, ChainlessThread
<1>26. ThreadOK(own2, cls, t, << >>, cache'[t], call, head, next')
  BY <1>1, <1>25 DEF poolVars
<1>27. frontier' = frontier /\ side' = side /\ \A d \in Slots : d \notin S => next'[d] = next[d]
  BY <1>1 DEF poolVars
<1>28. QED
  BY <1>11, <1>13, <1>16, <1>19, <1>20, <1>25, <1>26, <1>27, MoveOut DEF own2

LEMMA BumpEpochKeeps ==
  ASSUME IInv, NEW t \in Threads, BumpEpoch(t)
  PROVE  IInv'
<1>1. /\ th[t].pc = "return" /\ th[t].todo = << >> /\ th[t].op \in {"flush", "drop"}
      /\ epoch' = IF th[t].op = "flush" THEN epoch + 1 ELSE epoch
      /\ th' = [th EXCEPT ![t] = Idle] /\ UNCHANGED <<poolVars, cache, live, pool>>
  BY DEF BumpEpoch, Step
<1>2. /\ pool = "mapped" /\ TypesInv /\ EpochInv /\ th[t] \in Calls /\ CallOK(th[t], cache[t])
      /\ CacheOK(cache[t], epoch) /\ cache[t] \in Caches \cup {None}
  BY <1>1, CallFacts
<1>3. th[t].first = None /\ th[t].got = None /\ th[t].addr = None
  BY <1>1, <1>2 DEF CallOK, Returning
<1>4. EpochNext
  <2>1. IsFiniteSet(Threads) /\ MaxEpoch \in Nat /\ epoch \in Nat
    BY <1>2, SlabPoolAssumption DEF TypesInv
  <2>2. CASE th[t].op # "flush"
    BY <1>1, <2>2, IdleIs, GoesEpoch DEF Goes
  <2>3. CASE th[t].op = "flush"
    <3>1. \A u \in Threads : th'[u] = IF u = t THEN Idle ELSE th[u]
      BY <1>1, <1>2 DEF TypesInv
    <3>2. Flushing \subseteq Threads /\ Flushing' = Flushing \ {t} /\ t \in Flushing
      BY <2>3, <3>1, IdleIs DEF Flushing
    <3>3. IsFiniteSet(Flushing)
      BY <2>1, <3>2, FS_Subset
    <3>4. Cardinality(Flushing') = Cardinality(Flushing) - 1
      BY <3>2, <3>3, FS_RemoveElement
    <3>5. Cardinality(Flushing) \in Nat
      BY <3>3, FS_CardinalityType
    <3>6. epoch + Cardinality(Flushing) <= MaxEpoch
      BY <1>2 DEF EpochInv
    <3>7. epoch' = epoch + 1
      BY <1>1, <2>3
    <3>8. epoch' + Cardinality(Flushing') <= MaxEpoch /\ epoch' \in Nat /\ epoch <= epoch'
      BY <2>1, <3>4, <3>5, <3>6, <3>7
    <3>9. QED
      BY <3>8 DEF EpochNext, EpochInv
  <2>4. QED
    BY <2>2, <2>3
<1>5. CacheOK(cache'[t], epoch')
  <2>1. cache[t] # None => cache[t].epoch \in Nat
    BY <1>2 DEF Caches
  <2>2. epoch' \in Nat /\ epoch <= epoch' /\ epoch \in Nat
    BY <1>2, <1>4 DEF EpochNext, TypesInv
  <2>3. QED
    BY <1>1, <1>2, <2>1, <2>2 DEF CacheOK
<1>6. Moves(t, Idle)
  BY <1>1, <1>2, <1>4, <1>5, IdleIs DEF Moves, poolVars, TypesInv
<1>7. PICK own, cls :
        \E stk \in [Classes -> Seq(Slots)], chain \in [Threads -> Seq(Slots)] :
          Blocked(own, cls, stk, chain)
  BY <1>2 DEF IInv
<1>8. PICK stk \in [Classes -> Seq(Slots)], chain \in [Threads -> Seq(Slots)] :
         Blocked(own, cls, stk, chain)
  BY <1>7
<1>9. /\ own \in [Slots -> Tags] /\ cls \in [Slots -> Classes \cup {LARGE}]
      /\ HoldsSet(own, LiveTag, live') /\ SideOK(own, cls, side') /\ Layout(own, cls, frontier')
      /\ ThreadOK(own, cls, t, chain[t], cache[t], th[t], head, next)
  BY <1>1, <1>8 DEF Blocked, poolVars
<1>10. /\ \A d \in Slots : /\ own[d] # ChainTag(t) /\ own[d] # NewTag(t) /\ own[d] # GotTag(t)
                           /\ own[d] # AddrTag(t)
       /\ \A d \in Slots : own[d] # TodoTag(t)
       /\ OwnClasses(own, cls, t, th[t])
       /\ \A d \in Classes : Holds(own, BinTag(t, d), BinOf(cache[t], d))
  BY <1>1, <1>3, <1>9, OwnedBy, NoTodo, Constants
<1>11. \A b \in Slots : \A c \in Classes : own[b] = BinTag(t, c) => cls[b] = c
  BY <1>10 DEF OwnClasses
<1>12. ThreadOK(own, cls, t, << >>, cache[t], Idle, head, next) /\ << >> \in Seq(Slots)
  BY <1>10, <1>11, IdleThread
<1>13. ThreadOK(own, cls, t, << >>, cache'[t], Idle, head, next')
  BY <1>1, <1>12 DEF poolVars
<1>14. Moved(own, own, cls, cls, t)
  BY <1>1 DEF Moved, poolVars
<1>15. QED
  BY <1>6, <1>8, <1>9, <1>12, <1>13, <1>14, MoveStep

-----------------------------------------------------------------------------
(* Steps that put blocks into lists or take them out.                      *)

(* A chain of one block.                                                   *)
LEMMA ChainOfOne ==
  ASSUME NEW b \in Slots, NEW links, NEW call, call.first = b, call.last = b, call.list \in Classes
  PROVE  ChainOK(<<b>>, links, call) /\ <<b>> \in Seq(Slots)
<1>1. b \in Nat /\ b # None /\ call.list # None
  BY Constants
<1>2. <<b>> \in Seq(Slots) /\ Len(<<b>>) = 1 /\ <<b>>[1] = b /\ <<b>> # << >>
  OBVIOUS
<1>3. \A n \in 2 .. 1 : FALSE
  OBVIOUS
<1>4. ToSet(<<b>>) = {b}
  BY <1>2 DEF ToSet
<1>5. b - b = 0 /\ b .. b = {b}
  BY <1>1
<1>6. (b - b) % SlabSizes[call.list] = 0
  <2>1. SlabSizes[call.list] \in Nat \ {0} /\ 0 \in Nat
    BY Constants
  <2>2. (0 * SlabSizes[call.list]) % SlabSizes[call.list] = 0 /\ 0 * SlabSizes[call.list] = 0
    BY <2>1, ExactQuotient
  <2>3. QED
    BY <1>5, <2>2
<1>7. {b} = {d \in b .. b : (d - b) % SlabSizes[call.list] = 0}
  BY <1>5, <1>6
<1>8. QED
  BY <1>1, <1>2, <1>3, <1>4, <1>7 DEF ChainOK

LEMMA ReturnBlockKeeps ==
  ASSUME IInv, NEW t \in Threads, ReturnBlock(t)
  PROVE  IInv'
<1> DEFINE todo == th[t].todo
           b == Head(todo)
           call == [th[t] EXCEPT !.pc = "push", !.todo = Tail(todo), !.list = side[b],
                                 !.first = b, !.last = b]
<1>1. /\ th[t].pc = "return" /\ todo # << >> /\ side' = [side EXCEPT ![b] = None]
      /\ th' = [th EXCEPT ![t] = call] /\ UNCHANGED <<frontier, head, next, cache, epoch, live, pool>>
  BY DEF ReturnBlock, Step, Cleared
<1>2. /\ pool = "mapped" /\ TypesInv /\ th[t] \in Calls /\ CallOK(th[t], cache[t])
      /\ CacheOK(cache[t], epoch) /\ CasOK(th[t], head, next)
  BY <1>1, CallFacts
<1>3. /\ th[t].first = None /\ th[t].got = None /\ th[t].list = None /\ th[t].extras = 0
      /\ Returning(th[t], cache[t]) /\ th[t].fresh # TRUE
  BY <1>1, <1>2 DEF CallOK, Returning, CasOK
<1>4. todo \in Seq(Slots)
  BY <1>2 DEF Calls
<1>5. b \in Slots /\ Tail(todo) \in Seq(Slots) /\ b # None
  BY <1>1, <1>4, Constants
<1>6. PICK own, cls :
        \E stk \in [Classes -> Seq(Slots)], chain \in [Threads -> Seq(Slots)] :
          Blocked(own, cls, stk, chain)
  BY <1>2 DEF IInv
<1>7. PICK stk \in [Classes -> Seq(Slots)], chain \in [Threads -> Seq(Slots)] :
         Blocked(own, cls, stk, chain)
  BY <1>6
<1>8. /\ own \in [Slots -> Tags] /\ cls \in [Slots -> Classes \cup {LARGE}]
      /\ HoldsSet(own, LiveTag, live) /\ SideOK(own, cls, side) /\ Layout(own, cls, frontier)
      /\ ThreadOK(own, cls, t, chain[t], cache[t], th[t], head, next)
  BY <1>7 DEF Blocked
<1>9. /\ \A d \in Slots : /\ own[d] # ChainTag(t) /\ own[d] # NewTag(t) /\ own[d] # GotTag(t)
                          /\ own[d] = AddrTag(t) <=> d = th[t].addr
      /\ Holds(own, TodoTag(t), todo)
      /\ OwnClasses(own, cls, t, th[t])
      /\ \A d \in Classes : Holds(own, BinTag(t, d), BinOf(cache[t], d))
  BY <1>3, <1>8, OwnedBy, Constants
<1> DEFINE g == ChainTag(t)
           own2 == Give(own, {b}, g)
<1>10. g \in Tags
  BY TagsAre
<1> HIDE DEF todo, b
<1>11. own2 \in [Slots -> Tags] /\ \A d \in Slots : own2[d] = IF d = b THEN g ELSE own[d]
  BY <1>8, <1>10, GiveIs
<1> HIDE DEF own2
<1>12. Holds(own2, TodoTag(t), Tail(todo)) /\ own[b] = TodoTag(t)
  <2>1. own[b] = TodoTag(t)
    <3>1. 1 \in 1 .. Len(todo) /\ b = todo[1]
      BY <1>1, <1>4 DEF b
    <3>2. QED
      BY <1>4, <1>5, <1>9, <3>1, ToSetIs DEF Holds, HoldsSet
  <2>2. \A d \in Slots : own2[d] = TodoTag(t) <=> own[d] = TodoTag(t) /\ d # b
    BY <1>11, TagsDiffer
  <2>3. \A d \in Slots : own2[d] = TodoTag(t) <=> own[d] = TodoTag(t) /\ d # Head(todo)
    BY <2>2 DEF b
  <2>4. QED
    BY <1>1, <1>9, <2>1, <2>3, HoldsTail
<1>13. side[b] = cls[b] /\ cls[b] \in Classes
  BY <1>5, <1>8, <1>9, <1>12, OutIs DEF SideOK, OwnClasses
<1>14. /\ call \in Calls /\ call.pc = "push" /\ call.op = th[t].op /\ call.class = th[t].class
       /\ call.todo = Tail(todo) /\ call.addr = th[t].addr /\ call.list = cls[b]
       /\ call.first = b /\ call.last = b /\ call.got = None /\ call.extras = 0
       /\ call.fresh = th[t].fresh
  BY <1>2, <1>3, <1>5, <1>13 DEF Calls, PCs, Maybe
<1> HIDE DEF call
<1>15. CallOK(call, cache[t]) /\ CasOK(call, head, next) /\ Goes(t, call)
  <2>1. Returning(call, cache[t])
    BY <1>3, <1>14 DEF Returning
  <2>2. CallOK(call, cache[t])
    BY <1>2, <1>5, <1>14, <2>1 DEF CallOK
  <2>3. QED
    BY <1>1, <1>3, <1>14, <2>2 DEF CasOK, Goes
<1>16. side' \in [Slots -> Classes \cup {LARGE, None}]
       /\ \A d \in Slots : side'[d] = IF d = b THEN None ELSE side[d]
  BY <1>1, <1>2, <1>5 DEF TypesInv
<1>17. Moves(t, call)
  <2>1. EpochNext
    BY <1>1, <1>15, GoesEpoch
  <2>2. QED
    BY <1>1, <1>2, <1>14, <1>16, <2>1 DEF Moves, TypesInv
<1>18. HoldsSet(own2, LiveTag, live')
  BY <1>1, <1>8, <1>11, <1>12, TagsDiffer DEF HoldsSet
<1>19. SideOK(own2, cls, side')
  BY <1>8, <1>11, <1>16, OutIs DEF SideOK
<1>20. Layout(own2, cls, frontier')
  <2>1. \A d \in Slots : own2[d] = NoTag <=> own[d] = NoTag
    BY <1>11, <1>12, TagsDiffer
  <2>2. Layout(own2, cls, frontier)
    BY <1>8, <2>1, LayoutFrame
  <2>3. QED
    BY <1>1, <2>2
<1>21. Moved(own, own2, cls, cls, t)
  BY <1>1, <1>11, <1>12, MineIs DEF Moved
<1>22. <<b>> \in Seq(Slots) /\ ChainOK(<<b>>, next, call)
  BY <1>5, <1>13, <1>14, ChainOfOne
<1>23. Owns(own2, t, <<b>>, cache[t], call)
  <2>1. Holds(own2, ChainTag(t), <<b>>)
    <3>1. Distinct(<<b>>) /\ ToSet(<<b>>) = {b}
      BY DEF Distinct, ToSet
    <3>2. \A d \in Slots : own2[d] = ChainTag(t) <=> d = b
      BY <1>9, <1>11
    <3>3. QED
      BY <1>22, <3>1, <3>2 DEF Holds, HoldsSet
  <2>2. ASSUME NEW c \in Classes PROVE Holds(own2, BinTag(t, c), BinOf(cache[t], c))
    <3>1. \A d \in Slots : own2[d] = BinTag(t, c) <=> own[d] = BinTag(t, c)
      BY <1>11, <1>12, TagsDiffer
    <3>2. QED
      BY <1>9, <3>1, HoldsStays
  <2>3. \A d \in Slots : /\ own2[d] # GotTag(t) /\ own2[d] # NewTag(t)
                         /\ own2[d] = AddrTag(t) <=> d = call.addr
    BY <1>9, <1>11, <1>12, <1>14, TagsDiffer
  <2>4. /\ HoldsSet(own2, GotTag(t), IF call.first = None THEN {call.got} ELSE {})
        /\ HoldsSet(own2, NewTag(t), IF call.first = None THEN {} ELSE {call.got})
        /\ HoldsSet(own2, AddrTag(t), {call.addr})
    BY <1>5, <1>14, <2>3, Constants DEF HoldsSet
  <2>5. QED
    BY <1>12, <1>14, <2>1, <2>2, <2>4 DEF Owns
<1>24. OwnClasses(own2, cls, t, call)
  <2> SUFFICES ASSUME NEW d \in Slots
               PROVE /\ own2[d] = ChainTag(t) => cls[d] = call.list
                     /\ own2[d] \in {GotTag(t), NewTag(t)} => cls[d] = call.class
                     /\ own2[d] = TodoTag(t) => cls[d] \in Classes
                     /\ own2[d] = AddrTag(t) => CASE call.op = "free" -> cls[d] = call.class
                                                  [] call.op = "allocate" -> cls[d] \in Classes
                                                  [] OTHER -> TRUE
                     /\ \A e \in Classes : own2[d] = BinTag(t, e) => cls[d] = e
    BY DEF OwnClasses
  <2>1. CASE d = b
    BY <1>11, <1>14, <2>1, TagsDiffer
  <2>2. CASE d # b
    <3>1. own2[d] = own[d]
      BY <1>11, <2>2
    <3>2. /\ own[d] = TodoTag(t) => cls[d] \in Classes
          /\ own[d] = AddrTag(t) => CASE th[t].op = "free" -> cls[d] = th[t].class
                                      [] th[t].op = "allocate" -> cls[d] \in Classes
                                      [] OTHER -> TRUE
          /\ \A e \in Classes : own[d] = BinTag(t, e) => cls[d] = e
      BY <1>9 DEF OwnClasses
    <3>3. QED
      BY <1>9, <1>14, <3>1, <3>2
  <2>3. QED
    BY <2>1, <2>2
<1>25. ThreadOK(own2, cls, t, <<b>>, cache'[t], call, head, next')
  BY <1>1, <1>15, <1>22, <1>23, <1>24 DEF ThreadOK
<1>26. QED
  BY <1>7, <1>8, <1>11, <1>17, <1>18, <1>19, <1>20, <1>21, <1>22, <1>25, MoveStep

(* The pool goes, with its threads idle; what caches there are forget it.  *)
LEMMA DropPoolKeeps ==
  ASSUME IInv, DropPool
  PROVE  IInv'
<1>1. /\ pool' = "dropped" /\ UNCHANGED <<poolVars, cache, epoch, live, th>>
      /\ \A t \in Threads : th[t].pc = "idle"
  BY DEF DropPool
<1>2. TypesInv'
  BY <1>1 DEF IInv, TypesInv, poolVars
<1>3. EpochInv'
  BY <1>1 DEF IInv, EpochInv, Flushing
<1>4. QED
  BY <1>1, <1>2, <1>3 DEF IInv

LEMMA ForgetCacheKeeps ==
  ASSUME IInv, NEW t \in Threads, ForgetCache(t)
  PROVE  IInv'
<1>1. /\ pool = "dropped" /\ cache' = [cache EXCEPT ![t] = None]
      /\ UNCHANGED <<poolVars, epoch, live, pool, th>>
  BY DEF ForgetCache
<1>2. TypesInv
  BY DEF IInv
<1>3. cache' \in [Threads -> Caches \cup {None}] /\ \A u \in Threads : cache'[u] \in {cache[u], None}
  BY <1>1, <1>2 DEF TypesInv
<1>4. \A u \in Threads : CacheOK(cache'[u], epoch')
  <2>1. CacheOK(None, epoch)
    BY DEF CacheOK
  <2>2. QED
    BY <1>1, <1>2, <1>3, <2>1 DEF TypesInv
<1>5. TypesInv'
  BY <1>1, <1>2, <1>3, <1>4 DEF TypesInv, poolVars
<1>6. EpochInv'
  BY <1>1 DEF IInv, EpochInv, Flushing
<1>7. QED
  BY <1>1, <1>5, <1>6 DEF IInv

(* Blocks move between thread t and list c only.                           *)
Touched(own, own2, t, c) == \A b \in Slots :
  \/ own2[b] = own[b]
  \/ /\ Of(own[b], t) \/ own[b] = ListTag(c)
     /\ Of(own2[b], t) \/ own2[b] = ListTag(c)

Untouched(own, own2, t, c) ==
  /\ \A b \in Slots : own2[b] = NoTag <=> own[b] = NoTag
  /\ \A b \in Slots : own2[b] = LiveTag <=> own[b] = LiveTag
  /\ \A b \in Slots : \A d : d # c => (own2[b] = ListTag(d) <=> own[b] = ListTag(d))
  /\ \A b \in Slots : \A u : u # t /\ (Of(own[b], u) \/ Of(own2[b], u)) => own2[b] = own[b]

LEMMA TouchedIs ==
  ASSUME NEW own, NEW own2, NEW t, NEW c, Touched(own, own2, t, c)
  PROVE  Untouched(own, own2, t, c)
<1>1. \A g : Of(g, t) \/ g = ListTag(c) =>
        /\ g # NoTag /\ g # LiveTag /\ \A d : d # c => g # ListTag(d)
        /\ \A u : u # t => ~Of(g, u)
  BY TagFacts DEF Of
<1>2. QED
  BY <1>1 DEF Touched, Untouched

(* A CAS on list c succeeds.                                               *)
Outrun(t, c) == \A u \in Threads \ {t} :
  /\ th'[u] \in {th[u], [th[u] EXCEPT !.fresh = FALSE]} /\ th'[u].op = th[u].op
  /\ th'[u].fresh = TRUE => th[u].fresh = TRUE /\ th[u].list # c

LEMMA OvertakenIs ==
  ASSUME TypesInv, NEW t \in Threads, NEW c, NEW mine \in Calls, th' = Overtaken(c, t, mine)
  PROVE  th' \in [Threads -> Calls] /\ th'[t] = mine /\ Outrun(t, c)
<1>1. th \in [Threads -> Calls]
  BY DEF TypesInv
<1>2. ASSUME NEW u \in Threads
      PROVE  /\ [th[u] EXCEPT !.fresh = FALSE] \in Calls
             /\ [th[u] EXCEPT !.fresh = FALSE].op = th[u].op
             /\ [th[u] EXCEPT !.fresh = FALSE].fresh = FALSE
  BY <1>1 DEF Calls
<1>3. th'[t] = mine /\ th' \in [Threads -> Calls]
  BY <1>1, <1>2 DEF Overtaken
<1>4. ASSUME NEW u \in Threads \ {t}
      PROVE  /\ th'[u] \in {th[u], [th[u] EXCEPT !.fresh = FALSE]} /\ th'[u].op = th[u].op
             /\ th'[u].fresh = TRUE => th[u].fresh = TRUE /\ th[u].list # c
  <2>1. th'[u] = IF th[u].list = c THEN [th[u] EXCEPT !.fresh = FALSE] ELSE th[u]
    BY DEF Overtaken
  <2>2. QED
    BY <1>2, <2>1
<1>5. QED
  BY <1>3, <1>4 DEF Outrun

CasMoves(t, c, top, mine) ==
  /\ pool = "mapped" /\ mine \in Calls /\ th' = Overtaken(c, t, mine)
  /\ mine.op = "flush" => th[t].op = "flush"
  /\ top \in Maybe /\ head' = [head EXCEPT ![c] = top]
  /\ UNCHANGED <<frontier, next, epoch, live, pool>>
  /\ side' \in [Slots -> Classes \cup {LARGE, None}]
  /\ cache' \in [Threads -> Caches \cup {None}] /\ CacheOK(cache'[t], epoch)
  /\ \A u \in Threads \ {t} : cache'[u] = cache[u]

LEMMA CasStep ==
  ASSUME IInv, NEW t \in Threads, NEW c \in Classes, NEW top, NEW mine, CasMoves(t, c, top, mine),
         NEW own, NEW cls, NEW stk \in [Classes -> Seq(Slots)],
         NEW chain \in [Threads -> Seq(Slots)], Blocked(own, cls, stk, chain),
         NEW own2 \in [Slots -> Tags], NEW s \in Seq(Slots), NEW chn \in Seq(Slots),
         Touched(own, own2, t, c), ListOK(own2, cls, c, s, top, next), SideOK(own2, cls, side'),
         ThreadOK(own2, cls, t, chn, cache'[t], mine, head', next)
  PROVE  IInv'
<1>1. TypesInv /\ EpochInv
  BY DEF IInv
<1>2. /\ pool = "mapped" /\ mine \in Calls /\ th' = Overtaken(c, t, mine) /\ top \in Maybe
      /\ head' = [head EXCEPT ![c] = top] /\ UNCHANGED <<frontier, next, epoch, live, pool>>
      /\ cache' \in [Threads -> Caches \cup {None}] /\ CacheOK(cache'[t], epoch)
      /\ \A u \in Threads \ {t} : cache'[u] = cache[u]
      /\ side' \in [Slots -> Classes \cup {LARGE, None}]
      /\ mine.op = "flush" => th[t].op = "flush"
  BY DEF CasMoves
<1>3. /\ th' \in [Threads -> Calls] /\ th'[t] = mine
      /\ \A u \in Threads \ {t} :
           /\ th'[u] \in {th[u], [th[u] EXCEPT !.fresh = FALSE]} /\ th'[u].op = th[u].op
           /\ th'[u].fresh = TRUE => th[u].fresh = TRUE /\ th[u].list # c
  <2>1. th' \in [Threads -> Calls] /\ th'[t] = mine /\ Outrun(t, c)
    BY <1>1, <1>2, OvertakenIs
  <2>2. QED
    BY <2>1 DEF Outrun
<1>4. EpochNext
  <2>1. \A u \in Threads : th'[u].op = "flush" => th[u].op = "flush"
    BY <1>2, <1>3
  <2>2. QED
    BY <1>1, <1>2, <2>1, EpochStays
<1>5. /\ head' \in [Classes -> Maybe] /\ head'[c] = top
      /\ \A d \in Classes : d # c => head'[d] = head[d]
  BY <1>1, <1>2 DEF TypesInv
<1>6. TypesNext
  BY <1>1, <1>2, <1>3, <1>5 DEF TypesInv, TypesNext
<1>7. /\ own \in [Slots -> Tags] /\ cls \in [Slots -> Classes \cup {LARGE}]
      /\ HoldsSet(own, LiveTag, live) /\ Layout(own, cls, frontier)
  BY DEF Blocked
<1>8. /\ \A b \in Slots : own2[b] = NoTag <=> own[b] = NoTag
      /\ \A b \in Slots : own2[b] = LiveTag <=> own[b] = LiveTag
      /\ \A b \in Slots : \A d : d # c => (own2[b] = ListTag(d) <=> own[b] = ListTag(d))
      /\ \A b \in Slots : \A u : u # t /\ (Of(own[b], u) \/ Of(own2[b], u)) => own2[b] = own[b]
  <2>1. Untouched(own, own2, t, c)
    BY TouchedIs
  <2>2. QED
    BY <2>1 DEF Untouched
<1>9. HoldsSet(own2, LiveTag, live')
  BY <1>2, <1>7, <1>8 DEF HoldsSet
<1>10. Layout(own2, cls, frontier')
  <2>1. Layout(own2, cls, frontier)
    BY <1>7, <1>8, LayoutFrame
  <2>2. QED
    BY <1>2, <2>1
<1> DEFINE stk2 == [stk EXCEPT ![c] = s]
<1>11. /\ stk2 \in [Classes -> Seq(Slots)] /\ stk2[c] = s
       /\ \A d \in Classes : d # c => stk2[d] = stk[d]
  OBVIOUS
<1> HIDE DEF stk2
<1>12. ASSUME NEW d \in Classes PROVE ListOK(own2, cls, d, stk2[d], head'[d], next')
  <2>1. CASE d = c
    BY <1>2, <1>5, <1>11, <2>1
  <2>2. CASE d # c
    <3>1. ListOK(own, cls, d, stk[d], head[d], next)
      BY DEF Blocked
    <3>2. SameList(own, own2, cls, cls, next, next, d)
      BY <1>8, <2>2 DEF SameList
    <3>3. ListOK(own2, cls, d, stk[d], head[d], next)
      BY <3>1, <3>2, ListFrame
    <3>4. QED
      BY <1>2, <1>5, <1>11, <2>2, <3>3
  <2>3. QED
    BY <2>1, <2>2
<1>13. NextOK(own2, cls, stk2, t, chn)
  <2>1. ThreadOK(own2, cls, t, chn, cache'[t], th'[t], head', next')
    BY <1>2, <1>3
  <2>2. CacheOK(cache'[t], epoch')
    BY <1>2
  <2>3. QED
    BY <1>7, <1>9, <1>10, <1>11, <1>12, <2>1, <2>2 DEF NextOK
<1>14. ASSUME NEW u \in Threads \ {t}
       PROVE  /\ cache'[u] = cache[u] /\ SameCall(th[u], th'[u], head, head', next, next')
              /\ SameBlocks(own, own2, cls, cls, next, next', u)
  <2>1. SameBlocks(own, own2, cls, cls, next, next', u)
    BY <1>2, <1>8 DEF SameBlocks
  <2>2. ASSUME th'[u].fresh = TRUE PROVE head'[th[u].list] = head[th[u].list]
    <3>1. th[u].fresh = TRUE /\ th[u].list # c
      BY <1>3, <2>2
    <3>2. ThreadOK(own, cls, u, chain[u], cache[u], th[u], head, next)
      BY DEF Blocked
    <3>3. th[u].pc \in {"popNext", "popCas", "pushCas"}
      BY <3>1, <3>2 DEF ThreadOK, CasOK
    <3>4. th[u].list \in Classes
      BY <3>2, <3>3, FreshList
    <3>5. QED
      BY <1>5, <3>1, <3>4
  <2>3. SameCall(th[u], th'[u], head, head', next, next')
    <3>1. th'[u] \in {th[u], [th[u] EXCEPT !.fresh = FALSE]}
      BY <1>3
    <3>2. QED
      BY <1>2, <2>2, <3>1 DEF SameCall
  <2>4. QED
    BY <1>2, <2>1, <2>3
<1>15. OthersKept(own, own2, cls, cls, t)
  BY <1>14 DEF OthersKept
<1>16. QED
  BY <1>1, <1>4, <1>6, <1>13, <1>15, StepKeeps

(* A chain is put on top of list c.                                        *)
PushedOn(own, own2, cls, t, c) == \A b \in Slots :
  /\ own[b] = ChainTag(t) => cls[b] = c
  /\ own2[b] = ListTag(c) <=> own[b] = ListTag(c) \/ own[b] = ChainTag(t)

LEMMA PushedList ==
  ASSUME NEW own, NEW own2, NEW cls, NEW c, NEW s, NEW top, NEW links, NEW t, NEW chn, NEW call,
         ListOK(own, cls, c, s, top, links), Holds(own, ChainTag(t), chn),
         ChainOK(chn, links, call), call.first # None, call.list = c, links[call.last] = top,
         PushedOn(own, own2, cls, t, c)
  PROVE  ListOK(own2, cls, c, s \o chn, call.first, links) /\ s \o chn \in Seq(Slots)
<1> DEFINE r == s \o chn
<1>0. /\ \A b \in Slots : own[b] = ChainTag(t) => cls[b] = c
      /\ \A b \in Slots : own2[b] = ListTag(c) <=> own[b] = ListTag(c) \/ own[b] = ChainTag(t)
  BY DEF PushedOn
<1>1. /\ s \in Seq(Slots) /\ Len(s) \in Nat /\ Holds(own, ListTag(c), s)
      /\ top = IF s = << >> THEN None ELSE s[Len(s)]
      /\ \A n \in 1 .. Len(s) : links[s[n]] = IF n = 1 THEN None ELSE s[n - 1]
      /\ \A b \in Slots : own[b] = ListTag(c) => cls[b] = c
  BY DEF ListOK, Holds
<1>2. /\ chn \in Seq(Slots) /\ Len(chn) \in Nat \ {0} /\ chn[1] = call.last
      /\ chn[Len(chn)] = call.first
  BY ChainIs
<1>3. \A n \in 2 .. Len(chn) : links[chn[n]] = chn[n - 1]
  BY DEF ChainOK
<1>4. ListTag(c) # ChainTag(t)
  BY TagsDiffer
<1>5. Holds(own2, ListTag(c), r)
  BY <1>0, <1>1, <1>4, HoldsConcat
<1>6. /\ r \in Seq(Slots) /\ Len(r) = Len(s) + Len(chn)
      /\ \A i \in 1 .. Len(s) : r[i] = s[i]
      /\ \A i \in 1 .. Len(chn) : r[Len(s) + i] = chn[i]
  BY <1>1, <1>2
<1> HIDE DEF r
<1>7. r # << >> /\ r[Len(r)] = call.first
  <2>1. Len(chn) \in 1 .. Len(chn) /\ Len(r) > 0
    BY <1>1, <1>2, <1>6
  <2>2. QED
    BY <1>2, <1>6, <2>1, ToSetIs
<1>8. ASSUME NEW n \in 1 .. Len(r) PROVE links[r[n]] = IF n = 1 THEN None ELSE r[n - 1]
  <2>1. CASE n <= Len(s)
    <3>1. n \in 1 .. Len(s) /\ (n # 1 => n - 1 \in 1 .. Len(s))
      BY <1>1, <1>6, <2>1
    <3>2. QED
      BY <1>1, <1>6, <3>1
  <2>2. CASE n = Len(s) + 1
    <3>1. 1 \in 1 .. Len(chn)
      BY <1>2
    <3>2. links[r[n]] = top
      BY <1>2, <1>6, <2>2, <3>1
    <3>3. CASE s = << >>
      <4>1. n = 1
        BY <1>1, <2>2, <3>3, ToSetIs
      <4>2. QED
        BY <1>1, <3>2, <3>3, <4>1
    <3>4. CASE s # << >>
      <4>1. Len(s) > 0
        BY <1>1, <3>4, ToSetIs
      <4>2. n # 1 /\ n - 1 = Len(s) /\ Len(s) \in 1 .. Len(s)
        BY <1>1, <2>2, <4>1
      <4>3. r[n - 1] = s[Len(s)]
        BY <1>6, <4>2
      <4>4. QED
        BY <1>1, <3>2, <3>4, <4>2, <4>3
    <3>5. QED
      BY <3>3, <3>4
  <2>3. CASE n > Len(s) + 1
    <3>1. PICK m \in 2 .. Len(chn) : n = Len(s) + m
      <4>1. n - Len(s) \in 2 .. Len(chn) /\ n = Len(s) + (n - Len(s))
        BY <1>1, <1>2, <1>6, <2>3
      <4>2. QED
        BY <4>1
    <3>2. m \in 1 .. Len(chn) /\ m - 1 \in 1 .. Len(chn) /\ n - 1 = Len(s) + (m - 1) /\ n # 1
      BY <1>1, <1>2, <3>1
    <3>3. r[n] = chn[m] /\ r[n - 1] = chn[m - 1]
      BY <1>6, <3>1, <3>2
    <3>4. QED
      BY <1>3, <3>1, <3>2, <3>3
  <2>4. QED
    BY <1>1, <1>6, <2>1, <2>2, <2>3
<1>9. \A b \in Slots : own2[b] = ListTag(c) => cls[b] = c
  BY <1>0, <1>1
<1>10. QED
  BY <1>5, <1>6, <1>7, <1>8, <1>9 DEF ListOK, r

LEMMA PushCasKeeps ==
  ASSUME IInv, NEW t \in Threads, PushCas(t)
  PROVE  IInv'
<1> DEFINE c == th[t].list
           got == th[t].got
           pushed == [th[t] EXCEPT !.first = None, !.last = None, !.loaded = None, !.fresh = FALSE]
           mine == IF got = None THEN [pushed EXCEPT !.pc = "return", !.list = None]
                   ELSE [pushed EXCEPT !.pc = "pop"]
<1>1. /\ th[t].pc = "pushCas" /\ th[t].fresh /\ head' = [head EXCEPT ![c] = th[t].first]
      /\ th' = Overtaken(c, t, mine)
      /\ side' = IF got = None THEN side ELSE [side EXCEPT ![got] = th[t].class]
      /\ UNCHANGED <<frontier, next, cache, epoch, live, pool>>
  BY DEF PushCas, CasSucceeds, Recorded
<1>2. /\ pool = "mapped" /\ TypesInv /\ th[t] \in Calls /\ CallOK(th[t], cache[t])
      /\ CacheOK(cache[t], epoch) /\ CasOK(th[t], head, next) /\ c \in Classes
  BY <1>1, CallFacts
<1>3. th[t].fresh = TRUE
  BY <1>1, <1>2 DEF Calls
<1>4. next[th[t].last] = head[c]
  BY <1>1, <1>2, <1>3 DEF CasOK
<1>5. /\ th[t].first # None /\ th[t].extras = 0
      /\ got = None => Returning(th[t], cache[t])
      /\ got # None => Refilling(th[t], cache[t]) /\ th[t].class = c /\ th[t].todo = << >>
  BY <1>1, <1>2 DEF CallOK, Refilling
<1>6. /\ mine \in Calls /\ mine.first = None /\ mine.got = got /\ mine.extras = 0
      /\ mine.op = th[t].op /\ mine.class = th[t].class /\ mine.todo = th[t].todo
      /\ mine.addr = th[t].addr
      /\ got = None => mine.pc = "return" /\ mine.list = None
      /\ got # None => mine.pc = "pop" /\ mine.list = c
      /\ mine.fresh = FALSE
  <2>0. /\ pushed \in Calls /\ pushed.first = None /\ pushed.got = got /\ pushed.extras = 0
        /\ pushed.op = th[t].op /\ pushed.class = th[t].class /\ pushed.todo = th[t].todo
        /\ pushed.addr = th[t].addr /\ pushed.list = c /\ pushed.fresh = FALSE
    BY <1>2, <1>5 DEF Calls, Maybe
  <2> HIDE DEF pushed
  <2>1. CASE got = None
    <3>1. mine = [pushed EXCEPT !.pc = "return", !.list = None]
      BY <2>1
    <3>2. QED
      BY <2>0, <2>1, <3>1 DEF Calls, PCs
  <2>2. CASE got # None
    <3>1. mine = [pushed EXCEPT !.pc = "pop"]
      BY <2>2
    <3>2. QED
      BY <2>0, <2>2, <3>1 DEF Calls, PCs
  <2>3. QED
    BY <2>1, <2>2
<1> HIDE DEF mine
<1>7. CasOK(mine, head', next)
  BY <1>6 DEF CasOK
<1>8. CallOK(mine, cache[t])
  <2>1. CASE got = None
    <3>1. Returning(mine, cache[t])
      BY <1>5, <1>6, <2>1 DEF Returning
    <3>2. QED
      BY <1>2, <1>6, <2>1, <3>1 DEF CallOK
  <2>2. CASE got # None
    <3>1. Refilling(mine, cache[t])
      BY <1>5, <1>6, <2>2 DEF Refilling
    <3>2. QED
      BY <1>2, <1>6, <2>2, <3>1 DEF CallOK
  <2>3. QED
    BY <2>1, <2>2
<1>9. got \in Maybe /\ th[t].first \in Maybe /\ (got # None => got \in Slots)
  BY <1>2 DEF Calls, Maybe
<1>10. /\ side' \in [Slots -> Classes \cup {LARGE, None}]
       /\ \A b \in Slots : side'[b] = IF b = got THEN c ELSE side[b]
  <2>1. CASE got = None
    BY <1>1, <1>2, <2>1, Constants DEF TypesInv
  <2>2. CASE got # None
    BY <1>1, <1>2, <1>5, <1>9, <2>2 DEF TypesInv
  <2>3. QED
    BY <2>1, <2>2
<1>11. CasMoves(t, c, th[t].first, mine)
  BY <1>1, <1>2, <1>6, <1>9, <1>10 DEF CasMoves, TypesInv
<1>12. PICK own, cls :
        \E stk \in [Classes -> Seq(Slots)], chain \in [Threads -> Seq(Slots)] :
          Blocked(own, cls, stk, chain)
  BY <1>2 DEF IInv
<1>13. PICK stk \in [Classes -> Seq(Slots)], chain \in [Threads -> Seq(Slots)] :
         Blocked(own, cls, stk, chain)
  BY <1>12
<1>14. /\ own \in [Slots -> Tags] /\ SideOK(own, cls, side)
       /\ ThreadOK(own, cls, t, chain[t], cache[t], th[t], head, next)
       /\ ListOK(own, cls, c, stk[c], head[c], next)
  BY <1>2, <1>13 DEF Blocked
<1>15. /\ \A d \in Slots : /\ own[d] # GotTag(t)
                           /\ own[d] = NewTag(t) <=> d = got
                           /\ own[d] = AddrTag(t) <=> d = th[t].addr
       /\ Holds(own, TodoTag(t), th[t].todo) /\ Holds(own, ChainTag(t), chain[t])
       /\ OwnClasses(own, cls, t, th[t]) /\ ChainOK(chain[t], next, th[t])
       /\ \A d \in Classes : Holds(own, BinTag(t, d), BinOf(cache[t], d))
  BY <1>5, <1>14, OwnedBy
<1> DEFINE own2 == [b \in Slots |-> IF own[b] = ChainTag(t) THEN ListTag(c)
                                    ELSE IF own[b] = NewTag(t) THEN GotTag(t) ELSE own[b]]
<1>16. /\ own2 \in [Slots -> Tags]
       /\ \A b \in Slots : own2[b] = IF own[b] = ChainTag(t) THEN ListTag(c)
                                     ELSE IF own[b] = NewTag(t) THEN GotTag(t) ELSE own[b]
  BY <1>2, <1>14, TagsAre
<1> HIDE DEF own2
<1>17. \A b \in Slots : own[b] = ChainTag(t) => cls[b] = c
  BY <1>15 DEF OwnClasses
<1>18. \A b \in Slots : own2[b] = ListTag(c) <=> own[b] = ListTag(c) \/ own[b] = ChainTag(t)
  BY <1>16, TagsDiffer
<1> DEFINE s == stk[c] \o chain[t]
<1>19. ListOK(own2, cls, c, s, th[t].first, next) /\ s \in Seq(Slots)
  <2>1. PushedOn(own, own2, cls, t, c)
    BY <1>17, <1>18 DEF PushedOn
  <2>2. QED
    BY <1>4, <1>5, <1>14, <1>15, <2>1, PushedList
<1> HIDE DEF s
<1>20. Touched(own, own2, t, c)
  BY <1>16, TagFacts DEF Touched, Of
<1>21. SideOK(own2, cls, side')
  <2> SUFFICES ASSUME NEW b \in Slots PROVE side'[b] = IF Out(own2[b]) THEN cls[b] ELSE None
    BY DEF SideOK
  <2>1. side[b] = IF Out(own[b]) THEN cls[b] ELSE None
    BY <1>14 DEF SideOK
  <2>2. CASE own[b] = ChainTag(t)
    <3>1. b # got
      BY <1>15, <2>2, TagsDiffer
    <3>2. QED
      BY <1>10, <1>16, <2>1, <2>2, <3>1, OutIs
  <2>3. CASE own[b] = NewTag(t)
    <3>1. b = got /\ cls[b] = th[t].class
      BY <1>15, <2>3 DEF OwnClasses
    <3>2. got # None
      BY <3>1, Constants
    <3>3. own2[b] = GotTag(t)
      BY <1>16, <2>3, TagsDiffer
    <3>4. QED
      BY <1>5, <1>10, <3>1, <3>2, <3>3, OutIs
  <2>4. CASE own[b] # ChainTag(t) /\ own[b] # NewTag(t)
    <3>1. b # got /\ own2[b] = own[b]
      BY <1>15, <1>16, <2>4
    <3>2. QED
      BY <1>10, <2>1, <3>1
  <2>5. QED
    BY <2>2, <2>3, <2>4
<1>22. \A b \in Slots : /\ own2[b] # ChainTag(t) /\ own2[b] # NewTag(t)
                        /\ own2[b] = GotTag(t) <=> b = mine.got
                        /\ own2[b] = AddrTag(t) <=> b = mine.addr
  BY <1>6, <1>15, <1>16, TagsDiffer
<1>23. Holds(own2, TodoTag(t), mine.todo)
  <2>1. \A d \in Slots : own2[d] = TodoTag(t) <=> own[d] = TodoTag(t)
    BY <1>16, TagsDiffer
  <2>2. QED
    BY <1>6, <1>15, <2>1, HoldsStays
<1>24. ASSUME NEW d \in Classes PROVE Holds(own2, BinTag(t, d), BinOf(cache[t], d))
  <2>1. \A b \in Slots : own2[b] = BinTag(t, d) <=> own[b] = BinTag(t, d)
    BY <1>16, TagsDiffer
  <2>2. QED
    BY <1>15, <2>1, HoldsStays
<1>25. OwnClasses(own2, cls, t, mine)
  <2> SUFFICES ASSUME NEW d \in Slots
               PROVE /\ own2[d] = ChainTag(t) => cls[d] = mine.list
                     /\ own2[d] \in {GotTag(t), NewTag(t)} => cls[d] = mine.class
                     /\ own2[d] = TodoTag(t) => cls[d] \in Classes
                     /\ own2[d] = AddrTag(t) => CASE mine.op = "free" -> cls[d] = mine.class
                                                  [] mine.op = "allocate" -> cls[d] \in Classes
                                                  [] OTHER -> TRUE
                     /\ \A e \in Classes : own2[d] = BinTag(t, e) => cls[d] = e
    BY DEF OwnClasses
  <2>1. /\ own[d] = NewTag(t) => cls[d] = th[t].class
        /\ own[d] = TodoTag(t) => cls[d] \in Classes
        /\ own[d] = AddrTag(t) => CASE th[t].op = "free" -> cls[d] = th[t].class
                                    [] th[t].op = "allocate" -> cls[d] \in Classes
                                    [] OTHER -> TRUE
        /\ \A e \in Classes : own[d] = BinTag(t, e) => cls[d] = e
    BY <1>15 DEF OwnClasses
  <2>2. /\ own2[d] # ChainTag(t) /\ own2[d] # NewTag(t)
        /\ own2[d] = GotTag(t) => own[d] = NewTag(t)
        /\ own2[d] = TodoTag(t) => own[d] = TodoTag(t)
        /\ own2[d] = AddrTag(t) => own[d] = AddrTag(t)
        /\ \A e \in Classes : own2[d] = BinTag(t, e) => own[d] = BinTag(t, e)
    BY <1>15, <1>16, TagsDiffer
  <2>3. QED
    BY <1>6, <2>1, <2>2
<1>26. ThreadOK(own2, cls, t, << >>, cache[t], mine, head', next) /\ << >> \in Seq(Slots)
  BY <1>6, <1>7, <1>8, <1>22, <1>23, <1>24, <1>25, ChainlessThread
<1>27. ThreadOK(own2, cls, t, << >>, cache'[t], mine, head', next)
  BY <1>1, <1>26
<1>28. QED
  BY <1>2, <1>11, <1>13, <1>16, <1>19, <1>20, <1>21, <1>26, <1>27, CasStep

(* The top of list c is taken.                                             *)
PoppedFrom(own, own2, c, x) == \A b \in Slots :
  own2[b] = ListTag(c) <=> own[b] = ListTag(c) /\ b # x

LEMMA PoppedList ==
  ASSUME NEW own, NEW own2, NEW cls, NEW c, NEW s, NEW top, NEW links,
         ListOK(own, cls, c, s, top, links), top # None, PoppedFrom(own, own2, c, top)
  PROVE  ListOK(own2, cls, c, Front(s), links[top], links) /\ Front(s) \in Seq(Slots)
<1> DEFINE r == Front(s)
<1>0. \A b \in Slots : own2[b] = ListTag(c) <=> own[b] = ListTag(c) /\ b # top
  BY DEF PoppedFrom
<1>1. s # << >> /\ top = s[Len(s)] /\ s \in Seq(Slots) /\ Len(s) \in Nat \ {0}
  BY TopIs
<1>2. Last(s) = top
  BY <1>1 DEF Last
<1>3. Holds(own, ListTag(c), s)
  BY DEF ListOK
<1>4. /\ Holds(own2, ListTag(c), r) /\ Len(r) = Len(s) - 1
      /\ \A i \in 1 .. Len(s) - 1 : r[i] = s[i]
  <2>1. \A b \in Slots : own2[b] = ListTag(c) <=> own[b] = ListTag(c) /\ b # Last(s)
    BY <1>0, <1>2
  <2>2. Holds(own2, ListTag(c), r)
    BY <1>1, <1>3, <2>1, HoldsFront
  <2>3. Len(r) = Len(s) - 1 /\ \A i \in 1 .. Len(s) - 1 : r[i] = s[i]
    <3>1. 1 \in Nat \ {0} /\ Len(s) - 1 \in Nat /\ 1 <= Len(s) - 1 + 1 /\ Len(s) - 1 <= Len(s)
      BY <1>1
    <3>2. /\ Len(r) = (Len(s) - 1) - 1 + 1
          /\ \A i \in 1 .. (Len(s) - 1) - 1 + 1 : r[i] = s[1 + i - 1]
      BY <1>1, <3>1, SubSeqIs DEF Front
    <3>3. \A i \in 1 .. (Len(s) - 1) - 1 + 1 : 1 + i - 1 = i
      OBVIOUS
    <3> HIDE DEF r
    <3>4. QED
      BY <1>1, <3>2, <3>3
  <2>4. QED
    BY <2>2, <2>3
<1>5. \A n \in 1 .. Len(s) : links[s[n]] = IF n = 1 THEN None ELSE s[n - 1]
  BY DEF ListOK
<1> HIDE DEF r
<1>6. r \in Seq(Slots)
  BY <1>4 DEF Holds
<1>7. \A n \in 1 .. Len(r) : links[r[n]] = IF n = 1 THEN None ELSE r[n - 1]
  <2> SUFFICES ASSUME NEW n \in 1 .. Len(r)
               PROVE  links[r[n]] = IF n = 1 THEN None ELSE r[n - 1]
    OBVIOUS
  <2>1. n \in 1 .. Len(s) - 1 /\ n \in 1 .. Len(s) /\ (n # 1 => n - 1 \in 1 .. Len(s) - 1)
    BY <1>1, <1>4
  <2>2. QED
    BY <1>4, <1>5, <2>1
<1>8. links[top] = IF r = << >> THEN None ELSE r[Len(r)]
  <2>1. Len(s) \in 1 .. Len(s)
    BY <1>1
  <2>2. links[top] = IF Len(s) = 1 THEN None ELSE s[Len(s) - 1]
    BY <1>1, <1>5, <2>1
  <2>3. r = << >> <=> Len(s) = 1
    BY <1>1, <1>4, <1>6, ToSetIs
  <2>4. CASE Len(s) = 1
    BY <2>2, <2>3, <2>4
  <2>5. CASE Len(s) # 1
    <3>0. PICK k \in Nat : k = Len(s) /\ k # 0 /\ k # 1
      BY <1>1, <2>5
    <3>1. k - 1 \in 1 .. k - 1
      BY <3>0
    <3>2. r[Len(r)] = s[Len(s) - 1]
      BY <1>4, <3>0, <3>1
    <3>3. QED
      BY <2>2, <2>3, <2>5, <3>2
  <2>6. QED
    BY <2>4, <2>5
<1>9. \A b \in Slots : own2[b] = ListTag(c) => cls[b] = c
  BY <1>0 DEF ListOK
<1>10. QED
  BY <1>4, <1>6, <1>7, <1>8, <1>9 DEF ListOK, r

LEMMA PopCasKeeps ==
  ASSUME IInv, NEW t \in Threads, PopCas(t)
  PROVE  IInv'
<1> DEFINE c == th[t].list
           got == th[t].got
           x == th[t].loaded
           bin == cache[t].bins[c]
           popped == [th[t] EXCEPT !.pc = "pop", !.loaded = None, !.succ = None, !.fresh = FALSE]
           mine == IF got = None THEN [popped EXCEPT !.got = x]
                   ELSE [popped EXCEPT !.extras = th[t].extras + 1]
<1>1. /\ th[t].pc = "popCas" /\ th[t].fresh /\ head' = [head EXCEPT ![c] = th[t].succ]
      /\ th' = Overtaken(c, t, mine)
      /\ side' = [side EXCEPT ![x] = th[t].class]
      /\ cache' = IF got = None THEN cache
                  ELSE [cache EXCEPT ![t].bins[th[t].class] = Append(cache[t].bins[th[t].class], x)]
      /\ UNCHANGED <<frontier, next, epoch, live, pool>>
  BY DEF PopCas, CasSucceeds, Recorded
<1>2. /\ pool = "mapped" /\ TypesInv /\ th[t] \in Calls /\ CallOK(th[t], cache[t])
      /\ CacheOK(cache[t], epoch) /\ CasOK(th[t], head, next) /\ c \in Classes
  BY <1>1, CallFacts
<1>3. th[t].fresh = TRUE
  BY <1>1, <1>2 DEF Calls
<1>4. x = head[c] /\ th[t].succ = next[x]
  BY <1>1, <1>2, <1>3 DEF CasOK
<1>5. /\ th[t].first = None /\ Refilling(th[t], cache[t]) /\ x # None
      /\ got # None => th[t].extras < TCACHE_REFILL - 1
  BY <1>1, <1>2 DEF CallOK
<1>6. /\ th[t].class = c /\ th[t].todo = << >> /\ cache[t] # None /\ th[t].op = "allocate"
      /\ Len(BinOf(cache[t], c)) = th[t].extras /\ th[t].extras <= TCACHE_REFILL - 1
      /\ got = None => th[t].extras = 0
  BY <1>5 DEF Refilling
<1>7. got \in Maybe /\ x \in Slots /\ th[t].succ \in Maybe /\ th[t].extras \in Nat
  BY <1>2, <1>5 DEF Calls, Maybe
<1>8. /\ mine \in Calls /\ mine.first = None /\ mine.pc = "pop" /\ mine.list = c
      /\ mine.got = (IF got = None THEN x ELSE got)
      /\ mine.extras = (IF got = None THEN 0 ELSE th[t].extras + 1)
      /\ mine.op = th[t].op /\ mine.class = th[t].class /\ mine.todo = th[t].todo
      /\ mine.addr = th[t].addr /\ mine.fresh = FALSE
  <2>0. /\ popped \in Calls /\ popped.first = None /\ popped.got = got
        /\ popped.extras = th[t].extras /\ popped.pc = "pop"
        /\ popped.op = th[t].op /\ popped.class = th[t].class /\ popped.todo = th[t].todo
        /\ popped.addr = th[t].addr /\ popped.list = c /\ popped.fresh = FALSE
    <3>1. th[t] \in Calls /\ th[t].first = None /\ "pop" \in PCs /\ None \in Maybe
      BY <1>2, <1>5 DEF Maybe, PCs
    <3>2. popped \in Calls
      BY ONLY <3>1 DEF Calls
    <3>3. QED
      BY ONLY <3>1, <3>2 DEF Calls
  <2> HIDE DEF popped
  <2>1. CASE got = None
    <3>1. mine = [popped EXCEPT !.got = x]
      BY <2>1
    <3>2. QED
      BY <1>6, <1>7, <2>0, <2>1, <3>1 DEF Calls, Maybe
  <2>2. CASE got # None
    <3>1. mine = [popped EXCEPT !.extras = th[t].extras + 1] /\ th[t].extras + 1 \in Nat
      BY <1>7, <2>2
    <3>2. QED
      BY <2>0, <2>2, <3>1 DEF Calls
  <2>3. QED
    BY <2>1, <2>2
<1> HIDE DEF mine
<1>9. CasOK(mine, head', next)
  BY <1>8 DEF CasOK
<1>10. bin = BinOf(cache[t], c) /\ bin \in Seq(Slots) /\ Len(bin) = th[t].extras
  BY <1>2, <1>6 DEF BinOf, TypesInv, Caches
<1> DEFINE bin2 == IF got = None THEN bin ELSE Append(bin, x)
<1>11. /\ cache' \in [Threads -> Caches \cup {None}] /\ cache'[t] # None
       /\ BinOf(cache'[t], c) = bin2
       /\ \A d \in Classes : d # c => BinOf(cache'[t], d) = BinOf(cache[t], d)
       /\ CacheOK(cache'[t], epoch)
       /\ \A u \in Threads \ {t} : cache'[u] = cache[u]
  <2>1. CASE got = None
    BY <1>1, <1>2, <1>6, <1>10, <2>1 DEF TypesInv
  <2>2. CASE got # None
    <3>1. Append(bin, x) \in Seq(Slots) /\ Len(Append(bin, x)) <= TCACHE_CAPACITY
      BY <1>5, <1>7, <1>10, <2>2, Constants
    <3>2. cache' = [cache EXCEPT ![t].bins[c] = Append(bin, x)]
      BY <1>1, <1>6, <2>2
    <3> HIDE DEF bin
    <3>3. QED
      BY <1>2, <1>6, <2>2, <3>1, <3>2, BinSet
  <2>3. QED
    BY <2>1, <2>2
<1> HIDE DEF bin
<1>12. CallOK(mine, cache'[t])
  <2>1. Len(bin2) = mine.extras /\ mine.extras <= TCACHE_REFILL - 1 /\ mine.got # None
    <3>1. CASE got = None
      BY <1>5, <1>6, <1>8, <1>10, <3>1
    <3>2. CASE got # None
      BY <1>5, <1>7, <1>8, <1>10, <3>2, Constants
    <3>3. QED
      BY <3>1, <3>2
  <2> HIDE DEF bin2
  <2>2. Refilling(mine, cache'[t])
    BY <1>2, <1>6, <1>8, <1>11, <2>1 DEF Refilling
  <2>3. QED
    BY <1>2, <1>6, <1>8, <2>2 DEF CallOK
<1>13. /\ side' \in [Slots -> Classes \cup {LARGE, None}]
       /\ \A b \in Slots : side'[b] = IF b = x THEN c ELSE side[b]
  BY <1>1, <1>2, <1>6, <1>7 DEF TypesInv
<1>14. CasMoves(t, c, th[t].succ, mine)
  BY <1>1, <1>2, <1>7, <1>8, <1>11, <1>13 DEF CasMoves
<1>15. PICK own, cls :
        \E stk \in [Classes -> Seq(Slots)], chain \in [Threads -> Seq(Slots)] :
          Blocked(own, cls, stk, chain)
  BY <1>2 DEF IInv
<1>16. PICK stk \in [Classes -> Seq(Slots)], chain \in [Threads -> Seq(Slots)] :
         Blocked(own, cls, stk, chain)
  BY <1>15
<1>17. /\ own \in [Slots -> Tags] /\ SideOK(own, cls, side)
       /\ ThreadOK(own, cls, t, chain[t], cache[t], th[t], head, next)
       /\ ListOK(own, cls, c, stk[c], head[c], next)
  BY <1>2, <1>16 DEF Blocked
<1>18. /\ \A d \in Slots : /\ own[d] # ChainTag(t) /\ own[d] # NewTag(t)
                           /\ own[d] = GotTag(t) <=> d = got
                           /\ own[d] = AddrTag(t) <=> d = th[t].addr
       /\ Holds(own, TodoTag(t), th[t].todo) /\ OwnClasses(own, cls, t, th[t])
       /\ \A d \in Classes : Holds(own, BinTag(t, d), BinOf(cache[t], d))
  BY <1>5, <1>17, OwnedBy
<1>19. own[x] = ListTag(c) /\ cls[x] = c
  <2>1. own[x] = ListTag(c)
    BY <1>4, <1>5, <1>17, TopIs
  <2>2. QED
    BY <1>7, <1>17, <2>1 DEF ListOK
<1> DEFINE g == IF got = None THEN GotTag(t) ELSE BinTag(t, c)
           own2 == Give(own, {x}, g)
<1>20. g \in Tags /\ Of(g, t) /\ Out(g) /\ g # ListTag(c) /\ g \in {GotTag(t), BinTag(t, c)}
  BY <1>2, TagsAre, OutIs, TagsDiffer, TagFacts DEF Of
<1>21. /\ got = None => g = GotTag(t)
       /\ got # None => g = BinTag(t, c)
  OBVIOUS
<1> HIDE DEF g, x
<1>22. own2 \in [Slots -> Tags] /\ \A d \in Slots : own2[d] = IF d = x THEN g ELSE own[d]
  BY <1>17, <1>20, GiveIs
<1> HIDE DEF own2
<1> DEFINE s == Front(stk[c])
<1>23. ListOK(own2, cls, c, s, th[t].succ, next) /\ s \in Seq(Slots)
  <2>1. PoppedFrom(own, own2, c, x)
    BY <1>20, <1>22 DEF PoppedFrom
  <2>2. ListOK(own, cls, c, stk[c], x, next)
    BY <1>4, <1>17
  <2>3. ListOK(own2, cls, c, s, next[x], next) /\ s \in Seq(Slots)
    BY <1>5, <2>1, <2>2, PoppedList
  <2>4. QED
    BY <1>4, <2>3
<1> HIDE DEF s
<1>24. Touched(own, own2, t, c)
  BY <1>19, <1>20, <1>22 DEF Touched
<1>25. SideOK(own2, cls, side')
  BY <1>13, <1>17, <1>19, <1>20, <1>22 DEF SideOK
<1>26. \A b \in Slots : /\ own2[b] # ChainTag(t) /\ own2[b] # NewTag(t)
                        /\ own2[b] = AddrTag(t) <=> b = mine.addr
                        /\ own2[b] = TodoTag(t) <=> own[b] = TodoTag(t)
  BY <1>8, <1>18, <1>19, <1>20, <1>22, TagsDiffer
<1>27. \A b \in Slots : own2[b] = GotTag(t) <=> b = mine.got
  <2>1. CASE got = None
    BY <1>8, <1>18, <1>21, <1>22, <2>1, Constants
  <2>2. CASE got # None
    BY <1>8, <1>18, <1>19, <1>21, <1>22, <2>2, TagsDiffer
  <2>3. QED
    BY <2>1, <2>2
<1>28. Holds(own2, TodoTag(t), mine.todo)
  BY <1>8, <1>18, <1>26, HoldsStays
<1>29. ASSUME NEW d \in Classes PROVE Holds(own2, BinTag(t, d), BinOf(cache'[t], d))
  <2>1. CASE d = c /\ got # None
    <3>1. Holds(own, BinTag(t, c), bin) /\ own[x] # BinTag(t, c)
      BY <1>2, <1>10, <1>18, <1>19, TagsDiffer
    <3>2. \A b \in Slots : own2[b] = BinTag(t, c) <=> own[b] = BinTag(t, c) \/ b = x
      BY <1>21, <1>22, <2>1
    <3>3. Holds(own2, BinTag(t, c), Append(bin, x))
      BY <1>7, <3>1, <3>2, HoldsAppend
    <3>4. QED
      BY <1>11, <2>1, <3>3
  <2>2. CASE d # c \/ got = None
    <3>1. g # BinTag(t, d)
      BY <1>20, <1>21, <2>2, TagsDiffer, TagFacts
    <3>2. \A b \in Slots : own2[b] = BinTag(t, d) <=> own[b] = BinTag(t, d)
      BY <1>19, <1>22, <3>1, TagsDiffer
    <3>3. Holds(own2, BinTag(t, d), BinOf(cache[t], d))
      BY <1>18, <3>2, HoldsStays
    <3>4. QED
      BY <1>10, <1>11, <2>2, <3>3
  <2>3. QED
    BY <2>1, <2>2
<1>30. OwnClasses(own2, cls, t, mine)
  <2> SUFFICES ASSUME NEW d \in Slots
               PROVE /\ own2[d] = ChainTag(t) => cls[d] = mine.list
                     /\ own2[d] \in {GotTag(t), NewTag(t)} => cls[d] = mine.class
                     /\ own2[d] = TodoTag(t) => cls[d] \in Classes
                     /\ own2[d] = AddrTag(t) => CASE mine.op = "free" -> cls[d] = mine.class
                                                  [] mine.op = "allocate" -> cls[d] \in Classes
                                                  [] OTHER -> TRUE
                     /\ \A e \in Classes : own2[d] = BinTag(t, e) => cls[d] = e
    BY DEF OwnClasses
  <2>1. CASE d = x
    <3>1. own2[d] = g /\ cls[d] = c
      BY <1>19, <1>22, <2>1
    <3>2. \A e \in Classes : g = BinTag(t, e) => e = c
      BY <1>20, TagsDiffer, TagFacts
    <3>3. QED
      BY <1>6, <1>8, <1>20, <3>1, <3>2, TagsDiffer
  <2>2. CASE d # x
    <3>1. own2[d] = own[d]
      BY <1>22, <2>2
    <3>2. /\ own[d] \in {GotTag(t), NewTag(t)} => cls[d] = th[t].class
          /\ own[d] = TodoTag(t) => cls[d] \in Classes
          /\ own[d] = AddrTag(t) => CASE th[t].op = "free" -> cls[d] = th[t].class
                                      [] th[t].op = "allocate" -> cls[d] \in Classes
                                      [] OTHER -> TRUE
          /\ \A e \in Classes : own[d] = BinTag(t, e) => cls[d] = e
      BY <1>18 DEF OwnClasses
    <3>3. QED
      BY <1>8, <1>18, <3>1, <3>2
  <2>3. QED
    BY <2>1, <2>2
<1>31. ThreadOK(own2, cls, t, << >>, cache'[t], mine, head', next) /\ << >> \in Seq(Slots)
  BY <1>8, <1>9, <1>12, <1>26, <1>27, <1>28, <1>29, <1>30, ChainlessThread
<1>32. QED
  BY <1>2, <1>14, <1>16, <1>22, <1>23, <1>24, <1>25, <1>31, CasStep

-----------------------------------------------------------------------------
(* A chunk is carved.                                                      *)

(* Block i of a chunk of k blocks of d slots from lo on.                   *)
BlockAt(lo, d, i) == lo + i * d
ChunkBlocks(lo, d, k) == {BlockAt(lo, d, i) : i \in 0 .. k - 1}

(* The blocks follow each other, and fill the chunk.                       *)
ChunkOK(lo, d, k) ==
  /\ BlockAt(lo, d, 0) = lo /\ BlockAt(lo, d, k) = lo + k * d
  /\ \A i \in 0 .. k : BlockAt(lo, d, i) \in Nat /\ lo <= BlockAt(lo, d, i)
  /\ \A i \in 0 .. k - 1 : BlockAt(lo, d, i) + d = BlockAt(lo, d, i + 1)
  /\ \A i, j \in 0 .. k : i < j => BlockAt(lo, d, i) + d <= BlockAt(lo, d, j)
  /\ \A s \in Nat : lo <= s /\ s < BlockAt(lo, d, k) =>
       \E i \in 0 .. k - 1 : BlockAt(lo, d, i) <= s /\ s < BlockAt(lo, d, i) + d

LEMMA ChunkIs ==
  ASSUME NEW lo \in Nat, NEW d \in Nat \ {0}, NEW k \in Nat \ {0}
  PROVE  ChunkOK(lo, d, k)
<1>1. \A i \in 0 .. k : i \in Nat /\ i * d \in Nat
  BY Products
<1>2. 0 * d = 0
  OBVIOUS
<1>3. BlockAt(lo, d, 0) = lo /\ BlockAt(lo, d, k) = lo + k * d
  BY <1>2 DEF BlockAt
<1>4. \A i \in 0 .. k : BlockAt(lo, d, i) \in Nat /\ lo <= BlockAt(lo, d, i)
  BY <1>1 DEF BlockAt
<1>5. ASSUME NEW i \in 0 .. k - 1 PROVE BlockAt(lo, d, i) + d = BlockAt(lo, d, i + 1)
  <2>1. (i + 1) * d = i * d + 1 * d /\ i * d \in Nat /\ 1 * d = d
    BY Products
  <2>2. QED
    BY <2>1 DEF BlockAt
<1>6. ASSUME NEW i \in 0 .. k, NEW j \in 0 .. k, i < j
      PROVE  BlockAt(lo, d, i) + d <= BlockAt(lo, d, j)
  <2>1. i * d + d <= j * d /\ i * d \in Nat /\ j * d \in Nat
    BY <1>6, Products
  <2>2. QED
    BY <2>1 DEF BlockAt
<1>7. ASSUME NEW s \in Nat, lo <= s, s < BlockAt(lo, d, k)
      PROVE  \E i \in 0 .. k - 1 : BlockAt(lo, d, i) <= s /\ s < BlockAt(lo, d, i) + d
  <2>1. PICK a \in Nat : s = lo + a
    BY <1>7
  <2>2. PICK q \in Nat, r \in 0 .. d - 1 : a = q * d + r
    BY Division
  <2>3. q * d \in Nat /\ k * d \in Nat
    BY Products
  <2>4. q * d < k * d
    BY <1>3, <1>7, <2>1, <2>2, <2>3
  <2>5. q < k
    BY <2>4, Products
  <2>6. q \in 0 .. k - 1
    BY <2>5
  <2>7. BlockAt(lo, d, q) <= s /\ s < BlockAt(lo, d, q) + d
    BY <2>1, <2>2, <2>3 DEF BlockAt
  <2>8. QED
    BY <2>6, <2>7
<1>8. QED
  BY <1>3, <1>4, <1>5, <1>6, <1>7 DEF ChunkOK

(* The blocks but the first are the multiples of d behind the second.      *)
LEMMA ChainBlocks ==
  ASSUME NEW lo \in Nat, NEW d \in Nat \ {0}, NEW k \in Nat, k >= 2
  PROVE  {b \in BlockAt(lo, d, 1) .. BlockAt(lo, d, k - 1) : (b - BlockAt(lo, d, 1)) % d = 0}
           = {BlockAt(lo, d, i) : i \in 1 .. k - 1}
<1> DEFINE f == BlockAt(lo, d, 1)
           l == BlockAt(lo, d, k - 1)
           A == {b \in f .. l : (b - f) % d = 0}
           B == {BlockAt(lo, d, i) : i \in 1 .. k - 1}
<1>1. f = lo + d /\ f \in Nat
  <2>1. 1 * d = d
    OBVIOUS
  <2>2. QED
    BY <2>1 DEF BlockAt
<1>2. l = lo + (k - 1) * d /\ (k - 1) * d \in Nat /\ k - 1 \in Nat
  BY Products DEF BlockAt
<1>3. ASSUME NEW i \in 1 .. k - 1 PROVE BlockAt(lo, d, i) \in A
  <2>1. PICK m \in Nat : i = m + 1
    BY <1>3
  <2>2. i * d = m * d + 1 * d /\ m * d \in Nat /\ 1 * d = d
    BY <2>1, Products
  <2>3. BlockAt(lo, d, i) = f + m * d
    BY <1>1, <2>2 DEF BlockAt
  <2>4. i * d <= (k - 1) * d /\ i * d \in Nat
    BY <1>2, Products
  <2>5. BlockAt(lo, d, i) = lo + i * d
    BY DEF BlockAt
  <2>6. BlockAt(lo, d, i) \in f .. l
    <3> HIDE DEF f, l
    <3>1. QED
      BY <1>1, <1>2, <2>2, <2>3, <2>4, <2>5
  <2>7. (BlockAt(lo, d, i) - f) % d = 0
    <3>1. BlockAt(lo, d, i) - f = m * d
      BY <1>1, <2>2, <2>3
    <3>2. (m * d) % d = 0
      BY ExactQuotient
    <3>3. QED
      BY <3>1, <3>2
  <2>8. QED
    BY <2>6, <2>7
<1>4. ASSUME NEW b \in A PROVE b \in B
  <2>1. b \in f .. l /\ (b - f) % d = 0
    OBVIOUS
  <2> HIDE DEF f, l
  <2>2. PICK a \in Nat : b = f + a
    BY <1>1, <1>2, <2>1
  <2>3. b - f = a
    BY <1>1, <2>2
  <2>4. PICK q \in Nat, r \in 0 .. d - 1 : a % d = r /\ a = q * d + r
    BY Division
  <2>5. a = q * d /\ q * d \in Nat
    BY <2>1, <2>3, <2>4, Products
  <2>6. (q + 1) * d = q * d + 1 * d /\ 1 * d = d
    BY Products
  <2>7. b = BlockAt(lo, d, q + 1)
    BY <1>1, <2>2, <2>5, <2>6 DEF BlockAt
  <2>8. (q + 1) * d <= (k - 1) * d
    BY <1>1, <1>2, <2>1, <2>2, <2>5, <2>6
  <2>9. q + 1 <= k - 1
    BY <1>2, <2>8, Products
  <2>10. q + 1 \in 1 .. k - 1
    BY <2>9
  <2>11. QED
    BY <2>7, <2>10
<1>5. A = B
  BY <1>3, <1>4
<1>6. QED
  BY <1>5

(* The owners and classes with the blocks in B new and of class c.         *)
Carved(own, own2, cls, cls2, B, c) == \A b \in Slots :
  /\ own2[b] # NoTag <=> own[b] # NoTag \/ b \in B
  /\ cls2[b] = IF b \in B THEN c ELSE cls[b]

(* No block lies where the chunk is carved.                                *)
LEMMA ChunkIsFree ==
  ASSUME NEW own, NEW cls \in [Slots -> Classes \cup {LARGE}], NEW f, Layout(own, cls, f),
         FrontierOK(f), CanCarve(f), NEW b \in Slots, f.lo <= b, b < f.lo + ChunkSlots
  PROVE  own[b] = NoTag
<1> SUFFICES ASSUME own[b] # NoTag PROVE FALSE
  OBVIOUS
<1>1. b \in Nat /\ f.lo \in Nat /\ ChunkSlots \in Nat
  BY Constants, FrontierAssumption DEF FrontierOK
<1>2. CASE cls[b] = LARGE
  <2>1. b \in LargeBlocks(own, cls)
    BY <1>2 DEF LargeBlocks
  <2>2. PICK u \in Runs(f) : b = RunAddr(u)
    BY <2>1 DEF Layout
  <2>3. f.lo + ChunkSlots <= RunAddr(u)
    BY CarveKeeps
  <2>4. QED
    BY <1>1, <2>2, <2>3
<1>3. CASE cls[b] # LARGE
  <2>1. b \in SlabBlocks(own, cls) /\ cls[b] \in Classes
    BY <1>3 DEF SlabBlocks
  <2>2. b + SlabSizes[cls[b]] <= f.lo
    BY <2>1 DEF Layout, SlabsOK
  <2>3. SlabSizes[cls[b]] \in Nat \ {0}
    BY <2>1, Constants
  <2>4. QED
    BY <1>1, <2>2, <2>3
<1>4. QED
  BY <1>2, <1>3

LEMMA CarvedLayout ==
  ASSUME NEW own, NEW own2, NEW cls \in [Slots -> Classes \cup {LARGE}], NEW cls2, NEW f,
         Layout(own, cls, f), FrontierOK(f), CanCarve(f), NEW c \in Classes, NEW k \in Nat \ {0},
         ChunkSlots = k * SlabSizes[c],
         Carved(own, own2, cls, cls2, ChunkBlocks(f.lo, SlabSizes[c], k), c)
  PROVE  Layout(own2, cls2, CarveChunk(f))
<1> DEFINE lo == f.lo
           d == SlabSizes[c]
           B == ChunkBlocks(lo, d, k)
           At(i) == BlockAt(lo, d, i)
           g == CarveChunk(f)
<1>1. /\ g.lo = lo + ChunkSlots /\ Runs(g) = Runs(f) /\ lo + ChunkSlots <= Total /\ lo \in Nat
      /\ d \in Nat \ {0} /\ Total \in Nat /\ ChunkSlots \in Nat
  BY CarveKeeps, Constants, FrontierAssumption DEF FrontierOK
<1>2. ChunkOK(lo, d, k)
  BY <1>1, ChunkIs
<1> HIDE DEF d, lo, g
<1>3. /\ At(k) = lo + ChunkSlots
      /\ \A i \in 0 .. k - 1 : At(i) \in Nat /\ lo <= At(i) /\ At(i) + d <= lo + ChunkSlots
      /\ \A i, j \in 0 .. k - 1 : i < j => At(i) + d <= At(j)
      /\ \A s \in Nat : lo <= s /\ s < lo + ChunkSlots =>
           \E i \in 0 .. k - 1 : At(i) <= s /\ s < At(i) + d
  <2>1. At(k) = lo + ChunkSlots
    BY <1>2 DEF ChunkOK, d
  <2>2. ASSUME NEW i \in 0 .. k - 1
        PROVE  At(i) \in Nat /\ lo <= At(i) /\ At(i) + d <= lo + ChunkSlots
    <3>1. i \in 0 .. k /\ k \in 0 .. k /\ i < k
      OBVIOUS
    <3>2. QED
      BY <1>2, <2>1, <3>1 DEF ChunkOK
  <2>3. ASSUME NEW i \in 0 .. k - 1, NEW j \in 0 .. k - 1, i < j PROVE At(i) + d <= At(j)
    BY <1>2, <2>3 DEF ChunkOK
  <2>4. QED
    BY <1>2, <2>1, <2>2, <2>3 DEF ChunkOK
<1>4. \A b : b \in B <=> \E i \in 0 .. k - 1 : b = At(i)
  BY DEF ChunkBlocks
<1>5. /\ \A b \in Slots : own2[b] # NoTag <=> own[b] # NoTag \/ b \in B
      /\ \A b \in Slots : cls2[b] = IF b \in B THEN c ELSE cls[b]
  BY DEF Carved, lo, d
<1> HIDE DEF B, At
<1>6. \A b \in B : b \in Slots /\ b \in Nat /\ lo <= b /\ b + d <= lo + ChunkSlots
  BY <1>1, <1>3, <1>4 DEF Slots
<1>7. \A b \in Slots : b \in B => own[b] = NoTag
  <2>1. ASSUME NEW b \in B PROVE own[b] = NoTag
    <3>1. b \in Slots /\ lo <= b /\ b < lo + ChunkSlots
      BY <1>1, <1>6
    <3>2. QED
      BY <3>1, ChunkIsFree DEF lo
  <2>2. QED
    BY <2>1
<1> DEFINE S == SlabBlocks(own, cls)
           S2 == SlabBlocks(own2, cls2)
<1>8. \A b : b \in S2 <=> b \in S \/ b \in B
  <2>1. c # LARGE
    BY Constants
  <2>2. QED
    BY <1>5, <1>6, <1>7, <2>1 DEF SlabBlocks
<1>9. LargeBlocks(own2, cls2) = LargeBlocks(own, cls)
  <2>1. c # LARGE
    BY Constants
  <2>2. QED
    BY <1>5, <1>6, <1>7, <2>1 DEF LargeBlocks
<1>10. \A b \in S : b \in Slots /\ b \in Nat /\ b \notin B /\ cls2[b] = cls[b] /\ cls[b] \in Classes
  BY <1>5, <1>7, Constants DEF SlabBlocks
<1>11. \A b \in B : cls2[b] = c
  BY <1>5, <1>6
<1>12. /\ \A b \in S : b + SlabSizes[cls[b]] <= lo
       /\ \A b, e \in S : b < e => b + SlabSizes[cls[b]] <= e
       /\ \A s \in Slots : s < lo => \E b \in S : b <= s /\ s < b + SlabSizes[cls[b]]
  BY DEF Layout, SlabsOK, lo
<1>13. \A b \in S : SlabSizes[cls[b]] \in Nat
  BY <1>10, Constants
<1> HIDE DEF S, S2
<1>14. ASSUME NEW b \in S2 PROVE b + SlabSizes[cls2[b]] <= lo + ChunkSlots
  <2>1. CASE b \in S
    BY <1>1, <1>10, <1>12, <1>13, <2>1
  <2>2. CASE b \in B
    BY <1>6, <1>11, <2>2 DEF d
  <2>3. QED
    BY <1>8, <2>1, <2>2
<1>15. ASSUME NEW b \in S2, NEW e \in S2, b < e PROVE b + SlabSizes[cls2[b]] <= e
  <2>1. CASE b \in S /\ e \in S
    BY <1>10, <1>12, <1>15, <2>1
  <2>2. CASE b \in S /\ e \in B
    BY <1>1, <1>6, <1>10, <1>12, <1>13, <2>2
  <2>3. CASE b \in B /\ e \in B
    <3>1. PICK i \in 0 .. k - 1 : b = At(i)
      BY <1>4, <2>3
    <3>2. PICK j \in 0 .. k - 1 : e = At(j)
      BY <1>4, <2>3
    <3>3. i < j
      <4>1. j < i => At(j) + d <= At(i)
        BY <1>3
      <4>2. At(i) \in Nat /\ At(j) \in Nat
        BY <1>3
      <4>3. i # j
        BY <1>15, <3>1, <3>2, <4>2
      <4>4. QED
        BY <1>1, <1>15, <3>1, <3>2, <4>1, <4>2, <4>3
    <3>4. QED
      BY <1>3, <1>11, <2>3, <3>1, <3>2, <3>3 DEF d
  <2>4. CASE b \in B /\ e \in S
    <3>1. FALSE
      BY <1>1, <1>6, <1>10, <1>12, <1>13, <1>15, <2>4
    <3>2. QED
      BY <3>1
  <2>5. QED
    BY <1>8, <2>1, <2>2, <2>3, <2>4
<1>16. ASSUME NEW s \in Slots, s < lo + ChunkSlots
       PROVE  \E b \in S2 : b <= s /\ s < b + SlabSizes[cls2[b]]
  <2>1. s \in Nat
    BY Constants
  <2>2. CASE s < lo
    <3>1. PICK b \in S : b <= s /\ s < b + SlabSizes[cls[b]]
      BY <1>12, <2>2
    <3>2. QED
      BY <1>8, <1>10, <3>1
  <2>3. CASE lo <= s
    <3>1. PICK i \in 0 .. k - 1 : At(i) <= s /\ s < At(i) + d
      BY <1>3, <1>16, <2>1, <2>3
    <3>2. At(i) \in B
      BY <1>4
    <3>3. cls2[At(i)] = c /\ At(i) \in S2
      BY <1>8, <1>11, <3>2
    <3>4. QED
      BY <3>1, <3>3 DEF d
  <2>4. QED
    BY <1>1, <2>1, <2>2, <2>3
<1>17. SlabsOK(S2, cls2, lo + ChunkSlots)
  BY <1>14, <1>15, <1>16 DEF SlabsOK
<1>18. QED
  BY <1>1, <1>9, <1>17 DEF Layout, S2, g


LEMMA ChunkCount ==
  ASSUME NEW c \in Classes
  PROVE  \E k \in Nat \ {0} : ChunkSlots = k * SlabSizes[c] /\ ChunkSlots \div SlabSizes[c] = k
<1> DEFINE d == SlabSizes[c]
<1>1. d \in Nat \ {0} /\ ChunkSlots \in Nat \ {0} /\ ChunkSlots % d = 0
  BY Constants, FrontierAssumption, SlabPoolAssumption
<1> HIDE DEF d
<1>2. PICK q \in Nat, r \in 0 .. d - 1 :
        ChunkSlots \div d = q /\ ChunkSlots % d = r /\ ChunkSlots = q * d + r
  BY <1>1, Division
<1>3. r = 0 /\ q * d \in Nat
  BY <1>1, <1>2, Products
<1>4. ChunkSlots = q * d
  BY <1>1, <1>2, <1>3
<1>5. q # 0
  <2>1. 0 * d = 0
    BY <1>1
  <2>2. QED
    BY <1>1, <1>4, <2>1
<1>6. QED
  BY <1>2, <1>4, <1>5 DEF d

(* The blocks of a chunk that are linked to the next one.                  *)
Inner(lo, d, k) == {lo + i * d : i \in 1 .. k - 2}

(* The chain of all blocks of a chunk but the first, from the bottom up.   *)
ChunkChain(s, lo, d, k, links) ==
  /\ s \in Seq(Slots) /\ Len(s) = k - 1 /\ Distinct(s)
  /\ ToSet(s) = {BlockAt(lo, d, i) : i \in 1 .. k - 1}
  /\ s[1] = BlockAt(lo, d, k - 1) /\ s[Len(s)] = BlockAt(lo, d, 1)
  /\ \A n \in 2 .. Len(s) : links[s[n]] = s[n - 1]

LEMMA ChainOfChunk ==
  ASSUME NEW lo \in Nat, NEW d \in Nat \ {0}, NEW k \in Nat, k >= 2, lo + k * d <= Total,
         NEW links, \A b \in Slots : b \in Inner(lo, d, k) => links[b] = b + d
  PROVE  \E s \in Seq(Slots) : ChunkChain(s, lo, d, k, links)
<1> DEFINE At(i) == BlockAt(lo, d, i)
           s == [n \in 1 .. k - 1 |-> At(k - n)]
<1>1. ChunkOK(lo, d, k)
  BY ChunkIs
<1>2. /\ \A i \in 0 .. k : At(i) \in Nat
      /\ \A i \in 0 .. k - 1 : At(i) + d = At(i + 1)
      /\ \A i, j \in 0 .. k : i < j => At(i) + d <= At(j)
      /\ At(k) <= Total /\ Total \in Nat
  BY <1>1, FrontierAssumption DEF ChunkOK
<1>3. \A i \in 0 .. k - 1 : At(i) \in Slots
  <2>1. ASSUME NEW i \in 0 .. k - 1 PROVE At(i) \in Slots
    <3>1. At(i) + d <= At(k) /\ At(i) \in Nat /\ At(k) \in Nat
      BY <1>2
    <3>2. QED
      BY <1>2, <3>1 DEF Slots
  <2>2. QED
    BY <2>1
<1>4. \A i, j \in 0 .. k - 1 : At(i) = At(j) => i = j
  <2>1. ASSUME NEW i \in 0 .. k - 1, NEW j \in 0 .. k - 1, i < j PROVE At(i) # At(j)
    <3>1. At(i) + d <= At(j) /\ At(i) \in Nat /\ At(j) \in Nat
      BY <1>2, <2>1
    <3>2. QED
      BY <3>1
  <2>2. QED
    BY <2>1
<1>5. \A i \in 1 .. k - 2 : At(i) \in Inner(lo, d, k)
  BY DEF BlockAt, Inner
<1> HIDE DEF At
<1>6. \A n \in 1 .. k - 1 : k - n \in 0 .. k - 1 /\ k - n \in 1 .. k - 1
  OBVIOUS
<1>7. s \in [1 .. k - 1 -> Slots]
  BY <1>3, <1>6
<1>8. s \in Seq(Slots) /\ Len(s) = k - 1 /\ \A n \in 1 .. k - 1 : s[n] = At(k - n)
  BY <1>7
<1> HIDE DEF s
<1>9. Distinct(s)
  BY <1>4, <1>6, <1>8 DEF Distinct
<1>10. ToSet(s) = {At(i) : i \in 1 .. k - 1}
  <2>1. ASSUME NEW i \in 1 .. k - 1 PROVE At(i) \in ToSet(s)
    <3>1. k - i \in 1 .. Len(s) /\ k - (k - i) = i
      BY <1>8
    <3>2. s[k - i] = At(i)
      BY <1>8, <3>1
    <3>3. QED
      BY <1>8, <3>1, <3>2, ToSetIs
  <2>2. ASSUME NEW b \in ToSet(s) PROVE b \in {At(i) : i \in 1 .. k - 1}
    <3>1. PICK n \in 1 .. Len(s) : s[n] = b
      BY <1>8, ToSetIs
    <3>2. QED
      BY <1>6, <1>8, <3>1
  <2>3. QED
    BY <2>1, <2>2
<1>11. s[1] = At(k - 1) /\ s[Len(s)] = At(1)
  <2>1. 1 \in 1 .. k - 1 /\ k - 1 \in 1 .. k - 1 /\ k - (k - 1) = 1
    OBVIOUS
  <2>2. QED
    BY <1>8, <2>1
<1>12. ASSUME NEW n \in 2 .. Len(s) PROVE links[s[n]] = s[n - 1]
  <2>1. /\ n \in 1 .. k - 1 /\ n - 1 \in 1 .. k - 1 /\ k - n \in 1 .. k - 2 /\ k - n \in 0 .. k - 1
        /\ k - (n - 1) = (k - n) + 1
    BY <1>8
  <2>2. s[n] = At(k - n) /\ s[n - 1] = At((k - n) + 1)
    BY <1>8, <2>1
  <2>3. At(k - n) \in Inner(lo, d, k) /\ At(k - n) \in Slots /\ At(k - n) + d = At((k - n) + 1)
    BY <1>2, <1>3, <1>5, <2>1
  <2>4. QED
    BY <2>2, <2>3
<1>13. ChunkChain(s, lo, d, k, links)
  BY <1>8, <1>9, <1>10, <1>11, <1>12 DEF ChunkChain, At
<1>14. QED
  BY <1>8, <1>13

(* Where the blocks of the chunk lie.                                      *)
ChunkAt(lo, d, k) ==
  /\ lo \in Nat /\ lo \in Slots /\ lo \in ChunkBlocks(lo, d, k) /\ lo + k * d <= Total
  /\ \A b \in ChunkBlocks(lo, d, k) : b \in Slots /\ lo <= b /\ b < lo + ChunkSlots
  /\ \A b \in Inner(lo, d, k) : b \in ChunkBlocks(lo, d, k) /\ b + d \in Slots
  /\ lo + ChunkSlots - d = BlockAt(lo, d, k - 1) /\ lo + d = BlockAt(lo, d, 1)
  /\ lo + ChunkSlots - d = lo <=> k = 1
  /\ \A b : b \in ChunkBlocks(lo, d, k) <=>
              b = lo \/ b \in {BlockAt(lo, d, i) : i \in 1 .. k - 1}
  /\ lo \notin {BlockAt(lo, d, i) : i \in 1 .. k - 1}

LEMMA ChunkLies ==
  ASSUME NEW f, FrontierOK(f), CanCarve(f), NEW d \in Nat \ {0}, NEW k \in Nat \ {0},
         ChunkSlots = k * d
  PROVE  ChunkAt(f.lo, d, k)
<1> DEFINE lo == f.lo
           At(i) == BlockAt(lo, d, i)
<1>1. /\ lo \in Nat /\ lo + ChunkSlots <= Total /\ ChunkSlots \in Nat /\ Total \in Nat
  BY CarveKeeps, FrontierAssumption DEF FrontierOK
<1>2. ChunkOK(lo, d, k)
  BY <1>1, ChunkIs
<1> HIDE DEF lo
<1>3. /\ At(0) = lo /\ At(k) = lo + ChunkSlots
      /\ \A i \in 0 .. k : At(i) \in Nat /\ lo <= At(i)
      /\ \A i \in 0 .. k - 1 : At(i) + d = At(i + 1)
      /\ \A i, j \in 0 .. k : i < j => At(i) + d <= At(j)
  BY <1>2 DEF ChunkOK
<1>4. 1 * d = d /\ At(1) = lo + d
  <2>1. 1 * d = d
    OBVIOUS
  <2>2. QED
    BY <2>1 DEF BlockAt
<1>5. ChunkBlocks(lo, d, k) = {At(i) : i \in 0 .. k - 1}
  BY DEF ChunkBlocks
<1>6. Inner(lo, d, k) = {At(i) : i \in 1 .. k - 2}
  BY DEF Inner, BlockAt
<1> HIDE DEF At
<1>7. ASSUME NEW i \in 0 .. k - 1
      PROVE  At(i) \in Slots /\ lo <= At(i) /\ At(i) < lo + ChunkSlots /\ (i # 0 => lo < At(i))
  <2>1. At(i) \in Nat /\ At(k) \in Nat /\ At(i) + d <= At(k) /\ lo <= At(i)
    BY <1>3
  <2>2. i # 0 => At(0) + d <= At(i)
    BY <1>3
  <2>3. QED
    BY <1>1, <1>3, <2>1, <2>2 DEF Slots
<1>8. lo \in Slots /\ lo \in ChunkBlocks(lo, d, k)
  BY <1>3, <1>5, <1>7
<1>9. \A b \in ChunkBlocks(lo, d, k) : b \in Slots /\ lo <= b /\ b < lo + ChunkSlots
  BY <1>5, <1>7
<1>10. ASSUME NEW i \in 1 .. k - 2 PROVE At(i) \in ChunkBlocks(lo, d, k) /\ At(i) + d \in Slots
  <2>1. i \in 0 .. k - 1 /\ i + 1 \in 0 .. k - 1
    OBVIOUS
  <2>2. QED
    BY <1>3, <1>5, <1>7, <2>1
<1>11. \A b \in Inner(lo, d, k) : b \in ChunkBlocks(lo, d, k) /\ b + d \in Slots
  BY <1>6, <1>10
<1>12. lo + ChunkSlots - d = At(k - 1)
  <2>1. k - 1 \in 0 .. k - 1 /\ (k - 1) + 1 = k /\ k - 1 \in 0 .. k
    OBVIOUS
  <2>2. At(k - 1) + d = At(k) /\ At(k - 1) \in Nat
    BY <1>3, <2>1
  <2>3. QED
    BY <1>1, <1>3, <2>2
<1>13. lo + ChunkSlots - d = lo <=> k = 1
  <2>1. CASE k = 1
    BY <1>3, <1>12, <2>1
  <2>2. CASE k # 1
    <3>1. k - 1 \in 0 .. k - 1 /\ k - 1 # 0
      BY <2>2
    <3>2. lo < At(k - 1)
      BY <1>7, <3>1
    <3>3. QED
      BY <1>1, <1>12, <2>2, <3>2
  <2>3. QED
    BY <2>1, <2>2
<1>14. \A b : b \in ChunkBlocks(lo, d, k) <=> b = lo \/ b \in {At(i) : i \in 1 .. k - 1}
  <2>1. \A i \in 0 .. k - 1 : i = 0 \/ i \in 1 .. k - 1
    OBVIOUS
  <2>2. \A i \in 1 .. k - 1 : i \in 0 .. k - 1
    OBVIOUS
  <2>3. QED
    BY <1>3, <1>5, <1>8, <2>1, <2>2
<1>15. lo \notin {At(i) : i \in 1 .. k - 1}
  <2>1. ASSUME NEW i \in 1 .. k - 1 PROVE At(i) # lo
    <3>1. i \in 0 .. k - 1 /\ i # 0
      OBVIOUS
    <3>2. lo < At(i)
      BY <1>7, <3>1
    <3>3. QED
      BY <1>1, <3>2
  <2>2. QED
    BY <2>1
<1>16. lo + k * d <= Total
  BY <1>1
<1>17. QED
  BY <1>1, <1>4, <1>8, <1>9, <1>11, <1>12, <1>13, <1>14, <1>15, <1>16 DEF lo, At, ChunkAt

(* The owners and classes after a chunk was carved: its first block is for *)
(* the caller, the others are the chain.                                   *)
CarvedOwn(own, t, lo, B, g) ==
  [b \in Slots |-> IF b = lo THEN g ELSE IF b \in B THEN ChainTag(t) ELSE own[b]]
CarvedCls(cls, B, c) == [b \in Slots |-> IF b \in B THEN c ELSE cls[b]]

(* What both cases of carve have in common.                                *)
CarveWrites(t, k, g) ==
  LET c == th[t].class
      lo == frontier.lo
      d == SlabSizes[c]
  IN /\ frontier' = CarveChunk(frontier) /\ live' = live /\ cache' = cache
     /\ \A b \in Slots : next'[b] = IF b \in Inner(lo, d, k) THEN b + d ELSE next[b]
     /\ \A b \in Slots : side'[b] = IF b = lo /\ g = GotTag(t) THEN c ELSE side[b]

CarveCall(t, k, call) ==
  /\ call.op = th[t].op /\ call.class = th[t].class /\ call.todo = << >>
  /\ call.addr = th[t].addr /\ call.list = th[t].class /\ call.got = frontier.lo
  /\ call.first = None <=> k = 1
  /\ CallOK(call, cache[t]) /\ CasOK(call, head, next')

CarveChain(t, k, call, chn) ==
  /\ ChainOK(chn, next', call) /\ Distinct(chn)
  /\ ToSet(chn) = {BlockAt(frontier.lo, SlabSizes[th[t].class], i) : i \in 1 .. k - 1}

LEMMA ChunkStep ==
  ASSUME IInv, NEW t \in Threads, th[t].pc = "carve", CanCarve(frontier),
         NEW own, NEW cls, NEW stk \in [Classes -> Seq(Slots)],
         NEW chain \in [Threads -> Seq(Slots)], Blocked(own, cls, stk, chain),
         NEW g \in {GotTag(t), NewTag(t)}, NEW call, Moves(t, call),
         NEW k \in Nat \ {0}, ChunkSlots = k * SlabSizes[th[t].class],
         CarveWrites(t, k, g), k = 1 <=> g = GotTag(t), CarveCall(t, k, call),
         NEW chn \in Seq(Slots), CarveChain(t, k, call, chn)
  PROVE  IInv'
<1> USE DEF CarveWrites, CarveCall, CarveChain
<1> DEFINE c == th[t].class
           d == SlabSizes[c]
           lo == frontier.lo
           B == ChunkBlocks(lo, d, k)
           own2 == CarvedOwn(own, t, lo, B, g)
           cls2 == CarvedCls(cls, B, c)
<1>1. /\ TypesInv /\ FrontierOK(frontier) /\ th[t] \in Calls /\ CallOK(th[t], cache[t])
      /\ CacheOK(cache[t], epoch)
  BY CallFacts DEF TypesInv
<1>2. /\ c \in Classes /\ th[t].list = c /\ th[t].todo = << >> /\ th[t].got = None
      /\ th[t].first = None /\ th[t].op = "allocate"
  BY <1>1 DEF CallOK, Refilling
<1>3. /\ own \in [Slots -> Tags] /\ cls \in [Slots -> Classes \cup {LARGE}]
      /\ HoldsSet(own, LiveTag, live) /\ SideOK(own, cls, side) /\ Layout(own, cls, frontier)
      /\ ThreadOK(own, cls, t, chain[t], cache[t], th[t], head, next)
  BY DEF Blocked
<1>4. d \in Nat \ {0} /\ c # None /\ c \in Nat
  BY <1>2, Constants
<1>5. /\ lo \in Nat /\ lo \in Slots /\ lo \in B
      /\ \A b \in B : b \in Slots /\ lo <= b /\ b < lo + ChunkSlots
      /\ \A b \in Inner(lo, d, k) : b \in B
      /\ \A b : b \in B <=> b = lo \/ b \in ToSet(chn)
      /\ lo \notin ToSet(chn)
  <2>1. ChunkAt(lo, d, k)
    BY <1>1, <1>4, ChunkLies
  <2>2. QED
    BY <2>1 DEF ChunkAt
<1>6. \A b \in B : own[b] = NoTag
  BY <1>1, <1>3, <1>5, ChunkIsFree
<1>7. /\ \A b \in Slots : /\ own[b] # ChainTag(t) /\ own[b] # NewTag(t) /\ own[b] # GotTag(t)
                          /\ own[b] = AddrTag(t) <=> b = th[t].addr
      /\ Holds(own, TodoTag(t), << >>)
      /\ OwnClasses(own, cls, t, th[t])
      /\ \A e \in Classes : Holds(own, BinTag(t, e), BinOf(cache[t], e))
  BY <1>2, <1>3, OwnedBy, Constants
<1> HIDE DEF c, d, lo, B
<1>8. g \in Tags /\ ChainTag(t) \in Tags /\ g # NoTag /\ ChainTag(t) # NoTag
  BY TagsAre, TagsDiffer
<1>9. /\ own2 \in [Slots -> Tags]
      /\ \A b \in Slots :
           own2[b] = IF b = lo THEN g ELSE IF b \in B THEN ChainTag(t) ELSE own[b]
  BY <1>3, <1>8 DEF CarvedOwn
<1>10. /\ cls2 \in [Slots -> Classes \cup {LARGE}]
       /\ \A b \in Slots : cls2[b] = IF b \in B THEN c ELSE cls[b]
  BY <1>2, <1>3 DEF CarvedCls
<1> HIDE DEF own2, cls2
<1>11. Layout(own2, cls2, frontier')
  <2>1. Carved(own, own2, cls, cls2, B, c)
    BY <1>5, <1>8, <1>9, <1>10 DEF Carved
  <2>2. QED
    BY <1>1, <1>2, <1>3, <2>1, CarvedLayout DEF B, d, c, lo
<1>12. HoldsSet(own2, LiveTag, live')
  BY <1>3, <1>5, <1>6, <1>9, TagsDiffer DEF HoldsSet
<1>13. SideOK(own2, cls2, side')
  <2>1. ASSUME NEW b \in Slots PROVE side'[b] = IF Out(own2[b]) THEN cls2[b] ELSE None
    <3>1. side[b] = IF Out(own[b]) THEN cls[b] ELSE None
      BY <1>3 DEF SideOK
    <3>2. CASE b = lo
      <4>1. own2[b] = g /\ cls2[b] = c /\ side[b] = None
        BY <1>5, <1>6, <1>9, <1>10, <3>1, <3>2, OutIs
      <4>2. side'[b] = IF g = GotTag(t) THEN c ELSE side[b]
        BY <3>2 DEF c, lo
      <4>3. CASE g = GotTag(t)
        BY <4>1, <4>2, <4>3, OutIs
      <4>4. CASE g # GotTag(t)
        <5>1. g = NewTag(t)
          BY <4>4
        <5>2. QED
          BY <4>1, <4>2, <4>4, <5>1, OutIs
      <4>5. QED
        BY <4>3, <4>4
    <3>3. CASE b # lo
      <4>1. side'[b] = side[b]
        BY <3>3 DEF lo
      <4>2. CASE b \in B
        BY <1>6, <1>9, <3>1, <3>3, <4>1, <4>2, OutIs
      <4>3. CASE b \notin B
        BY <1>9, <1>10, <3>1, <3>3, <4>1, <4>3
      <4>4. QED
        BY <4>2, <4>3
    <3>4. QED
      BY <3>2, <3>3
  <2>2. QED
    BY <2>1 DEF SideOK
<1>14. Moved(own, own2, cls, cls2, t)
  <2>1. \A b \in Slots : b \notin B => next'[b] = next[b]
    BY <1>5 DEF lo, d, c
  <2>2. \A b \in B : Mine(own[b], t)
    BY <1>6, MineIs
  <2>3. Mine(g, t) /\ Mine(ChainTag(t), t)
    BY MineIs
  <2>4. QED
    BY <1>5, <1>9, <1>10, <2>1, <2>2, <2>3 DEF Moved
<1>15. Holds(own2, ChainTag(t), chn)
  <2>1. g # ChainTag(t)
    BY TagsDiffer
  <2>2. ASSUME NEW b \in Slots PROVE own2[b] = ChainTag(t) <=> b \in ToSet(chn)
    <3>1. CASE b = lo
      BY <1>5, <1>9, <2>1, <3>1
    <3>2. CASE b # lo /\ b \in B
      BY <1>5, <1>9, <3>2
    <3>3. CASE b \notin B
      <4>1. own2[b] = own[b] /\ own[b] # ChainTag(t) /\ b \notin ToSet(chn)
        BY <1>5, <1>7, <1>9, <3>3
      <4>2. QED
        BY <4>1
    <3>4. QED
      BY <3>1, <3>2, <3>3
  <2>3. QED
    BY <2>2 DEF Holds, HoldsSet
<1>16. \A b \in Slots : /\ own2[b] = GotTag(t) <=> g = GotTag(t) /\ b = lo
                        /\ own2[b] = NewTag(t) <=> g = NewTag(t) /\ b = lo
  BY <1>5, <1>7, <1>9, TagsDiffer
<1>17. \A b \in Slots : /\ own2[b] = AddrTag(t) <=> own[b] = AddrTag(t)
                        /\ own2[b] = TodoTag(t) <=> own[b] = TodoTag(t)
                        /\ \A e \in Classes : own2[b] = BinTag(t, e) <=> own[b] = BinTag(t, e)
  BY <1>5, <1>6, <1>9, TagsDiffer
<1>18. Owns(own2, t, chn, cache[t], call)
  <2>1. HoldsSet(own2, GotTag(t), IF call.first = None THEN {call.got} ELSE {})
    BY <1>16, TagsDiffer DEF HoldsSet, lo
  <2>2. HoldsSet(own2, NewTag(t), IF call.first = None THEN {} ELSE {call.got})
    BY <1>16, TagsDiffer DEF HoldsSet, lo
  <2>3. HoldsSet(own2, AddrTag(t), {call.addr})
    BY <1>7, <1>17 DEF HoldsSet
  <2>4. Holds(own2, TodoTag(t), call.todo)
    BY <1>7, <1>17, HoldsStays
  <2>5. ASSUME NEW e \in Classes PROVE Holds(own2, BinTag(t, e), BinOf(cache[t], e))
    BY <1>7, <1>17, HoldsStays
  <2>6. QED
    BY <1>15, <2>1, <2>2, <2>3, <2>4, <2>5 DEF Owns
<1>19. OwnClasses(own2, cls2, t, call)
  <2> SUFFICES ASSUME NEW b \in Slots
               PROVE /\ own2[b] = ChainTag(t) => cls2[b] = call.list
                     /\ own2[b] \in {GotTag(t), NewTag(t)} => cls2[b] = call.class
                     /\ own2[b] = TodoTag(t) => cls2[b] \in Classes
                     /\ own2[b] = AddrTag(t) => CASE call.op = "free" -> cls2[b] = call.class
                                                  [] call.op = "allocate" -> cls2[b] \in Classes
                                                  [] OTHER -> TRUE
                     /\ \A e \in Classes : own2[b] = BinTag(t, e) => cls2[b] = e
    BY DEF OwnClasses
  <2>1. CASE b \in B
    <3>1. own2[b] \in {g, ChainTag(t)} /\ cls2[b] = c
      BY <1>9, <1>10, <2>1
    <3>2. call.list = c /\ call.class = c
      BY DEF c
    <3>3. QED
      BY <3>1, <3>2, TagsDiffer
  <2>2. CASE b \notin B
    <3>1. own2[b] = own[b] /\ cls2[b] = cls[b]
      BY <1>5, <1>9, <1>10, <2>2
    <3>2. /\ own[b] = TodoTag(t) => cls[b] \in Classes
          /\ own[b] = AddrTag(t) => CASE th[t].op = "free" -> cls[b] = th[t].class
                                      [] th[t].op = "allocate" -> cls[b] \in Classes
                                      [] OTHER -> TRUE
          /\ \A e \in Classes : own[b] = BinTag(t, e) => cls[b] = e
      BY <1>7 DEF OwnClasses
    <3>3. QED
      BY <1>7, <3>1, <3>2
  <2>3. QED
    BY <2>1, <2>2
<1>20. ThreadOK(own2, cls2, t, chn, cache'[t], call, head, next')
  BY <1>18, <1>19 DEF ThreadOK
<1>21. QED
  BY <1>9, <1>10, <1>11, <1>12, <1>13, <1>14, <1>20, MoveStep

LEMMA ChunkKeeps ==
  ASSUME IInv, NEW t \in Threads, Carve(t)
  PROVE  IInv'
<1> DEFINE c == th[t].class
           d == SlabSizes[c]
           lo == frontier.lo
           last == lo + ChunkSlots - d
           inner == {lo + i * d : i \in 1 .. ChunkSlots \div d - 2}
           alone == [th[t] EXCEPT !.pc = "pop", !.got = lo]
           chained == [th[t] EXCEPT !.pc = "push", !.got = lo, !.first = lo + d, !.last = last]
<1>1. /\ th[t].pc = "carve" /\ CanCarve(frontier) /\ frontier' = CarveChunk(frontier)
      /\ next' = [b \in Slots |-> IF b \in inner THEN b + d ELSE next[b]]
      /\ UNCHANGED <<head, cache, epoch, live, pool>>
  BY DEF Carve
<1>2. last = lo => side' = [side EXCEPT ![lo] = c] /\ th' = [th EXCEPT ![t] = alone]
  BY DEF Carve, Recorded, Step
<1>3. last # lo => side' = side /\ th' = [th EXCEPT ![t] = chained]
  BY DEF Carve, Recorded, Step
<1>4. /\ pool = "mapped" /\ TypesInv /\ FrontierOK(frontier) /\ th[t] \in Calls
      /\ CallOK(th[t], cache[t]) /\ CacheOK(cache[t], epoch) /\ CasOK(th[t], head, next)
  BY <1>1, CallFacts DEF TypesInv
<1>5. /\ c \in Classes /\ th[t].list = c /\ th[t].todo = << >> /\ th[t].got = None
      /\ th[t].first = None /\ th[t].op = "allocate" /\ th[t].extras = 0
      /\ th[t].fresh # TRUE /\ Refilling(th[t], cache[t])
  BY <1>1, <1>4 DEF CallOK, Refilling, CasOK
<1>6. d \in Nat \ {0} /\ c # None
  BY <1>5, Constants
<1>7. PICK k \in Nat \ {0} : ChunkSlots = k * d /\ ChunkSlots \div d = k
  BY <1>5, ChunkCount
<1>8. inner = Inner(lo, d, k)
  BY <1>7 DEF Inner
<1>30. ChunkSlots = k * d
  BY <1>7
<1>9. /\ lo \in Nat /\ lo \in Slots /\ lo + k * d <= Total
      /\ \A b \in ChunkBlocks(lo, d, k) : b \in Slots
      /\ \A b \in Inner(lo, d, k) : b + d \in Slots
      /\ last = BlockAt(lo, d, k - 1) /\ lo + d = BlockAt(lo, d, 1)
      /\ last = lo <=> k = 1
      /\ \A b : b \in ChunkBlocks(lo, d, k) <=>
                  b = lo \/ b \in {BlockAt(lo, d, i) : i \in 1 .. k - 1}
  <2>1. ChunkAt(lo, d, k)
    BY <1>1, <1>4, <1>6, <1>30, ChunkLies
  <2> HIDE DEF d, lo
  <2>2. QED
    BY <2>1 DEF ChunkAt
<1>10. PICK own, cls :
        \E stk \in [Classes -> Seq(Slots)], chain \in [Threads -> Seq(Slots)] :
          Blocked(own, cls, stk, chain)
  BY <1>4 DEF IInv
<1>11. PICK stk \in [Classes -> Seq(Slots)], chain \in [Threads -> Seq(Slots)] :
         Blocked(own, cls, stk, chain)
  BY <1>10
<1>12. FrontierOK(frontier')
  BY <1>1, <1>4, CarveKeeps
<1> HIDE DEF c, d, lo, last, inner
<1>13. /\ next' \in [Slots -> Maybe]
       /\ \A b \in Slots : next'[b] = IF b \in Inner(lo, d, k) THEN b + d ELSE next[b]
  <2>1. next \in [Slots -> Maybe]
    BY <1>4 DEF TypesInv
  <2>2. QED
    BY <1>1, <1>8, <1>9, <2>1 DEF Maybe
<1>14. CASE k = 1
  <2>1. side' = [side EXCEPT ![lo] = c] /\ th' = [th EXCEPT ![t] = alone]
    BY <1>2, <1>9, <1>14
  <2>2. /\ alone \in Calls /\ alone.pc = "pop" /\ alone.op = th[t].op /\ alone.class = c
        /\ alone.todo = << >> /\ alone.addr = th[t].addr /\ alone.list = c /\ alone.got = lo
        /\ alone.first = None /\ alone.extras = 0 /\ alone.fresh = th[t].fresh
    BY <1>4, <1>5, <1>9 DEF Calls, PCs, Maybe, c
  <2> HIDE DEF alone
  <2>3. Refilling(alone, cache[t])
    BY <1>5, <2>2 DEF Refilling, c
  <2>4. lo # None
    BY <1>9, Constants
  <2>5. CallOK(alone, cache[t]) /\ CasOK(alone, head, next') /\ Goes(t, alone)
    BY <1>4, <1>5, <2>1, <2>2, <2>3, <2>4 DEF CallOK, CasOK, Goes
  <2>6. /\ side' \in [Slots -> Classes \cup {LARGE, None}]
        /\ \A b \in Slots : side'[b] = IF b = lo THEN c ELSE side[b]
    BY <1>4, <1>5, <1>9, <2>1 DEF TypesInv
  <2>7. Moves(t, alone)
    <3>1. EpochNext
      BY <1>1, <2>5, GoesEpoch
    <3>2. QED
      BY <1>1, <1>4, <1>12, <1>13, <2>1, <2>2, <2>6, <3>1 DEF Moves, TypesInv
  <2>8. /\ << >> \in Seq(Slots) /\ ChainOK(<< >>, next', alone) /\ Distinct(<< >>)
    BY <2>2 DEF ChainOK, Distinct
  <2>9. ToSet(<< >>) = {BlockAt(lo, d, i) : i \in 1 .. k - 1}
    <3>1. 1 .. k - 1 = {}
      BY <1>14
    <3>2. ToSet(<< >>) = {}
      BY DEF ToSet
    <3>3. QED
      BY <3>1, <3>2
  <2> DEFINE g == GotTag(t)
  <2>10. g \in {GotTag(t), NewTag(t)} /\ (k = 1 <=> g = GotTag(t))
    BY <1>14
  <2>11. \A b \in Slots : side'[b] = IF b = lo /\ g = GotTag(t) THEN c ELSE side[b]
    BY <2>6
  <2> HIDE DEF g
  <2>12. alone.first = None <=> k = 1
    BY <1>14, <2>2
  <2>13. CarveWrites(t, k, g)
    BY <1>1, <1>13, <2>11 DEF CarveWrites, c, d, lo
  <2>14. CarveCall(t, k, alone)
    BY <2>2, <2>5, <2>12 DEF CarveCall, c, lo
  <2>15. CarveChain(t, k, alone, << >>)
    BY <2>8, <2>9 DEF CarveChain, c, d, lo
  <2>16. ChunkSlots = k * SlabSizes[th[t].class]
    BY <1>30 DEF c, d
  <2>17. QED
    BY <1>1, <1>11, <2>7, <2>8, <2>10, <2>13, <2>14, <2>15, <2>16, ChunkStep
<1>15. CASE k # 1
  <2>1. side' = side /\ th' = [th EXCEPT ![t] = chained]
    BY <1>3, <1>9, <1>15
  <2>2. k >= 2 /\ 1 \in 1 .. k - 1 /\ k - 1 \in 1 .. k - 1 /\ k \in Nat
    BY <1>15
  <2>3. lo + d \in Slots /\ last \in Slots /\ lo # None /\ lo + d # None
    <3>1. lo + d \in ChunkBlocks(lo, d, k) /\ last \in ChunkBlocks(lo, d, k)
      BY <1>9, <2>2
    <3>2. QED
      BY <1>9, <3>1, Constants
  <2>4. /\ chained \in Calls /\ chained.pc = "push" /\ chained.op = th[t].op /\ chained.class = c
        /\ chained.todo = << >> /\ chained.addr = th[t].addr /\ chained.list = c
        /\ chained.got = lo /\ chained.first = lo + d /\ chained.last = last
        /\ chained.extras = 0 /\ chained.fresh = th[t].fresh
    BY <1>4, <1>5, <1>9, <2>3 DEF Calls, PCs, Maybe, c
  <2> HIDE DEF chained
  <2>5. Refilling(chained, cache[t])
    BY <1>5, <2>4 DEF Refilling, c
  <2>6. CallOK(chained, cache[t]) /\ CasOK(chained, head, next') /\ Goes(t, chained)
    BY <1>4, <1>5, <2>1, <2>3, <2>4, <2>5 DEF CallOK, CasOK, Goes
  <2>7. Moves(t, chained)
    <3>1. EpochNext
      BY <1>1, <2>6, GoesEpoch
    <3>2. QED
      BY <1>1, <1>4, <1>12, <1>13, <2>1, <2>4, <3>1 DEF Moves, TypesInv
  <2>8. PICK s \in Seq(Slots) : ChunkChain(s, lo, d, k, next')
    <3>1. \A b \in Slots : b \in Inner(lo, d, k) => next'[b] = b + d
      BY <1>13
    <3>2. QED
      BY <1>6, <1>9, <2>2, <3>1, ChainOfChunk
  <2>9. /\ Distinct(s) /\ ToSet(s) = {BlockAt(lo, d, i) : i \in 1 .. k - 1}
        /\ s[1] = last /\ s[Len(s)] = lo + d /\ Len(s) = k - 1
        /\ \A n \in 2 .. Len(s) : next'[s[n]] = s[n - 1]
    BY <1>9, <2>8 DEF ChunkChain
  <2>10. ToSet(s) = {b \in lo + d .. last : (b - (lo + d)) % d = 0}
    <3>1. {b \in BlockAt(lo, d, 1) .. BlockAt(lo, d, k - 1) : (b - BlockAt(lo, d, 1)) % d = 0}
            = {BlockAt(lo, d, i) : i \in 1 .. k - 1}
      BY <1>6, <1>9, <2>2, ChainBlocks
    <3>2. QED
      BY <1>9, <2>9, <3>1
  <2>11. ChainOK(s, next', chained)
    <3>1. s # << >>
      BY <2>2, <2>9, ToSetIs
    <3>2. last # None
      BY <2>3, Constants
    <3>3. SlabSizes[chained.list] = d
      BY <2>4 DEF d
    <3>4. QED
      BY <1>6, <2>3, <2>4, <2>9, <2>10, <3>1, <3>2, <3>3 DEF ChainOK
  <2> DEFINE g == NewTag(t)
  <2>12. g \in {GotTag(t), NewTag(t)} /\ (k = 1 <=> g = GotTag(t))
    BY <1>15, TagsDiffer
  <2>13. \A b \in Slots : side'[b] = IF b = lo /\ g = GotTag(t) THEN c ELSE side[b]
    BY <2>1, TagsDiffer
  <2> HIDE DEF g
  <2>14. chained.first = None <=> k = 1
    BY <1>15, <2>3, <2>4
  <2>15. CarveWrites(t, k, g)
    BY <1>1, <1>13, <2>13 DEF CarveWrites, c, d, lo
  <2>16. CarveCall(t, k, chained)
    BY <2>4, <2>6, <2>14 DEF CarveCall, c, lo
  <2>17. CarveChain(t, k, chained, s)
    BY <2>9, <2>11 DEF CarveChain, c, d, lo
  <2>18. ChunkSlots = k * SlabSizes[th[t].class]
    BY <1>30 DEF c, d
  <2>19. QED
    BY <1>1, <1>11, <2>7, <2>8, <2>12, <2>15, <2>16, <2>17, <2>18, ChunkStep
<1>16. QED
  BY <1>14, <1>15

-----------------------------------------------------------------------------
(* The invariant holds at first and is kept.                               *)

LEMMA EmptyFrontierOK ==
  FrontierOK(EmptyFrontier) /\ Runs(EmptyFrontier) = {} /\ EmptyFrontier.lo = 0
<1> DEFINE f == EmptyFrontier
<1>1. /\ NUnits \in Nat /\ ChunkSlots \in Nat \ {0} /\ Total \in Nat
  BY UnitFacts, FrontierAssumption
<1>2. /\ f.lo = 0 /\ f.hi = NUnits /\ \A u \in Units : f.units[u] = FREE
  BY DEF EmptyFrontier
<1>3. f \in Frontiers /\ f.units \in [Units -> 0 .. INTERIOR]
  BY <1>1 DEF EmptyFrontier, Frontiers, INTERIOR, FREE
<1> HIDE DEF f
<1>4. FREE # INTERIOR
  BY <1>1 DEF FREE, INTERIOR
<1>5. RunsOf(f.units) = {} /\ Runs(f) = {}
  BY <1>2 DEF RunsOf, Runs
<1>6. RunsOK(f.units)
  BY <1>2, <1>3, <1>4, <1>5 DEF RunsOK
<1>7. f.lo % ChunkSlots = 0
  <2>1. (0 * ChunkSlots) % ChunkSlots = 0 /\ 0 * ChunkSlots = 0
    BY <1>1, ExactQuotient
  <2>2. QED
    BY <1>2, <2>1
<1>8. f.lo <= Total /\ ~(f.hi < NUnits)
  BY <1>1, <1>2
<1>9. FrontierOK(f)
  BY <1>2, <1>3, <1>6, <1>7, <1>8, FrontierParts
<1>10. QED
  BY <1>2, <1>5, <1>9 DEF f

LEMMA InitHolds ==
  ASSUME Init
  PROVE  IInv
<1> DEFINE own == [b \in Slots |-> NoTag]
           cls == [b \in Slots |-> LARGE]
           stk == [c \in Classes |-> << >>]
           chain == [t \in Threads |-> << >>]
<1>1. /\ frontier = EmptyFrontier /\ head = [c \in Classes |-> None] /\ next = [b \in Slots |-> None]
      /\ side = [b \in Slots |-> None] /\ cache = [t \in Threads |-> None] /\ epoch = 0
      /\ live = {} /\ pool = "mapped" /\ th = [t \in Threads |-> Idle]
  BY DEF Init
<1>2. TypesInv
  <2>1. \A t \in Threads : CacheOK(cache[t], epoch)
    BY <1>1 DEF CacheOK
  <2>2. QED
    BY <1>1, <2>1, EmptyFrontierOK, IdleIsCall DEF TypesInv, Maybe
<1>3. EpochInv
  <2>1. \A t \in Threads : th[t].op # "flush"
    BY <1>1, IdleIs
  <2>2. Flushing = {}
    BY <2>1 DEF Flushing
  <2>3. Cardinality(Flushing) = 0
    BY <2>2, FS_EmptySet
  <2>4. QED
    BY <1>1, <2>3, SlabPoolAssumption DEF EpochInv
<1>4. own \in [Slots -> Tags] /\ \A b \in Slots : own[b] = NoTag
  BY TagsAre
<1>5. cls \in [Slots -> Classes \cup {LARGE}]
  OBVIOUS
<1>6. /\ stk \in [Classes -> Seq(Slots)] /\ chain \in [Threads -> Seq(Slots)]
      /\ \A c \in Classes : stk[c] = << >>
      /\ \A t \in Threads : chain[t] = << >>
  OBVIOUS
<1> HIDE DEF own, cls, stk, chain
<1>7. HoldsSet(own, LiveTag, live)
  BY <1>1, <1>4, TagsDiffer DEF HoldsSet
<1>8. ASSUME NEW c \in Classes PROVE ListOK(own, cls, c, stk[c], head[c], next)
  <2>1. \A b \in Slots : own[b] # ListTag(c)
    BY <1>4, TagsDiffer
  <2>2. Holds(own, ListTag(c), << >>)
    BY <2>1, HoldsNone
  <2>3. \A n \in 1 .. Len(<< >>) : FALSE
    OBVIOUS
  <2>4. QED
    BY <1>1, <1>6, <2>1, <2>2, <2>3 DEF ListOK
<1>9. ASSUME NEW t \in Threads PROVE ThreadOK(own, cls, t, chain[t], cache[t], th[t], head, next)
  <2>1. \A b \in Slots : /\ own[b] # ChainTag(t) /\ own[b] # NewTag(t) /\ own[b] # GotTag(t)
                         /\ own[b] # AddrTag(t) /\ own[b] # TodoTag(t)
                         /\ \A c \in Classes : own[b] # BinTag(t, c)
    BY <1>4, TagsDiffer
  <2>2. \A c \in Classes : Holds(own, BinTag(t, c), BinOf(None, c))
    BY <2>1, HoldsNone DEF BinOf
  <2>3. ThreadOK(own, cls, t, << >>, None, Idle, head, next)
    BY <2>1, <2>2, IdleThread
  <2>4. QED
    BY <1>1, <1>6, <2>3
<1>10. SideOK(own, cls, side)
  BY <1>1, <1>4, OutIs DEF SideOK
<1>11. Layout(own, cls, frontier)
  <2>1. SlabBlocks(own, cls) = {} /\ LargeBlocks(own, cls) = {}
    BY <1>4 DEF SlabBlocks, LargeBlocks
  <2>2. \A s \in Slots : ~(s < 0)
    BY Constants
  <2>3. QED
    BY <1>1, <2>1, <2>2, EmptyFrontierOK DEF Layout, SlabsOK
<1>12. Blocked(own, cls, stk, chain)
  BY <1>4, <1>5, <1>7, <1>8, <1>9, <1>10, <1>11 DEF Blocked
<1>13. \E stk2 \in [Classes -> Seq(Slots)], chain2 \in [Threads -> Seq(Slots)] :
         Blocked(own, cls, stk2, chain2)
  BY <1>6, <1>12
<1>14. QED
  BY <1>1, <1>2, <1>3, <1>13 DEF IInv

LEMMA ContinueKeeps ==
  ASSUME IInv, NEW t \in Threads, Continue(t)
  PROVE  IInv'
<1>1. CASE CopyToRun(t)
  BY <1>1, CopyToRunKeeps
<1>2. CASE ReleaseCopied(t)
  BY <1>2, ReleaseCopiedKeeps
<1>3. CASE CheckEpoch(t)
  BY <1>3, CheckEpochKeeps
<1>4. CASE ReturnBlock(t)
  BY <1>4, ReturnBlockKeeps
<1>5. CASE BumpEpoch(t)
  BY <1>5, BumpEpochKeeps
<1>6. CASE Spill(t)
  BY <1>6, SpillKeeps
<1>7. CASE CacheFreed(t)
  BY <1>7, CacheFreedKeeps
<1>8. CASE CacheHit(t)
  BY <1>8, CacheHitKeeps
<1>9. CASE CacheMiss(t)
  BY <1>9, CacheMissKeeps
<1>10. CASE RefillEnds(t)
  BY <1>10, RefillEndsKeeps
<1>11. CASE PushLink(t)
  BY <1>11, PushLinkKeeps
<1>12. CASE PushCas(t)
  BY <1>12, PushCasKeeps
<1>13. CASE CasFails(t)
  BY <1>13, CasFailsKeeps
<1>14. CASE Pop(t)
  BY <1>14, PopKeeps
<1>15. CASE PopNext(t)
  BY <1>15, PopNextKeeps
<1>16. CASE PopCas(t)
  BY <1>16, PopCasKeeps
<1>17. CASE Carve(t)
  BY <1>17, ChunkKeeps
<1>18. CASE Exhausted(t)
  BY <1>18, ExhaustedKeeps
<1>19. QED
  BY <1>1, <1>2, <1>3, <1>4, <1>5, <1>6, <1>7, <1>8, <1>9, <1>10, <1>11, <1>12, <1>13, <1>14,
     <1>15, <1>16, <1>17, <1>18 DEF Continue

LEMMA NextKeeps ==
  ASSUME IInv, [Next]_vars
  PROVE  IInv'
<1>1. ASSUME NEW t \in Threads, NEW c \in Classes, Allocate(t, c) PROVE IInv'
  BY <1>1, AllocateKeeps
<1>2. ASSUME NEW t \in Threads, NEW k \in RunSizes, AllocateLarge(t, k) PROVE IInv'
  BY <1>2, AllocateLargeKeeps
<1>3. ASSUME NEW t \in Threads, NEW b \in live, Free(t, b) PROVE IInv'
  BY <1>3, FreeKeeps
<1>4. ASSUME NEW t \in Threads, NEW b \in live, FreeLarge(t, b) PROVE IInv'
  BY <1>4, FreeLargeKeeps
<1>5. ASSUME NEW t \in Threads, NEW b \in live, NEW k \in RunSizes, GrowInPlace(t, b, k)
      PROVE  IInv'
  BY <1>5, GrowInPlaceKeeps
<1>6. ASSUME NEW t \in Threads, NEW b \in live, NEW k \in RunSizes, GrowByCopy(t, b, k)
      PROVE  IInv'
  BY <1>6, GrowByCopyKeeps
<1>7. ASSUME NEW t \in Threads, NEW b \in live, NEW c \in Classes, GrowSlab(t, b, c) PROVE IInv'
  BY <1>7, GrowSlabKeeps
<1>8. ASSUME NEW t \in Threads, FlushCaches(t) PROVE IInv'
  BY <1>8, FlushCachesKeeps
<1>9. ASSUME NEW t \in Threads, DropCache(t) PROVE IInv'
  BY <1>9, DropCacheKeeps
<1>10. ASSUME NEW t \in Threads, ForgetCache(t) PROVE IInv'
  BY <1>10, ForgetCacheKeeps
<1>11. ASSUME NEW t \in Threads, Continue(t) PROVE IInv'
  BY <1>11, ContinueKeeps
<1>12. ASSUME DropPool PROVE IInv'
  BY <1>12, DropPoolKeeps
<1>13. CASE UNCHANGED vars
  <2>1. /\ frontier' = frontier /\ head' = head /\ next' = next /\ side' = side
        /\ cache' = cache /\ epoch' = epoch /\ live' = live /\ pool' = pool /\ th' = th
    BY <1>13 DEF vars, poolVars
  <2>2. TypesInv' /\ EpochInv'
    BY <2>1 DEF IInv, TypesInv, EpochInv, Flushing
  <2>3. QED
    BY <2>1, <2>2 DEF IInv, Blocked
<1>14. QED
  BY <1>1, <1>2, <1>3, <1>4, <1>5, <1>6, <1>7, <1>8, <1>9, <1>10, <1>11, <1>12, <1>13 DEF Next

(* Whatever the threads interleave to, every block of the pool has one     *)
(* owner, the lists and chains are what their links make them, and a CAS   *)
(* that can succeed knows the list as it is.                               *)
THEOREM Invariance == Spec => []IInv
<1>1. Init => IInv
  BY InitHolds
<1>2. IInv /\ [Next]_vars => IInv'
  BY NextKeeps
<1>3. QED
  BY <1>1, <1>2, PTL DEF Spec

(* The variables keep their types, and no bin is ever filled beyond its    *)
(* fixed array: the assertion in TCacheBin::push cannot fail.              *)
THEOREM TypeCorrectness == Spec => []TypeOK
<1>1. IInv => TypeOK
  <2> SUFFICES ASSUME IInv PROVE TypeOK
    OBVIOUS
  <2>1. TypesInv /\ EpochInv
    BY DEF IInv
  <2>2. epoch \in 0 .. MaxEpoch
    <3>1. IsFiniteSet(Threads) /\ MaxEpoch \in Nat /\ epoch \in Nat
      BY <2>1, SlabPoolAssumption DEF TypesInv
    <3>2. IsFiniteSet(Flushing)
      BY <3>1, FS_Subset DEF Flushing
    <3>3. Cardinality(Flushing) \in Nat
      BY <3>2, FS_CardinalityType
    <3>4. QED
      BY <2>1, <3>1, <3>3 DEF EpochInv
  <2>3. ASSUME NEW t \in Threads, cache[t] # None
        PROVE  /\ cache[t].epoch \in 0 .. epoch
               /\ \A c \in Classes : Len(cache[t].bins[c]) <= TCACHE_CAPACITY
    <3>1. CacheOK(cache[t], epoch) /\ cache[t] \in Caches /\ epoch \in Nat
      BY <2>1, <2>3 DEF TypesInv
    <3>2. QED
      BY <2>3, <3>1 DEF CacheOK, Caches
  <2>4. QED
    BY <2>1, <2>2, <2>3 DEF TypesInv, TypeOK, Maybe
<1>2. QED
  BY <1>1, Invariance, PTL

(* There is no ABA problem: when the tag lets the CAS of push_chain or     *)
(* pop_free succeed, the head is still the block that was loaded and the   *)
(* link read from it, which another owner may have written over since, is  *)
(* still its link.                                                         *)
NoAba == pool = "mapped" => \A t \in Threads : CasOK(th[t], head, next)

(* The tag of a list head keeps a stale head or link from being installed, *)
(* whatever was popped and pushed back in between.                         *)
THEOREM TagsPreventAba == Spec => []NoAba
<1>1. IInv => NoAba
  BY CallFacts DEF NoAba
<1>2. QED
  BY <1>1, Invariance, PTL

(* The frontiers never cross, the top region gives its edge back, and the  *)
(* unit entries describe disjoint runs, after every call that takes the    *)
(* lock.                                                                   *)
THEOREM FrontiersStayApart == Spec => []FrontiersNeverCross
<1>1. IInv => FrontiersNeverCross
  BY DEF IInv, TypesInv, FrontierOK, FrontiersNeverCross
<1>2. QED
  BY <1>1, Invariance, PTL

-----------------------------------------------------------------------------
(* What a thread holds of a call, and in its cache.                        *)

DisjointSeqs(s, r) == \A b \in Slots : ~(b \in ToSet(s) /\ b \in ToSet(r))
BothOf(q, s, r) ==
  /\ q \in Seq(Slots) /\ Distinct(q)
  /\ \A b \in Slots : b \in ToSet(q) <=> b \in ToSet(s) \/ b \in ToSet(r)

LEMMA DisjointConcat ==
  ASSUME NEW s \in Seq(Slots), NEW r \in Seq(Slots), Distinct(s), Distinct(r), DisjointSeqs(s, r)
  PROVE  BothOf(s \o r, s, r)
<1> DEFINE o1 == [b \in Slots |-> IF b \in ToSet(s) THEN "s" ELSE IF b \in ToSet(r) THEN "r" ELSE "x"]
           o2 == [b \in Slots |-> IF b \in ToSet(s) \/ b \in ToSet(r) THEN "s" ELSE "x"]
<1>1. /\ \A b \in Slots : o1[b] = "s" <=> b \in ToSet(s)
      /\ \A b \in Slots : o1[b] = "r" <=> b \in ToSet(r)
      /\ \A b \in Slots : o2[b] = "s" <=> b \in ToSet(s) \/ b \in ToSet(r)
  BY DEF DisjointSeqs
<1> HIDE DEF o1, o2
<1>2. Holds(o1, "s", s) /\ Holds(o1, "r", r)
  BY <1>1 DEF Holds, HoldsSet
<1>3. \A b \in Slots : o2[b] = "s" <=> o1[b] = "s" \/ o1[b] = "r"
  BY <1>1
<1>4. Holds(o2, "s", s \o r)
  BY <1>2, <1>3, HoldsConcat
<1>5. QED
  BY <1>1, <1>4 DEF Holds, HoldsSet, BothOf

(* The tags of the blocks thread t holds.                                  *)
HeldBy(g, t) == g = TodoTag(t) \/ g = AddrTag(t) \/ \E c \in Classes : g = BinTag(t, c)

HeldOnce(own, t) ==
  /\ Held(t) \in Seq(Slots) /\ Distinct(Held(t))
  /\ \A b \in Slots : b \in ToSet(Held(t)) <=> HeldBy(own[b], t)

LEMMA HeldIs ==
  ASSUME TypesInv, NEW t \in Threads, NEW own, NEW cls, NEW chn,
         ThreadOK(own, cls, t, chn, cache[t], th[t], head, next)
  PROVE  HeldOnce(own, t)
<1> DEFINE all == AllCached(t)
           todo == th[t].todo
           one == IF th[t].addr = None THEN << >> ELSE <<th[t].addr>>
<1>1. /\ \A b \in Slots : /\ own[b] = AddrTag(t) <=> b = th[t].addr
                          /\ own[b] = TodoTag(t) <=> b \in ToSet(todo)
      /\ Holds(own, TodoTag(t), todo) /\ th[t] \in Calls
      /\ \A c \in Classes : Holds(own, BinTag(t, c), BinOf(cache[t], c))
  BY OwnedBy
<1>2. cache[t] = None \/ cache[t] \in Caches
  BY DEF TypesInv
<1>3. Joined(own, t, all)
  BY <1>1, <1>2, JoinedBins DEF AllCached
<1>4. /\ all \in Seq(Slots) /\ Distinct(all)
      /\ \A b \in Slots : b \in ToSet(all) <=> \E c \in Classes : own[b] = BinTag(t, c)
  BY <1>3 DEF Joined
<1>5. todo \in Seq(Slots) /\ Distinct(todo)
  BY <1>1 DEF Holds
<1>6. /\ one \in Seq(Slots) /\ Distinct(one)
      /\ \A b \in Slots : b \in ToSet(one) <=> own[b] = AddrTag(t)
  <2>1. CASE th[t].addr = None
    <3>1. one = << >> /\ ToSet(<< >>) = {}
      BY <2>1 DEF ToSet
    <3>2. \A b \in Slots : own[b] # AddrTag(t)
      BY <1>1, <2>1, Constants
    <3>3. QED
      BY <3>1, <3>2 DEF Distinct
  <2>2. CASE th[t].addr # None
    <3>1. th[t].addr \in Slots
      BY <1>1, <2>2 DEF Calls, Maybe
    <3>2. PICK a \in Slots : a = th[t].addr
      BY <3>1
    <3>3. one = <<a>> /\ <<a>> \in Seq(Slots) /\ ToSet(<<a>>) = {a} /\ Distinct(<<a>>)
      BY <2>2, <3>2 DEF ToSet, Distinct
    <3>4. QED
      BY <1>1, <3>2, <3>3
  <2>3. QED
    BY <2>1, <2>2
<1>7. Held(t) = (all \o todo) \o one
  BY DEF Held
<1> HIDE DEF all, todo, one
<1>8. BothOf(all \o todo, all, todo)
  <2>1. DisjointSeqs(all, todo)
    BY <1>1, <1>4, TagsDiffer DEF DisjointSeqs
  <2>2. QED
    BY <1>4, <1>5, <2>1, DisjointConcat
<1> DEFINE two == all \o todo
<1>9. /\ two \in Seq(Slots) /\ Distinct(two)
      /\ \A b \in Slots : b \in ToSet(two) <=> b \in ToSet(all) \/ b \in ToSet(todo)
  BY <1>8 DEF BothOf
<1> HIDE DEF two
<1>10. BothOf(two \o one, two, one)
  <2>1. DisjointSeqs(two, one)
    BY <1>1, <1>4, <1>6, <1>9, TagsDiffer DEF DisjointSeqs
  <2>2. QED
    BY <1>6, <1>9, <2>1, DisjointConcat
<1>11. /\ Held(t) \in Seq(Slots) /\ Distinct(Held(t))
       /\ \A b \in Slots : b \in ToSet(Held(t)) <=> b \in ToSet(two) \/ b \in ToSet(one)
  BY <1>7, <1>10 DEF BothOf, two
<1>12. QED
  BY <1>1, <1>4, <1>6, <1>9, <1>11 DEF HeldOnce, HeldBy

(* The holders of blocks with an entry in the side table.                  *)
LEMMA TagIs ==
  ASSUME NEW g \in Tags
  PROVE  \/ g = NoTag \/ g = LiveTag \/ \E c \in Classes : g = ListTag(c)
         \/ \E t \in Threads : g = ChainTag(t) \/ g = GotTag(t) \/ g = NewTag(t) \/ HeldBy(g, t)
<1>1. ASSUME NEW tc \in Threads \X Classes, g = BinTag(tc[1], tc[2])
      PROVE  \E t \in Threads : HeldBy(g, t)
  BY <1>1 DEF HeldBy
<1>2. QED
  BY <1>1 DEF Tags, HeldBy

LEMMA OutTags ==
  ASSUME NEW g \in Tags
  PROVE  Out(g) <=> g = LiveTag \/ \E t \in Threads : g = GotTag(t) \/ HeldBy(g, t)
  BY TagIs, OutIs DEF HeldBy

(* The side table has an entry for exactly the blocks out of the lists:    *)
(* those in use, held by a call or cached, whose class it names; a free    *)
(* is routed to the class the block was carved for.                        *)
THEOREM FreesAreRouted == Spec => []SideTableRoutesFrees
<1>1. IInv => SideTableRoutesFrees
  <2> SUFFICES ASSUME IInv, pool = "mapped"
               PROVE  /\ {b \in Slots : side[b] # None} =
                           live \cup (UNION {ToSet(Held(t)) : t \in Threads})
                                \cup {th[t].got : t \in {u \in Threads : th[u].got # None
                                                                         /\ th[u].first = None}}
                      /\ \A t \in Threads : cache[t] # None =>
                           \A c \in Classes : \A b \in ToSet(cache[t].bins[c]) : side[b] = c
    BY DEF SideTableRoutesFrees
  <2>1. TypesInv
    BY DEF IInv
  <2>2. PICK own, cls :
          \E stk \in [Classes -> Seq(Slots)], chain \in [Threads -> Seq(Slots)] :
            Blocked(own, cls, stk, chain)
    BY DEF IInv
  <2>3. PICK stk \in [Classes -> Seq(Slots)], chain \in [Threads -> Seq(Slots)] :
           Blocked(own, cls, stk, chain)
    BY <2>2
  <2>4. /\ own \in [Slots -> Tags] /\ cls \in [Slots -> Classes \cup {LARGE}]
        /\ HoldsSet(own, LiveTag, live) /\ SideOK(own, cls, side) /\ live \subseteq Slots
        /\ \A t \in Threads : ThreadOK(own, cls, t, chain[t], cache[t], th[t], head, next)
    BY <2>1, <2>3 DEF Blocked, TypesInv
  <2>5. \A t \in Threads : HeldOnce(own, t)
    BY <2>1, <2>4, HeldIs
  <2>6. \A b \in Slots : side[b] # None <=> Out(own[b])
    BY <2>4, Constants DEF SideOK
  <2>7. ASSUME NEW t \in Threads, NEW b \in Slots
        PROVE  own[b] = GotTag(t) <=> b = th[t].got /\ th[t].got # None /\ th[t].first = None
    BY <2>4, OwnedBy, Constants
  <2>8. ASSUME NEW t \in Threads
        PROVE  \A b : b \in ToSet(Held(t)) <=> b \in Slots /\ HeldBy(own[b], t)
    <3>1. HeldOnce(own, t)
      BY <2>5
    <3>2. \A b \in ToSet(Held(t)) : b \in Slots
      BY <3>1, ToSetIs DEF HeldOnce
    <3>3. QED
      BY <3>1, <3>2 DEF HeldOnce
  <2>9. ASSUME NEW t \in Threads, th[t].got # None PROVE th[t].got \in Slots
    BY <2>4, <2>9, OwnedBy DEF Calls, Maybe
  <2>10. ASSUME NEW b \in Slots
         PROVE  side[b] # None <=>
                  b \in live \/ \E t \in Threads :
                    (b = th[t].got /\ th[t].got # None /\ th[t].first = None) \/ b \in ToSet(Held(t))
    <3>1. Out(own[b]) <=> own[b] = LiveTag \/ \E t \in Threads : own[b] = GotTag(t) \/ HeldBy(own[b], t)
      BY <2>4, OutTags
    <3>2. own[b] = LiveTag <=> b \in live
      BY <2>4 DEF HoldsSet
    <3>3. QED
      BY <2>6, <2>7, <2>8, <3>1, <3>2
  <2>11. ASSUME NEW t \in Threads, cache[t] # None, NEW c \in Classes,
                NEW b \in ToSet(cache[t].bins[c])
         PROVE  side[b] = c
    <3>1. BinOf(cache[t], c) = cache[t].bins[c]
      BY <2>11 DEF BinOf
    <3>2. Holds(own, BinTag(t, c), cache[t].bins[c]) /\ OwnClasses(own, cls, t, th[t])
      BY <2>4, <3>1, OwnedBy
    <3>3. b \in Slots
      BY <2>11, <3>2, ToSetIs DEF Holds
    <3>4. own[b] = BinTag(t, c)
      BY <2>11, <3>2, <3>3 DEF Holds, HoldsSet
    <3>5. cls[b] = c
      BY <3>2, <3>3, <3>4 DEF OwnClasses
    <3>6. QED
      BY <2>4, <3>3, <3>4, <3>5, OutIs DEF SideOK
  <2>12. {b \in Slots : side[b] # None} =
           live \cup (UNION {ToSet(Held(t)) : t \in Threads})
                \cup {th[t].got : t \in {u \in Threads : th[u].got # None /\ th[u].first = None}}
    <3> DEFINE A == {b \in Slots : side[b] # None}
               G == {th[t].got : t \in {u \in Threads : th[u].got # None /\ th[u].first = None}}
               H == UNION {ToSet(Held(t)) : t \in Threads}
    <3>1. \A b : b \in G <=> \E t \in Threads : b = th[t].got /\ th[t].got # None /\ th[t].first = None
      OBVIOUS
    <3>2. \A b : b \in H <=> \E t \in Threads : b \in ToSet(Held(t))
      OBVIOUS
    <3>3. \A b : b \in A <=> b \in Slots /\ side[b] # None
      OBVIOUS
    <3> HIDE DEF A, G, H
    <3>4. \A b \in G : b \in Slots
      BY <2>9, <3>1
    <3>5. \A b \in H : b \in Slots
      BY <2>8, <3>2
    <3>6. \A b : b \in A <=> b \in live \/ b \in H \/ b \in G
      BY <2>4, <2>10, <3>1, <3>2, <3>3, <3>4, <3>5
    <3>7. A = live \cup H \cup G
      BY <3>6
    <3>8. QED
      BY <3>7 DEF A, G, H
  <2>13. QED
    BY <2>11, <2>12
<1>2. QED
  BY <1>1, Invariance, PTL

-----------------------------------------------------------------------------
(* Every block has one claim.                                              *)

(* A list is no longer than there are slots.                               *)
LEMMA ListIsShort ==
  ASSUME NEW s \in Seq(Slots), Distinct(s)
  PROVE  Len(s) <= Total
<1>1. Len(s) \in Nat /\ Total \in Nat /\ s \in [1 .. Len(s) -> Slots]
  BY FrontierAssumption
<1>2. PICK k \in Nat : k = Len(s)
  BY <1>1
<1>3. IsFiniteSet(1 .. k) /\ Cardinality(1 .. k) = k
  <2>1. /\ IsFiniteSet(1 .. k)
        /\ Cardinality(1 .. k) = IF 1 > k THEN 0 ELSE k - 1 + 1
    BY FS_Interval
  <2>2. QED
    BY <2>1
<1>4. IsFiniteSet(Slots) /\ Cardinality(Slots) = Total
  <2>1. /\ IsFiniteSet(0 .. Total - 1)
        /\ Cardinality(0 .. Total - 1) = IF 0 > Total - 1 THEN 0 ELSE (Total - 1) - 0 + 1
    BY <1>1, FS_Interval
  <2>2. QED
    BY <1>1, <2>1 DEF Slots
<1>5. SUFFICES ASSUME Total < k PROVE FALSE
  BY <1>1, <1>2
<1>6. \E x, y \in 1 .. k : x # y /\ s[x] = s[y]
  BY <1>1, <1>2, <1>3, <1>4, <1>5, FS_PigeonHole
<1>7. QED
  BY <1>2, <1>6 DEF Distinct

(* The blocks of a free list, found by following the links.                *)
Walked(c, s) == ListClaims(c) = {Claim(<<"list", n>>, s[Len(s) - n], c) : n \in 0 .. Len(s) - 1}

LEMMA ListWalk ==
  ASSUME NEW own, NEW cls, NEW c \in Classes, NEW s, ListOK(own, cls, c, s, head[c], next)
  PROVE  Walked(c, s)
<1> DEFINE At(v, n) == IF n = 0 THEN head[c] ELSE IF v = None THEN None ELSE next[v]
           Solves(f) == f = [n \in 0 .. Total |-> At(f[n - 1], n)]
           Seen(f) == {Claim(<<"list", n>>, f[n], c) : n \in {m \in 0 .. Total : f[m] # None}}
           k == [n \in 0 .. Total |-> IF n < Len(s) THEN s[Len(s) - n] ELSE None]
<1>1. ListClaims(c) = Seen(CHOOSE f : Solves(f))
  BY DEF ListClaims
<1>2. /\ s \in Seq(Slots) /\ Distinct(s)
      /\ head[c] = IF s = << >> THEN None ELSE s[Len(s)]
      /\ \A n \in 1 .. Len(s) : next[s[n]] = IF n = 1 THEN None ELSE s[n - 1]
  BY DEF ListOK, Holds
<1>3. PICK l \in Nat : l = Len(s)
  BY <1>2
<1>4. /\ \A i \in 1 .. l : s[i] \in Slots /\ s[i] # None
      /\ s # << >> <=> l > 0
  BY <1>2, <1>3, ToSetIs, Constants
<1>5. l <= Total /\ Total \in Nat
  BY <1>2, <1>3, ListIsShort, FrontierAssumption
<1>6. ASSUME NEW n \in 0 .. Total PROVE k[n] = At(k[n - 1], n)
  <2>1. CASE n = 0
    BY <1>2, <1>3, <1>4, <2>1
  <2>2. CASE n # 0 /\ n < l
    <3>1. n - 1 \in 0 .. Total /\ n - 1 < l /\ l - (n - 1) \in 2 .. l /\ (l - (n - 1)) - 1 = l - n
      BY <1>5, <2>2
    <3>2. k[n - 1] = s[l - (n - 1)] /\ k[n] = s[l - n]
      BY <1>3, <2>2, <3>1
    <3>3. next[s[l - (n - 1)]] = s[(l - (n - 1)) - 1]
      BY <1>2, <1>3, <3>1
    <3>4. k[n - 1] # None /\ next[k[n - 1]] = k[n]
      BY <1>4, <3>1, <3>2, <3>3
    <3> HIDE DEF k
    <3>5. QED
      BY <2>2, <3>4
  <2>3. CASE n # 0 /\ n = l
    <3>1. n - 1 \in 0 .. Total /\ n - 1 < l /\ l - (n - 1) = 1
      BY <1>5, <2>3
    <3>2. k[n - 1] = s[1] /\ k[n] = None
      BY <1>3, <2>3, <3>1
    <3>3. next[s[1]] = None /\ s[1] # None
      BY <1>2, <1>3, <1>4, <2>3
    <3> HIDE DEF k
    <3>4. QED
      BY <2>3, <3>2, <3>3
  <2>4. CASE n # 0 /\ n > l
    <3>1. n - 1 \in 0 .. Total /\ ~(n - 1 < l) /\ ~(n < l)
      BY <1>5, <2>4
    <3>2. k[n - 1] = None /\ k[n] = None
      BY <1>3, <3>1
    <3> HIDE DEF k
    <3>3. QED
      BY <2>4, <3>2
  <2>5. QED
    BY <2>1, <2>2, <2>3, <2>4
<1>7. k = [n \in 0 .. Total |-> k[n]]
  OBVIOUS
<1> HIDE DEF k
<1>8. Solves(k)
  BY <1>6, <1>7
<1> DEFINE h == CHOOSE f : Solves(f)
<1>9. Solves(h)
  BY <1>8
<1> HIDE DEF h
<1>10. \A n \in 0 .. Total : h[n] = At(h[n - 1], n)
  BY <1>9
<1> DEFINE S == {n \in 0 .. Total : h[n] = k[n]}
<1> HIDE DEF At
<1>11. 0 \in S
  <2>1. h[0] = At(h[0 - 1], 0) /\ k[0] = At(k[0 - 1], 0)
    BY <1>5, <1>6, <1>10
  <2>2. h[0] = k[0]
    BY <2>1 DEF At
  <2>3. QED
    BY <1>5, <2>2
<1>12. ASSUME NEW n \in 1 .. Total, n - 1 \in S PROVE n \in S
  <2>1. h[n] = At(h[n - 1], n) /\ k[n] = At(k[n - 1], n) /\ h[n - 1] = k[n - 1]
    BY <1>6, <1>10, <1>12
  <2>2. QED
    BY <2>1
<1> HIDE DEF S
<1>13. \A n \in 0 .. Total : n \in S
  BY <1>5, <1>11, <1>12, UpTo
<1>14. \A n \in 0 .. Total : h[n] = IF n < l THEN s[l - n] ELSE None
  BY <1>3, <1>13 DEF S, k
<1>15. Seen(h) = {Claim(<<"list", n>>, s[l - n], c) : n \in 0 .. l - 1}
  <2>1. {m \in 0 .. Total : h[m] # None} = 0 .. l - 1
    <3>1. ASSUME NEW m \in 0 .. Total, h[m] # None PROVE m \in 0 .. l - 1
      BY <1>14, <3>1
    <3>2. ASSUME NEW m \in 0 .. l - 1 PROVE m \in 0 .. Total /\ h[m] # None
      <4>1. m \in 0 .. Total /\ m < l /\ l - m \in 1 .. l
        BY <1>5
      <4>2. QED
        BY <1>4, <1>14, <4>1
    <3>3. QED
      BY <3>1, <3>2
  <2>2. \A n \in 0 .. l - 1 : h[n] = s[l - n]
    BY <1>5, <1>14
  <2>3. QED
    BY <2>1, <2>2
<1>16. QED
  BY <1>1, <1>3, <1>15 DEF Walked, h

(* The claim on block b, as its owner makes it.                            *)
Label(own, stk, b) ==
  LET k == Kind(own[b])
      w == Who(own[b])
  IN CASE k = "live" -> <<"live">>
       [] k = "list" ->
            <<"list", CHOOSE n \in 0 .. Len(stk[w]) - 1 : stk[w][Len(stk[w]) - n] = b>>
       [] k = "chain" -> <<"chain", w>>
       [] k \in {"got", "new"} -> <<"got", w>>
       [] OTHER -> <<"held", w, CHOOSE i \in DOMAIN Held(w) : Held(w)[i] = b>>
ClaimAt(own, cls, stk, b) == Claim(Label(own, stk, b), b, cls[b])

(* The claims G are those on the blocks of S.                              *)
ClaimsOn(own, cls, stk, G, S) == G = {ClaimAt(own, cls, stk, b) : b \in S}
With(own, T) == {b \in Slots : own[b] \in T}

LEMMA LiveGroup ==
  ASSUME NEW own, NEW cls, NEW stk, HoldsSet(own, LiveTag, live), live \subseteq Slots,
         SideOK(own, cls, side)
  PROVE  ClaimsOn(own, cls, stk, LiveClaims, With(own, {LiveTag}))
<1>1. live = With(own, {LiveTag})
  BY DEF HoldsSet, With
<1>2. ASSUME NEW b \in live PROVE Claim(<<"live">>, b, side[b]) = ClaimAt(own, cls, stk, b)
  <2>1. own[b] = LiveTag /\ side[b] = cls[b]
    BY OutIs DEF HoldsSet, SideOK
  <2>2. Label(own, stk, b) = <<"live">>
    BY <2>1, TagFacts DEF Label
  <2>3. QED
    BY <2>1, <2>2 DEF ClaimAt
<1>3. QED
  BY <1>1, <1>2 DEF ClaimsOn, LiveClaims

LEMMA ListGroup ==
  ASSUME NEW own, NEW cls, NEW stk, NEW c \in Classes,
         ListOK(own, cls, c, stk[c], head[c], next)
  PROVE  ClaimsOn(own, cls, stk, ListClaims(c), With(own, {ListTag(c)}))
<1> DEFINE s == stk[c]
           X(n) == Claim(<<"list", n>>, s[Len(s) - n], c)
<1>1. ListClaims(c) = {X(n) : n \in 0 .. Len(s) - 1}
  <2>1. Walked(c, stk[c])
    BY ListWalk
  <2>2. QED
    BY <2>1 DEF Walked
<1>2. /\ s \in Seq(Slots) /\ Distinct(s) /\ \A b \in Slots : own[b] = ListTag(c) <=> b \in ToSet(s)
      /\ \A b \in Slots : own[b] = ListTag(c) => cls[b] = c
  BY DEF ListOK, Holds, HoldsSet
<1> HIDE DEF s
<1>3. PICK l \in Nat : l = Len(s)
  BY <1>2
<1>4. ASSUME NEW n \in 0 .. l - 1
      PROVE  s[l - n] \in With(own, {ListTag(c)}) /\ X(n) = ClaimAt(own, cls, stk, s[l - n])
  <2> DEFINE b == s[l - n]
  <2>1. l - n \in 1 .. l
    OBVIOUS
  <2>2. b \in Slots /\ b \in ToSet(s)
    BY <1>2, <1>3, <2>1, ToSetIs
  <2>3. own[b] = ListTag(c) /\ cls[b] = c
    BY <1>2, <2>2
  <2>4. \A m \in 0 .. l - 1 : s[l - m] = b => m = n
    <3>1. ASSUME NEW m \in 0 .. l - 1, s[l - m] = b PROVE m = n
      <4>1. l - m \in 1 .. l
        OBVIOUS
      <4>2. l - m = l - n
        BY <1>2, <1>3, <2>1, <3>1, <4>1 DEF Distinct
      <4>3. QED
        BY <4>2
    <3>2. QED
      BY <3>1
  <2>5. (CHOOSE m \in 0 .. l - 1 : s[l - m] = b) = n
    BY <2>4
  <2> HIDE DEF b
  <2>6. Label(own, stk, b) = <<"list", CHOOSE m \in 0 .. Len(stk[c]) - 1 : stk[c][Len(stk[c]) - m] = b>>
    BY <2>3, TagFacts DEF Label
  <2>7. Label(own, stk, b) = <<"list", n>>
    BY <1>3, <2>5, <2>6 DEF s
  <2>8. X(n) = ClaimAt(own, cls, stk, b)
    BY <1>3, <2>3, <2>7 DEF ClaimAt, b
  <2>9. QED
    BY <2>2, <2>3, <2>8 DEF With, b
<1>5. ASSUME NEW b \in With(own, {ListTag(c)})
      PROVE  \E n \in 0 .. l - 1 : s[l - n] = b
  <2>1. b \in ToSet(s)
    BY <1>2 DEF With
  <2>2. PICK i \in 1 .. l : s[i] = b
    BY <1>2, <1>3, <2>1, ToSetIs
  <2>3. l - i \in 0 .. l - 1 /\ l - (l - i) = i
    OBVIOUS
  <2>4. QED
    BY <2>2, <2>3
<1> HIDE DEF X
<1>6. ListClaims(c) = {X(n) : n \in 0 .. l - 1}
  BY <1>1, <1>3
<1>7. {X(n) : n \in 0 .. l - 1} = {ClaimAt(own, cls, stk, b) : b \in With(own, {ListTag(c)})}
  <2>1. \A n \in 0 .. l - 1 : \E b \in With(own, {ListTag(c)}) : X(n) = ClaimAt(own, cls, stk, b)
    BY <1>4
  <2>2. \A b \in With(own, {ListTag(c)}) : \E n \in 0 .. l - 1 : ClaimAt(own, cls, stk, b) = X(n)
    BY <1>4, <1>5
  <2>3. QED
    BY <2>1, <2>2
<1>8. QED
  BY <1>6, <1>7 DEF ClaimsOn

LEMMA ChainGroup ==
  ASSUME NEW own, NEW cls, NEW stk, NEW t \in Threads, NEW chn,
         ThreadOK(own, cls, t, chn, cache[t], th[t], head, next)
  PROVE  ClaimsOn(own, cls, stk, ChainClaims(t), With(own, {ChainTag(t)}))
<1>1. /\ ChainOK(chn, next, th[t]) /\ Holds(own, ChainTag(t), chn) /\ OwnClasses(own, cls, t, th[t])
      /\ th[t].first = None => \A b \in Slots : own[b] # ChainTag(t)
  BY OwnedBy
<1>2. CASE th[t].first = None
  <2>1. With(own, {ChainTag(t)}) = {} /\ ChainClaims(t) = {}
    BY <1>1, <1>2 DEF With, ChainClaims
  <2>2. QED
    BY <2>1 DEF ClaimsOn
<1>3. CASE th[t].first # None
  <2> DEFINE B == {b \in th[t].first .. th[t].last : (b - th[t].first) % SlabSizes[th[t].list] = 0}
  <2>1. ChainClaims(t) = {Claim(<<"chain", t>>, b, th[t].list) : b \in B}
    BY <1>3 DEF ChainClaims
  <2>2. ToSet(chn) = B
    BY <1>1, <1>3 DEF ChainOK
  <2> HIDE DEF B
  <2>3. B = With(own, {ChainTag(t)})
    <3>1. chn \in Seq(Slots) /\ \A b \in Slots : own[b] = ChainTag(t) <=> b \in B
      BY <1>1, <2>2 DEF Holds, HoldsSet
    <3>2. \A b \in B : b \in Slots
      BY <2>2, <3>1, ToSetIs
    <3>3. QED
      BY <3>1, <3>2 DEF With
  <2>4. ASSUME NEW b \in With(own, {ChainTag(t)})
        PROVE  Claim(<<"chain", t>>, b, th[t].list) = ClaimAt(own, cls, stk, b)
    <3>1. own[b] = ChainTag(t) /\ b \in Slots /\ cls[b] = th[t].list
      BY <1>1 DEF With, OwnClasses
    <3>2. Label(own, stk, b) = <<"chain", t>>
      BY <3>1, TagFacts DEF Label
    <3>3. QED
      BY <3>1, <3>2 DEF ClaimAt
  <2>5. QED
    BY <2>1, <2>3, <2>4 DEF ClaimsOn
<1>4. QED
  BY <1>2, <1>3

LEMMA CallerGroup ==
  ASSUME NEW own, NEW cls, NEW stk, NEW t \in Threads, NEW chn,
         ThreadOK(own, cls, t, chn, cache[t], th[t], head, next)
  PROVE  ClaimsOn(own, cls, stk, CallerClaims(t), With(own, {GotTag(t), NewTag(t)}))
<1>1. /\ \A b \in Slots : /\ own[b] = GotTag(t) <=> th[t].first = None /\ b = th[t].got
                          /\ own[b] = NewTag(t) <=> th[t].first # None /\ b = th[t].got
      /\ OwnClasses(own, cls, t, th[t]) /\ th[t] \in Calls
  BY OwnedBy
<1>2. CASE th[t].got = None
  <2>1. With(own, {GotTag(t), NewTag(t)}) = {} /\ CallerClaims(t) = {}
    BY <1>1, <1>2, Constants DEF With, CallerClaims
  <2>2. QED
    BY <2>1 DEF ClaimsOn
<1>3. CASE th[t].got # None
  <2>1. PICK b \in Slots : b = th[t].got
    BY <1>1, <1>3 DEF Calls, Maybe
  <2>2. With(own, {GotTag(t), NewTag(t)}) = {b} /\ CallerClaims(t) = {Claim(<<"got", t>>, b, th[t].class)}
    BY <1>1, <1>3, <2>1 DEF With, CallerClaims
  <2>3. own[b] \in {GotTag(t), NewTag(t)} /\ cls[b] = th[t].class
    BY <1>1, <2>1 DEF OwnClasses
  <2>4. Label(own, stk, b) = <<"got", t>>
    BY <2>3, TagFacts DEF Label
  <2>5. QED
    BY <2>2, <2>3, <2>4 DEF ClaimsOn, ClaimAt
<1>4. QED
  BY <1>2, <1>3

HeldTags(t) == {TodoTag(t), AddrTag(t)} \cup {BinTag(t, c) : c \in Classes}

LEMMA HeldGroup ==
  ASSUME NEW own \in [Slots -> Tags], NEW cls, NEW stk, NEW t \in Threads, HeldOnce(own, t),
         SideOK(own, cls, side)
  PROVE  ClaimsOn(own, cls, stk, HeldClaims(t), With(own, HeldTags(t)))
<1> DEFINE s == Held(t)
           X(i) == Claim(<<"held", t, i>>, s[i], side[s[i]])
<1>1. HeldClaims(t) = {X(i) : i \in DOMAIN s}
  BY DEF HeldClaims
<1>2. s \in Seq(Slots) /\ Distinct(s) /\ \A b \in Slots : b \in ToSet(s) <=> HeldBy(own[b], t)
  BY DEF HeldOnce
<1> HIDE DEF s
<1>3. DOMAIN s = 1 .. Len(s)
  BY <1>2
<1>4. \A g : HeldBy(g, t) <=> g \in HeldTags(t)
  BY DEF HeldBy, HeldTags
<1>5. ASSUME NEW i \in DOMAIN s
      PROVE  s[i] \in With(own, HeldTags(t)) /\ X(i) = ClaimAt(own, cls, stk, s[i])
  <2> DEFINE b == s[i]
  <2>1. b \in Slots /\ b \in ToSet(s)
    BY <1>2, <1>3, ToSetIs
  <2>2. HeldBy(own[b], t)
    BY <1>2, <2>1
  <2>3. \A j \in DOMAIN s : s[j] = b => j = i
    BY <1>2, <1>3 DEF Distinct
  <2>4. (CHOOSE j \in DOMAIN s : s[j] = b) = i
    BY <2>3
  <2> HIDE DEF b
  <2>5. Out(own[b]) /\ Kind(own[b]) \in {"todo", "addr", "bin"} /\ Who(own[b]) = t
    BY <2>2, OutIs, TagFacts DEF HeldBy
  <2>6. side[b] = cls[b]
    BY <2>1, <2>5 DEF SideOK
  <2>7. Label(own, stk, b) = <<"held", t, CHOOSE j \in DOMAIN Held(t) : Held(t)[j] = b>>
    BY <2>5 DEF Label
  <2>8. Label(own, stk, b) = <<"held", t, i>>
    BY <2>4, <2>7 DEF s
  <2>9. X(i) = ClaimAt(own, cls, stk, b)
    BY <2>6, <2>8 DEF ClaimAt, b
  <2>10. QED
    BY <1>4, <2>1, <2>2, <2>9 DEF With, b
<1>6. ASSUME NEW b \in With(own, HeldTags(t)) PROVE \E i \in DOMAIN s : s[i] = b
  <2>1. b \in Slots /\ HeldBy(own[b], t)
    BY <1>4 DEF With
  <2>2. b \in ToSet(s)
    BY <1>2, <2>1
  <2>3. QED
    BY <1>2, <1>3, <2>2, ToSetIs
<1> HIDE DEF X
<1>7. {X(i) : i \in DOMAIN s} = {ClaimAt(own, cls, stk, b) : b \in With(own, HeldTags(t))}
  <2>1. \A i \in DOMAIN s : \E b \in With(own, HeldTags(t)) : X(i) = ClaimAt(own, cls, stk, b)
    BY <1>5
  <2>2. \A b \in With(own, HeldTags(t)) : \E i \in DOMAIN s : ClaimAt(own, cls, stk, b) = X(i)
    BY <1>5, <1>6
  <2>3. QED
    BY <2>1, <2>2
<1>8. QED
  BY <1>1, <1>7 DEF ClaimsOn

LEMMA ClaimsAre ==
  ASSUME TypesInv, NEW own, NEW cls, NEW stk, NEW chain, Blocked(own, cls, stk, chain)
  PROVE  ClaimsOn(own, cls, stk, Claims, {b \in Slots : own[b] # NoTag})
<1> DEFINE At(b) == ClaimAt(own, cls, stk, b)
           All == {b \in Slots : own[b] # NoTag}
<1>1. /\ own \in [Slots -> Tags] /\ HoldsSet(own, LiveTag, live) /\ SideOK(own, cls, side)
      /\ \A c \in Classes : ListOK(own, cls, c, stk[c], head[c], next)
      /\ \A t \in Threads : ThreadOK(own, cls, t, chain[t], cache[t], th[t], head, next)
      /\ live \subseteq Slots
  BY DEF Blocked, TypesInv
<1>2. LiveClaims = {At(b) : b \in With(own, {LiveTag})}
  <2>1. ClaimsOn(own, cls, stk, LiveClaims, With(own, {LiveTag}))
    BY <1>1, LiveGroup
  <2>2. QED
    BY <2>1 DEF ClaimsOn
<1>3. ASSUME NEW c \in Classes PROVE ListClaims(c) = {At(b) : b \in With(own, {ListTag(c)})}
  <2>1. ClaimsOn(own, cls, stk, ListClaims(c), With(own, {ListTag(c)}))
    BY <1>1, ListGroup
  <2>2. QED
    BY <2>1 DEF ClaimsOn
<1>4. ASSUME NEW t \in Threads
      PROVE  /\ ChainClaims(t) = {At(b) : b \in With(own, {ChainTag(t)})}
             /\ CallerClaims(t) = {At(b) : b \in With(own, {GotTag(t), NewTag(t)})}
             /\ HeldClaims(t) = {At(b) : b \in With(own, HeldTags(t))}
  <2>1. ClaimsOn(own, cls, stk, ChainClaims(t), With(own, {ChainTag(t)}))
    BY <1>1, ChainGroup
  <2>2. ClaimsOn(own, cls, stk, CallerClaims(t), With(own, {GotTag(t), NewTag(t)}))
    BY <1>1, CallerGroup
  <2>3. HeldOnce(own, t)
    BY <1>1, HeldIs
  <2>4. ClaimsOn(own, cls, stk, HeldClaims(t), With(own, HeldTags(t)))
    BY <1>1, <2>3, HeldGroup
  <2>5. QED
    BY <2>1, <2>2, <2>4 DEF ClaimsOn
<1> HIDE DEF At
<1> DEFINE ThreadClaims(t) == ChainClaims(t) \cup CallerClaims(t) \cup HeldClaims(t)
<1>5. \A x : x \in Claims <=> x \in LiveClaims \/ (\E c \in Classes : x \in ListClaims(c))
                              \/ \E t \in Threads : x \in ThreadClaims(t)
  BY DEF Claims
<1>6. \A t \in Threads : \A g : g \in HeldTags(t) <=> HeldBy(g, t)
  BY DEF HeldTags, HeldBy
<1>7. ASSUME NEW x \in Claims PROVE \E b \in All : x = At(b)
  <2>1. CASE x \in LiveClaims
    <3>1. PICK b \in With(own, {LiveTag}) : x = At(b)
      BY <1>2, <2>1
    <3>2. QED
      BY <3>1, TagsDiffer DEF With
  <2>2. ASSUME NEW c \in Classes, x \in ListClaims(c) PROVE \E b \in All : x = At(b)
    <3>1. PICK b \in With(own, {ListTag(c)}) : x = At(b)
      BY <1>3, <2>2
    <3>2. QED
      BY <3>1, TagsDiffer DEF With
  <2>3. ASSUME NEW t \in Threads, x \in ThreadClaims(t) PROVE \E b \in All : x = At(b)
    <3>1. PICK b \in Slots : x = At(b) /\ own[b] \in {ChainTag(t), GotTag(t), NewTag(t)} \cup HeldTags(t)
      BY <1>4, <2>3 DEF With
    <3>2. own[b] # NoTag
      BY <3>1, TagsDiffer DEF HeldTags
    <3>3. QED
      BY <3>1, <3>2
  <2>4. QED
    BY <1>5, <2>1, <2>2, <2>3
<1>8. ASSUME NEW b \in All PROVE At(b) \in Claims
  <2>1. /\ own[b] \in Tags /\ own[b] # NoTag /\ b \in Slots
    BY <1>1
  <2>2. CASE own[b] = LiveTag
    <3>1. b \in With(own, {LiveTag})
      BY <2>1, <2>2 DEF With
    <3>2. QED
      BY <1>2, <1>5, <3>1
  <2>3. ASSUME NEW c \in Classes, own[b] = ListTag(c) PROVE At(b) \in Claims
    <3>1. b \in With(own, {ListTag(c)})
      BY <2>1, <2>3 DEF With
    <3>2. QED
      BY <1>3, <1>5, <3>1
  <2>4. ASSUME NEW t \in Threads,
               own[b] = ChainTag(t) \/ own[b] = GotTag(t) \/ own[b] = NewTag(t) \/ HeldBy(own[b], t)
        PROVE  At(b) \in Claims
    <3>1. \/ b \in With(own, {ChainTag(t)}) \/ b \in With(own, {GotTag(t), NewTag(t)})
          \/ b \in With(own, HeldTags(t))
      BY <1>6, <2>1, <2>4 DEF With
    <3>2. At(b) \in ThreadClaims(t)
      BY <1>4, <3>1
    <3>3. QED
      BY <1>5, <3>2
  <2>5. QED
    BY <2>1, <2>2, <2>3, <2>4, TagIs
<1>9. Claims = {At(b) : b \in All}
  BY <1>7, <1>8
<1>10. QED
  BY <1>9 DEF ClaimsOn, At

-----------------------------------------------------------------------------
(* Every slot is in one block.                                             *)

(* The slots from at on that block b has, in the frontier f.               *)
SizeIn(f, cls, b) ==
  IF cls[b] = LARGE THEN f.units[b \div UnitSlots] * UnitSlots ELSE SlabSizes[cls[b]]
Covers(f, cls, b, s) == s \in b .. b - 1 + SizeIn(f, cls, b)

(* The unit of a slot, where runs have their first unit.                   *)
LEMMA RunCovers ==
  ASSUME NEW f, FrontierOK(f), NEW cls, NEW u \in Runs(f), cls[RunAddr(u)] = LARGE,
         NEW s \in Slots
  PROVE  Covers(f, cls, RunAddr(u), s) <=> u <= s \div UnitSlots /\ s \div UnitSlots < u + f.units[u]
<1> DEFINE k == f.units[u]
           a == RunAddr(u)
<1>1. u \in Units /\ u \in Nat /\ k \in 1 .. NUnits /\ NUnits \in Nat
  BY RunsAreHigh, UnitFacts
<1>2. a \div UnitSlots = u /\ a = u * UnitSlots /\ UnitSlots \in Nat \ {0} /\ a \in Nat
  BY <1>1, UnitFacts DEF RunAddr
<1>3. SizeIn(f, cls, a) = k * UnitSlots
  BY <1>2 DEF SizeIn
<1> HIDE DEF k, a
<1>4. k \in Nat /\ k * UnitSlots \in Nat /\ (u + k) * UnitSlots = u * UnitSlots + k * UnitSlots
      /\ u + k \in Nat
  BY <1>1, <1>2, Products
<1>5. s \in Nat
  BY Constants
<1>6. u * UnitSlots <= s <=> u <= s \div UnitSlots
  BY <1>1, <1>2, <1>5, Quotient
<1>7. (u + k) * UnitSlots <= s <=> u + k <= s \div UnitSlots
  BY <1>2, <1>4, <1>5, Quotient
<1>8. PICK q \in Nat : q = s \div UnitSlots
  BY <1>2, <1>5, Division
<1>9. PICK m \in Nat : m = k * UnitSlots
  BY <1>4
<1>10. Covers(f, cls, a, s) <=> a <= s /\ s <= a - 1 + m
  BY <1>2, <1>3, <1>5, <1>9 DEF Covers
<1>11. a <= s <=> u <= q
  BY <1>2, <1>6, <1>8
<1>12. a + m <= s <=> u + k <= q
  BY <1>2, <1>4, <1>7, <1>8, <1>9
<1>13. s <= a - 1 + m <=> ~(a + m <= s)
  BY <1>2, <1>5, <1>9
<1>14. ~(u + k <= q) <=> q < u + k
  BY <1>4, <1>8
<1>15. QED
  BY <1>8, <1>10, <1>11, <1>12, <1>13, <1>14 DEF k, a

(* A slab block covers slots below the bottom frontier only.               *)
LEMMA SlabCovers ==
  ASSUME NEW own, NEW cls \in [Slots -> Classes \cup {LARGE}], NEW f, Layout(own, cls, f),
         FrontierOK(f), NEW b \in SlabBlocks(own, cls), NEW s \in Slots
  PROVE  /\ Covers(f, cls, b, s) <=> b <= s /\ s < b + SlabSizes[cls[b]]
         /\ Covers(f, cls, b, s) => s < f.lo
<1>1. cls[b] # LARGE /\ cls[b] \in Classes /\ b \in Slots
  BY DEF SlabBlocks
<1>2. SlabSizes[cls[b]] \in Nat /\ b \in Nat /\ s \in Nat /\ f.lo \in Nat
  BY <1>1, Constants DEF FrontierOK
<1>3. b + SlabSizes[cls[b]] <= f.lo
  BY DEF Layout, SlabsOK
<1>4. SizeIn(f, cls, b) = SlabSizes[cls[b]]
  BY <1>1 DEF SizeIn
<1>5. Covers(f, cls, b, s) <=> b <= s /\ s < b + SlabSizes[cls[b]]
  BY <1>2, <1>4 DEF Covers
<1>6. QED
  BY <1>2, <1>3, <1>5

(* The blocks that cover a slot: one if it was carved or is of a run.      *)
Taken(f, s) ==
  s < f.lo \/ (s \div UnitSlots \in Units /\ f.units[s \div UnitSlots] # FREE)
Blocks(own) == {b \in Slots : own[b] # NoTag}

LEMMA RunsAreBlocks ==
  ASSUME NEW own, NEW cls, NEW f, Layout(own, cls, f), FrontierOK(f), NEW u \in Runs(f)
  PROVE  RunAddr(u) \in Blocks(own) /\ cls[RunAddr(u)] = LARGE
<1>1. RunAddr(u) \in LargeBlocks(own, cls)
  BY DEF Layout
<1>2. QED
  BY <1>1 DEF LargeBlocks, Blocks

LEMMA LargeIsRun ==
  ASSUME NEW own, NEW cls, NEW f, Layout(own, cls, f), NEW b \in Blocks(own), cls[b] = LARGE
  PROVE  \E u \in Runs(f) : b = RunAddr(u)
<1>1. b \in LargeBlocks(own, cls)
  BY DEF LargeBlocks, Blocks
<1>2. QED
  BY <1>1 DEF Layout

LEMMA SomeCover ==
  ASSUME NEW own, NEW cls \in [Slots -> Classes \cup {LARGE}], NEW f, Layout(own, cls, f),
         FrontierOK(f), NEW s \in Slots, Taken(f, s)
  PROVE  \E b \in Blocks(own) : Covers(f, cls, b, s)
<1>1. CASE s < f.lo
  <2>1. PICK b \in SlabBlocks(own, cls) : b <= s /\ s < b + SlabSizes[cls[b]]
    BY <1>1 DEF Layout, SlabsOK
  <2>2. Covers(f, cls, b, s)
    BY <2>1, SlabCovers
  <2>3. QED
    BY <2>2 DEF SlabBlocks, Blocks
<1>2. CASE ~(s < f.lo)
  <2>1. PICK q \in Units : q = s \div UnitSlots /\ f.units[q] # FREE
    BY <1>2 DEF Taken
  <2>2. q \in Nat
    BY UnitFacts
  <2>3. \E u \in Runs(f) : u <= q /\ q < u + f.units[u]
    <3>1. CASE f.units[q] = INTERIOR
      <4>1. PICK u \in Runs(f) : u < q /\ q < u + f.units[u]
        BY <3>1 DEF FrontierOK, FrontierWellFormed
      <4>2. u \in Nat
        BY RunsAreHigh
      <4>3. QED
        BY <2>2, <4>1, <4>2
    <3>2. CASE f.units[q] # INTERIOR
      <4>1. q \in Runs(f)
        BY <2>1, <3>2 DEF Runs
      <4>2. f.units[q] \in 1 .. NUnits /\ NUnits \in Nat
        BY <4>1, RunsAreHigh, UnitFacts
      <4>3. q <= q /\ q < q + f.units[q]
        BY <2>2, <4>2
      <4>4. QED
        BY <4>1, <4>3
    <3>3. QED
      BY <3>1, <3>2
  <2>4. PICK u \in Runs(f) : u <= s \div UnitSlots /\ s \div UnitSlots < u + f.units[u]
    BY <2>1, <2>3
  <2>5. RunAddr(u) \in Blocks(own) /\ cls[RunAddr(u)] = LARGE
    BY RunsAreBlocks
  <2>6. Covers(f, cls, RunAddr(u), s)
    BY <2>4, <2>5, RunCovers
  <2>7. QED
    BY <2>5, <2>6
<1>3. QED
  BY <1>1, <1>2

LEMMA CoverIsTaken ==
  ASSUME NEW own, NEW cls \in [Slots -> Classes \cup {LARGE}], NEW f, Layout(own, cls, f),
         FrontierOK(f), NEW s \in Slots, NEW b \in Blocks(own), Covers(f, cls, b, s)
  PROVE  Taken(f, s)
<1>1. CASE cls[b] # LARGE
  <2>1. b \in SlabBlocks(own, cls)
    BY <1>1 DEF SlabBlocks, Blocks
  <2>2. s < f.lo
    BY <2>1, SlabCovers
  <2>3. QED
    BY <2>2 DEF Taken
<1>2. CASE cls[b] = LARGE
  <2>1. PICK u \in Runs(f) : b = RunAddr(u)
    BY <1>2, LargeIsRun
  <2>2. u <= s \div UnitSlots /\ s \div UnitSlots < u + f.units[u]
    BY <1>2, <2>1, RunCovers
  <2>3. PICK q \in Nat : q = s \div UnitSlots
    <3>1. s \in Nat /\ UnitSlots \in Nat \ {0}
      BY Constants, UnitFacts
    <3>2. QED
      BY <3>1, Division
  <2>4. /\ u \in Units /\ u \in Nat /\ f.units[u] \in 1 .. NUnits /\ NUnits \in Nat
        /\ u + f.units[u] <= NUnits
    BY RunsAreHigh, UnitFacts
  <2>5. q \in Units
    BY <2>2, <2>3, <2>4 DEF Units
  <2>6. f.units[q] # FREE
    <3>1. CASE q = u
      BY <3>1 DEF Runs
    <3>2. CASE q # u
      <4>1. q \in u + 1 .. u + f.units[u] - 1
        BY <2>2, <2>3, <2>4, <3>2
      <4>2. f.units[q] = INTERIOR
        BY <4>1 DEF FrontierOK, FrontierWellFormed
      <4>3. QED
        BY <2>4, <4>2 DEF FREE, INTERIOR
    <3>3. QED
      BY <3>1, <3>2
  <2>7. QED
    BY <2>3, <2>5, <2>6 DEF Taken
<1>3. QED
  BY <1>1, <1>2

LEMMA RunsAreDisjoint ==
  ASSUME NEW f, FrontierOK(f), NEW u \in Runs(f), NEW v \in Runs(f), NEW q \in Nat,
         u <= q, q < u + f.units[u], v <= q, q < v + f.units[v]
  PROVE  u = v
<1>1. ASSUME NEW x \in Runs(f), NEW y \in Runs(f), x < y, y <= q, q < x + f.units[x] PROVE FALSE
  <2>1. x \in Nat /\ y \in Nat /\ f.units[x] \in 1 .. NUnits /\ NUnits \in Nat
    BY RunsAreHigh, UnitFacts
  <2>2. y \in x + 1 .. x + f.units[x] - 1
    BY <1>1, <2>1
  <2>3. f.units[y] = INTERIOR
    BY <2>2 DEF FrontierOK, FrontierWellFormed
  <2>4. QED
    BY <2>3 DEF Runs
<1>2. u \in Nat /\ v \in Nat
  BY RunsAreHigh
<1>3. ~(u < v) /\ ~(v < u)
  BY <1>1
<1>4. QED
  BY <1>2, <1>3

LEMMA OneCover ==
  ASSUME NEW own, NEW cls \in [Slots -> Classes \cup {LARGE}], NEW f, Layout(own, cls, f),
         FrontierOK(f), NEW s \in Slots, NEW b \in Blocks(own), NEW d \in Blocks(own),
         Covers(f, cls, b, s), Covers(f, cls, d, s)
  PROVE  b = d
<1>1. ASSUME NEW x \in Blocks(own), cls[x] = LARGE, Covers(f, cls, x, s) PROVE ~(s < f.lo)
  <2>1. PICK u \in Runs(f) : x = RunAddr(u)
    BY <1>1, LargeIsRun
  <2>2. f.lo <= RunAddr(u) /\ u \in Nat
    BY RunsAreHigh
  <2>3. x <= s
    BY <1>1 DEF Covers
  <2>4. f.lo \in Nat /\ x \in Nat /\ s \in Nat
    BY <2>1, <2>2, UnitFacts, Constants DEF FrontierOK
  <2>5. QED
    BY <2>1, <2>2, <2>3, <2>4
<1>2. ASSUME NEW x \in Blocks(own), cls[x] # LARGE, Covers(f, cls, x, s)
      PROVE  /\ x \in SlabBlocks(own, cls) /\ x <= s /\ s < x + SlabSizes[cls[x]] /\ s < f.lo
             /\ x \in Nat /\ SlabSizes[cls[x]] \in Nat
  <2>1. x \in SlabBlocks(own, cls) /\ cls[x] \in Classes /\ x \in Slots
    BY <1>2 DEF SlabBlocks, Blocks
  <2>2. QED
    BY <1>2, <2>1, SlabCovers, Constants
<1>3. CASE cls[b] # LARGE /\ cls[d] # LARGE
  <2>1. /\ b \in SlabBlocks(own, cls) /\ b <= s /\ s < b + SlabSizes[cls[b]]
        /\ d \in SlabBlocks(own, cls) /\ d <= s /\ s < d + SlabSizes[cls[d]]
        /\ b \in Nat /\ d \in Nat /\ SlabSizes[cls[b]] \in Nat /\ SlabSizes[cls[d]] \in Nat
        /\ s \in Nat
    BY <1>2, <1>3, Constants
  <2>2. b < d => b + SlabSizes[cls[b]] <= d
    BY <2>1 DEF Layout, SlabsOK
  <2>3. d < b => d + SlabSizes[cls[d]] <= b
    BY <2>1 DEF Layout, SlabsOK
  <2>4. QED
    BY <2>1, <2>2, <2>3
<1>4. CASE cls[b] = LARGE /\ cls[d] = LARGE
  <2>1. PICK u \in Runs(f) : b = RunAddr(u)
    BY <1>4, LargeIsRun
  <2>2. PICK v \in Runs(f) : d = RunAddr(v)
    BY <1>4, LargeIsRun
  <2>3. PICK q \in Nat : q = s \div UnitSlots
    <3>1. s \in Nat /\ UnitSlots \in Nat \ {0}
      BY Constants, UnitFacts
    <3>2. QED
      BY <3>1, Division
  <2>4. u <= q /\ q < u + f.units[u]
    BY <1>4, <2>1, <2>3, RunCovers
  <2>5. v <= q /\ q < v + f.units[v]
    BY <1>4, <2>2, <2>3, RunCovers
  <2>6. QED
    BY <2>1, <2>2, <2>4, <2>5, RunsAreDisjoint
<1>5. CASE cls[b] # LARGE /\ cls[d] = LARGE
  BY <1>1, <1>2, <1>5
<1>6. CASE cls[b] = LARGE /\ cls[d] # LARGE
  BY <1>1, <1>2, <1>6
<1>7. QED
  BY <1>3, <1>4, <1>5, <1>6

(* The claims on a slot are as many as the blocks that cover it.           *)
LEMMA SlotHolders ==
  ASSUME IInv, pool = "mapped", NEW s \in Slots
  PROVE  Cardinality({x \in Claims : s \in Extent(x)}) = IF Taken(frontier, s) THEN 1 ELSE 0
<1>1. TypesInv /\ FrontierOK(frontier)
  BY DEF IInv, TypesInv
<1>2. PICK own, cls :
        \E stk \in [Classes -> Seq(Slots)], chain \in [Threads -> Seq(Slots)] :
          Blocked(own, cls, stk, chain)
  BY DEF IInv
<1>3. PICK stk \in [Classes -> Seq(Slots)], chain \in [Threads -> Seq(Slots)] :
         Blocked(own, cls, stk, chain)
  BY <1>2
<1>4. cls \in [Slots -> Classes \cup {LARGE}] /\ Layout(own, cls, frontier)
  BY <1>3 DEF Blocked
<1> DEFINE At(b) == ClaimAt(own, cls, stk, b)
           X == {x \in Claims : s \in Extent(x)}
<1>5. Claims = {At(b) : b \in Blocks(own)}
  <2>1. ClaimsOn(own, cls, stk, Claims, Blocks(own))
    BY <1>1, <1>3, ClaimsAre DEF Blocks
  <2>2. QED
    BY <2>1 DEF ClaimsOn
<1>6. ASSUME NEW b \in Blocks(own) PROVE s \in Extent(At(b)) <=> Covers(frontier, cls, b, s)
  <2>1. At(b).at = b /\ At(b).class = cls[b]
    BY DEF ClaimAt, Claim
  <2> HIDE DEF At
  <2>2. Extent(At(b)) = b .. b - 1 + SizeIn(frontier, cls, b)
    BY <2>1 DEF Extent, SizeIn
  <2>3. QED
    BY <2>2 DEF Covers
<1> HIDE DEF At
<1>7. CASE Taken(frontier, s)
  <2>1. PICK b \in Blocks(own) : Covers(frontier, cls, b, s)
    BY <1>1, <1>4, <1>7, SomeCover
  <2>2. \A d \in Blocks(own) : Covers(frontier, cls, d, s) => d = b
    BY <1>1, <1>4, <2>1, OneCover
  <2>3. X = {At(b)}
    BY <1>5, <1>6, <2>1, <2>2
  <2>4. Cardinality(X) = 1
    BY <2>3, FS_Singleton
  <2>5. QED
    BY <1>7, <2>4
<1>8. CASE ~Taken(frontier, s)
  <2>1. \A b \in Blocks(own) : ~Covers(frontier, cls, b, s)
    BY <1>1, <1>4, <1>8, CoverIsTaken
  <2>2. X = {}
    BY <1>5, <1>6, <2>1
  <2>3. Cardinality(X) = 0
    BY <2>2, FS_EmptySet
  <2>4. QED
    BY <1>8, <2>3
<1>9. QED
  BY <1>7, <1>8

(* No slot is ever part of two blocks and none is lost, for any number of  *)
(* threads, slots and classes and however the lock-free pushes and pops    *)
(* interleave: a carved slot, or one of a run, has one holder, and a slot  *)
(* between the frontiers has none.  This is what the safety comment on     *)
(* SlabPool's impl promises.                                               *)
THEOREM OneHolder == Spec => []EveryBlockHasOneHolder
<1>1. IInv => EveryBlockHasOneHolder
  <2> SUFFICES ASSUME IInv, pool = "mapped", NEW s \in Slots
               PROVE  Cardinality({x \in Claims : s \in Extent(x)}) =
                        IF s \in {r \in Slots : \/ r < frontier.lo
                                               \/ /\ r \div UnitSlots \in Units
                                                  /\ frontier.units[r \div UnitSlots] # FREE}
                        THEN 1 ELSE 0
    BY DEF EveryBlockHasOneHolder
  <2>1. Cardinality({x \in Claims : s \in Extent(x)}) = IF Taken(frontier, s) THEN 1 ELSE 0
    BY SlotHolders
  <2>2. Taken(frontier, s) <=> s \in {r \in Slots : \/ r < frontier.lo
                                                    \/ /\ r \div UnitSlots \in Units
                                                       /\ frontier.units[r \div UnitSlots] # FREE}
    BY DEF Taken
  <2>3. QED
    BY <2>1, <2>2
<1>2. QED
  BY <1>1, Invariance, PTL
=============================================================================

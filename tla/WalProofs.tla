------------------------------ MODULE WalProofs ------------------------------
(***************************************************************************)
(* What the log promises, for any number of commits, segments, failures    *)
(* and crashes: an acknowledged commit survives, and the bookkeeping that  *)
(* this rests on is never wrong.                                           *)
(*                                                                         *)
(* The argument is about the files a power loss may leave, the unlinked    *)
(* ones included (Files), and about how much of each is synchronized       *)
(* (Durable).  Only the newest of them is ever changed or cut (DiskOK);    *)
(* the handle agrees with them while there is one (HandleOK), and what is  *)
(* durable always suffices to recover (RecoverableOK).                     *)
(***************************************************************************)
EXTENDS Wal, FiniteSetTheorems, FiniteSetsExt, WellFoundedInduction, TLAPS

-----------------------------------------------------------------------------
(* Induction on natural numbers: the set of the numbers that have a        *)
(* property takes the place of the property.                               *)

(* A set of natural numbers that is not empty has a least element.         *)
LEMMA LeastElement ==
  ASSUME NEW T, T \subseteq Nat, T # {}
  PROVE  \E n \in T : \A m \in T : n <= m
<1> DEFINE R == OpToRel(<, Nat)
<1>1. IsWellFoundedOn(R, Nat)
  BY NatLessThanWellFounded
<1>2. \A m, n \in Nat : m < n => <<m, n>> \in R
  BY DEF OpToRel
<1> HIDE DEF R
<1>3. PICK n \in T : \A m \in T : ~(<<m, n>> \in R)
  BY <1>1, WFMin
<1>4. \A m \in T : ~(m < n)
  BY <1>2, <1>3
<1>5. QED
  BY <1>4

(* A set that holds 0 and, up to N, the successor of each number in it,    *)
(* holds 0 .. N.                                                           *)
LEMMA UpTo ==
  ASSUME NEW N \in Nat, NEW S,
         0 \in S,
         \A n \in 1 .. N : n - 1 \in S => n \in S
  PROVE  \A n \in 0 .. N : n \in S
<1> SUFFICES ASSUME NEW k \in 0 .. N, k \notin S
             PROVE  FALSE
  OBVIOUS
<1> DEFINE T == {n \in 0 .. N : n \notin S}
<1>1. PICK n \in T : \A m \in T : n <= m
  <2>1. T \subseteq Nat /\ T # {}
    OBVIOUS
  <2> HIDE DEF T
  <2>2. QED
    BY <2>1, LeastElement
<1>2. n \in 1 .. N
  OBVIOUS
<1>3. n - 1 \in 0 .. N /\ n - 1 \notin T
  BY <1>1, <1>2
<1>4. QED
  BY <1>2, <1>3

(* A set of natural numbers that is not empty and is bounded has a         *)
(* greatest element.                                                       *)
LEMMA GreatestElement ==
  ASSUME NEW T, T \subseteq Nat, T # {}, NEW N \in Nat, \A m \in T : m <= N
  PROVE  \E n \in T : \A m \in T : m <= n
<1> DEFINE D == {N - m : m \in T}
<1>1. \A m \in T : m \in Nat /\ N - m \in Nat
  OBVIOUS
<1>2. D \subseteq Nat /\ D # {}
  BY <1>1
<1>3. PICK d \in D : \A e \in D : d <= e
  <2> HIDE DEF D
  <2>1. QED
    BY <1>2, LeastElement
<1>4. PICK n \in T : d = N - n
  OBVIOUS
<1>5. \A m \in T : N - n <= N - m
  BY <1>3, <1>4
<1>6. QED
  BY <1>1, <1>4, <1>5

(* What Max of the library chooses.                                       *)
LEMMA MaxIs ==
  ASSUME NEW S, S \subseteq Nat, S # {}, NEW N \in Nat, \A m \in S : m <= N
  PROVE  Max(S) \in S /\ \A m \in S : m <= Max(S)
<1>1. PICK n \in S : \A m \in S : m <= n
  BY GreatestElement
<1>2. \E x \in S : \A y \in S : x >= y
  BY <1>1
<1>3. Max(S) \in S /\ \A y \in S : Max(S) >= y
  BY <1>2 DEF Max
<1>4. QED
  BY <1>3

(* What Min of the library chooses.                                        *)
LEMMA MinIs ==
  ASSUME NEW S, S \subseteq Nat, S # {}
  PROVE  Min(S) \in S /\ \A m \in S : Min(S) <= m
<1>1. \E x \in S : \A y \in S : x <= y
  BY LeastElement
<1>2. QED
  BY <1>1 DEF Min

-----------------------------------------------------------------------------


Frames == [kind : {"schema", "mutations", "checkpoint", "torn"},
           seq : Nat, id : Nat, tick : Nat, view : Nat]

-----------------------------------------------------------------------------
(* The inductive invariant.                                                *)

(* The files that are there or may come back.                              *)
Files == [s \in DOMAIN segs \cup DOMAIN removed |->
            IF s \in DOMAIN segs THEN segs[s] ELSE removed[s].frames]
Durable == [s \in DOMAIN segs \cup DOMAIN removed |->
              IF s \in DOMAIN segs THEN synced[s] ELSE removed[s].synced]

Typed(fs, sy) ==
  /\ DOMAIN fs \subseteq Nat /\ DOMAIN sy = DOMAIN fs
  /\ \A s \in DOMAIN fs : fs[s] \in Seq(Frames) /\ sy[s] \in 0 .. Len(fs[s])

(* All but the newest file are sealed: durable to the end.                 *)
Sealed(fs, sy) == \A s, t \in DOMAIN fs : s < t => sy[s] = Len(fs[s])

(* The sequence numbers of a file begin at its name and end before that of *)
(* the next one, and they increase.                                        *)
Partitioned(fs) ==
  \A s \in DOMAIN fs : \A k \in 1 .. Len(fs[s]) : IsMutations(fs[s][k]) =>
    /\ s <= fs[s][k].seq
    /\ \A t \in DOMAIN fs : s < t => fs[s][k].seq < t
    /\ \A j \in 1 .. k - 1 : IsMutations(fs[s][j]) => fs[s][j].seq < fs[s][k].seq

(* Views do not go back, neither in a file nor from one to the next.       *)
Fenced(fs) ==
  /\ \A s \in DOMAIN fs : \A k \in 1 .. Len(fs[s]) : \A j \in 1 .. k - 1 :
       ~IsTorn(fs[s][k]) => fs[s][j].view <= fs[s][k].view
  /\ \A s, t \in DOMAIN fs : s < t =>
       \A j \in 1 .. Len(fs[s]), k \in 1 .. Len(fs[t]) :
         ~IsTorn(fs[t][k]) => fs[s][j].view <= fs[t][k].view

(* A torn frame is the last one of all.                                    *)
TornAtEnd(fs) ==
  \A s \in DOMAIN fs : \A k \in 1 .. Len(fs[s]) : IsTorn(fs[s][k]) =>
    k = Len(fs[s]) /\ \A t \in DOMAIN fs : t <= s

DiskOK(fs, sy) ==
  Typed(fs, sy) /\ Sealed(fs, sy) /\ Partitioned(fs) /\ Fenced(fs) /\ TornAtEnd(fs)

(* Ticks increase from record from on.                                     *)
Ticking(fs, from) ==
  \A s, t \in DOMAIN fs : \A j \in 1 .. Len(fs[s]), k \in 1 .. Len(fs[t]) :
    /\ IsMutations(fs[s][j]) /\ IsMutations(fs[t][k])
    /\ from <= fs[s][j].seq /\ fs[s][j].seq < fs[t][k].seq
    => fs[s][j].tick < fs[t][k].tick

(* The bounds of the model.                                                *)
Bounded(fs, n) ==
  \A s \in DOMAIN fs :
    /\ s <= n
    /\ \A k \in 1 .. Len(fs[s]) :
         /\ fs[s][k].seq <= n /\ fs[s][k].id <= n /\ fs[s][k].view <= MaxViews
         /\ fs[s][k].tick <= n
         /\ IsMutations(fs[s][k]) => 0 < fs[s][k].id /\ fs[s][k].tick < n /\ fs[s][k].seq < n

(* A record with this sequence number or a later one, or the segment it    *)
(* would be in, is durable.                                                *)
Reaches(seq) ==
  \E s \in named : \/ seq <= s
                   \/ \E k \in 1 .. synced[s] : IsMutations(segs[s][k]) /\ seq <= segs[s][k].seq + 1

FilesOK ==
  /\ DOMAIN segs # {} /\ DOMAIN synced = DOMAIN segs
  /\ DOMAIN segs \cap DOMAIN removed = {}
  /\ named \subseteq DOMAIN segs
  /\ \A s \in DOMAIN segs, t \in DOMAIN Files : s < t => s \in named
  /\ pc = "opened" => DOMAIN removed = {}
  /\ pc # "down" => \A s \in DOMAIN Files : \A k \in 1 .. Len(Files[s]) : ~IsTorn(Files[s][k])

IsHandle(w) ==
  w = [active |-> w.active, active_bytes |-> w.active_bytes, next_seq |-> w.next_seq,
       durable_seq |-> w.durable_seq, durable_ends |-> w.durable_ends,
       last_checkpoint |-> w.last_checkpoint, bytes |-> w.bytes,
       pending |-> w.pending, view |-> w.view]

CountsOK ==
  /\ IsHandle(wal) /\ wal.pending \in (0 .. commits) \cup {None}
  /\ world = [content |-> world.content, tick |-> world.tick, dirty |-> world.dirty]
  /\ pc \in Steps \ {"failed"} /\ commits \in 0 .. MaxCommits
  /\ world.tick \in 0 .. commits /\ world.dirty \in BOOLEAN
  /\ pc \in {"written", "synced", "rolling", "logged"} => world.tick < commits
  /\ world.content \subseteq 1 .. commits /\ acked \subseteq 1 .. commits
  /\ run.seq_hi \in 0 .. commits /\ run.content \subseteq 1 .. commits

(* The handle, while there is one.  It is ahead of every file, but for a   *)
(* rollover that is under way or was given up.                             *)
HandleTyped ==
  /\ wal.active \in named /\ wal.next_seq \in 0 .. commits /\ wal.view \in 0 .. MaxViews
  /\ wal.active <= wal.next_seq /\ run.seq_hi <= wal.next_seq

AheadOfFiles ==
  \A s \in DOMAIN Files :
    /\ s <= wal.active \/ s = wal.pending
    /\ \A k \in 1 .. Len(Files[s]) : /\ Files[s][k].view <= wal.view
                                     /\ IsMutations(Files[s][k]) => Files[s][k].seq < wal.next_seq

PendingOK ==
  wal.pending # None => /\ wal.pending \in DOMAIN Files \ named
                        /\ wal.pending = wal.next_seq /\ wal.active < wal.pending
                        /\ pc \notin {"written", "synced", "opened", "acking"}

StepsOK ==
  /\ pc = "rolling" => /\ wal.pending # None
                       /\ wal.pending \in DOMAIN segs /\ Len(segs[wal.pending]) = 1
  /\ pc = "synced" => /\ synced[wal.active] = Len(segs[wal.active])
                      /\ wal.active < wal.next_seq
  /\ pc = "written" =>
       /\ wal.active < wal.next_seq /\ run.seq_hi < wal.next_seq /\ segs[wal.active] # << >>
       /\ LET last == segs[wal.active][Len(segs[wal.active])]
          IN  /\ IsMutations(last) /\ last.seq = wal.next_seq - 1
              /\ last.id = commits /\ last.tick = world.tick

HandleOK == pc # "down" => HandleTyped /\ AheadOfFiles /\ PendingOK /\ StepsOK

(* Records the newest run lacks are older than the tick of the world, but  *)
(* for the one under way.                                                  *)
TicksOK ==
  /\ Ticking(Files, run.seq_hi)
  /\ pc \notin {"down", "opened"} =>
       \A s \in DOMAIN Files : \A k \in 1 .. Len(Files[s]) :
         IsMutations(Files[s][k]) /\ run.seq_hi <= Files[s][k].seq =>
           \/ Files[s][k].tick < world.tick
           \/ /\ Files[s][k].tick = world.tick /\ Files[s][k].seq = wal.next_seq - 1
              /\ pc \in {"written", "synced", "rolling", "logged"}

RecoverableOK ==
  /\ Reaches(run.seq_hi)
  /\ pc \notin {"down", "written"} => Reaches(wal.next_seq)
  /\ \A i \in acked : i \notin run.content =>
       \E s \in named : \E k \in 1 .. synced[s] :
         IsMutations(segs[s][k]) /\ segs[s][k].id = i /\ run.seq_hi <= segs[s][k].seq
  /\ pc \notin {"down", "opened"} =>
       \A i \in acked : i \in world.content \/ (i = commits /\ pc \in {"synced", "rolling", "logged"})

IInv ==
  /\ DiskOK(Files, Durable) /\ Bounded(Files, commits)
  /\ FilesOK /\ CountsOK /\ HandleOK /\ TicksOK /\ RecoverableOK

-----------------------------------------------------------------------------
(* What happens to files.                                                  *)

(* Files disappear, and more of the others becomes durable.                *)
LEMMA DiskShrinks ==
  ASSUME NEW fs, NEW sy, NEW gs, NEW sg, DiskOK(fs, sy),
         DOMAIN gs \subseteq DOMAIN fs, DOMAIN sg = DOMAIN gs,
         \A s \in DOMAIN gs : gs[s] = fs[s] /\ sg[s] \in sy[s] .. Len(fs[s])
  PROVE  DiskOK(gs, sg)
<1>1. Typed(gs, sg)
  BY DEF DiskOK, Typed
<1>2. Sealed(gs, sg)
  <2> SUFFICES ASSUME NEW s \in DOMAIN gs, NEW t \in DOMAIN gs, s < t
               PROVE  sg[s] = Len(gs[s])
    BY DEF Sealed
  <2>1. sy[s] = Len(fs[s]) /\ Len(fs[s]) \in Nat
    BY DEF DiskOK, Sealed, Typed
  <2>2. QED
    BY <2>1
<1>3. Partitioned(gs)
  BY DEF DiskOK, Partitioned
<1>4. Fenced(gs)
  BY DEF DiskOK, Fenced
<1>5. TornAtEnd(gs)
  BY DEF DiskOK, TornAtEnd
<1>6. QED
  BY <1>1, <1>2, <1>3, <1>4, <1>5 DEF DiskOK

(* What an appended frame makes of a sequence of frames.                   *)
LEMMA AppendFrame ==
  ASSUME NEW fr \in Seq(Frames), NEW f \in Frames
  PROVE  /\ Append(fr, f) \in Seq(Frames)
         /\ Len(fr) \in Nat /\ Len(Append(fr, f)) = Len(fr) + 1
         /\ \A k \in 1 .. Len(fr) : Append(fr, f)[k] = fr[k]
         /\ Append(fr, f)[Len(fr) + 1] = f
<1> HIDE DEF Frames
<1>1. QED
  OBVIOUS

(* The newest file gets another frame.                                     *)
LEMMA DiskGrows ==
  ASSUME NEW fs, NEW sy, NEW gs, DiskOK(fs, sy),
         NEW a \in DOMAIN fs, \A t \in DOMAIN fs : t <= a,
         NEW f \in Frames, ~IsTorn(f),
         DOMAIN gs = DOMAIN fs, gs[a] = Append(fs[a], f),
         \A s \in DOMAIN fs : s # a => gs[s] = fs[s],
         \A s \in DOMAIN fs : \A k \in 1 .. Len(fs[s]) :
           /\ ~IsTorn(fs[s][k]) /\ fs[s][k].view <= f.view
           /\ IsMutations(fs[s][k]) /\ IsMutations(f) => fs[s][k].seq < f.seq,
         IsMutations(f) => a <= f.seq
  PROVE  DiskOK(gs, sy)
<1> DEFINE n == Len(fs[a])
<1>1. /\ \A s \in DOMAIN fs : fs[s] \in Seq(Frames) /\ sy[s] \in 0 .. Len(fs[s]) /\ Len(fs[s]) \in Nat
      /\ DOMAIN fs \subseteq Nat /\ DOMAIN sy = DOMAIN fs
  BY DEF DiskOK, Typed
<1>2. /\ gs[a] \in Seq(Frames) /\ n \in Nat /\ Len(gs[a]) = n + 1
      /\ \A k \in 1 .. n : gs[a][k] = fs[a][k]
      /\ gs[a][n + 1] = f
  BY <1>1, AppendFrame
<1> HIDE DEF n
<1>3. Typed(gs, sy)
  <2>1. \A s \in DOMAIN fs : s # a => gs[s] \in Seq(Frames) /\ sy[s] \in 0 .. Len(gs[s])
    BY <1>1
  <2>2. sy[a] \in 0 .. Len(gs[a])
    BY <1>1, <1>2 DEF n
  <2>3. QED
    BY <1>1, <1>2, <2>1, <2>2 DEF Typed
<1>4. Sealed(gs, sy)
  <2> SUFFICES ASSUME NEW s \in DOMAIN fs, NEW t \in DOMAIN fs, s < t
               PROVE  sy[s] = Len(gs[s])
    BY DEF Sealed
  <2>1. s # a
    BY <1>1
  <2>2. QED
    BY <2>1 DEF DiskOK, Sealed
<1>5. \A s \in DOMAIN fs : \A k \in 1 .. Len(gs[s]) :
        \/ k \in 1 .. Len(fs[s]) /\ gs[s][k] = fs[s][k]
        \/ s = a /\ k = n + 1 /\ gs[s][k] = f
  BY <1>2 DEF n
<1>6. \A k \in 1 .. n + 1 : \A j \in 1 .. k - 1 : j \in 1 .. n
  BY <1>2
<1>7. Partitioned(gs)
  <2> SUFFICES ASSUME NEW s \in DOMAIN fs, NEW k \in 1 .. Len(gs[s]), IsMutations(gs[s][k])
               PROVE  /\ s <= gs[s][k].seq
                      /\ \A t \in DOMAIN fs : s < t => gs[s][k].seq < t
                      /\ \A j \in 1 .. k - 1 : IsMutations(gs[s][j]) => gs[s][j].seq < gs[s][k].seq
    BY DEF Partitioned
  <2>1. CASE k \in 1 .. Len(fs[s]) /\ gs[s][k] = fs[s][k]
    <3>1. \A j \in 1 .. k - 1 : gs[s][j] = fs[s][j]
      <4>1. CASE s = a
        BY <1>2, <2>1, <4>1 DEF n
      <4>2. QED
        BY <4>1
    <3>2. QED
      BY <2>1, <3>1 DEF DiskOK, Partitioned
  <2>2. CASE s = a /\ k = n + 1 /\ gs[s][k] = f
    <3>1. \A j \in 1 .. k - 1 : j \in 1 .. Len(fs[a]) /\ gs[s][j] = fs[a][j]
      BY <1>2, <1>6, <2>2 DEF n
    <3>2. \A t \in DOMAIN fs : ~(s < t)
      BY <1>1, <2>2
    <3>3. QED
      BY <2>2, <3>1, <3>2
  <2>3. QED
    BY <1>5, <2>1, <2>2
<1>8. Fenced(gs)
  <2>1. ASSUME NEW s \in DOMAIN fs, NEW k \in 1 .. Len(gs[s]), NEW j \in 1 .. k - 1
        PROVE  gs[s][j].view <= gs[s][k].view
    <3>1. CASE s # a
      BY <3>1 DEF DiskOK, Fenced
    <3>2. CASE s = a /\ k \in 1 .. n
      <4>1. gs[a][k] = fs[a][k] /\ gs[a][j] = fs[a][j] /\ k \in 1 .. Len(fs[a])
        BY <1>2, <3>2 DEF n
      <4>2. QED
        BY <3>2, <4>1 DEF DiskOK, Fenced
    <3>3. CASE s = a /\ k = n + 1
      <4>1. gs[a][k] = f /\ gs[a][j] = fs[a][j] /\ j \in 1 .. Len(fs[a])
        BY <1>2, <1>6, <3>3 DEF n
      <4>2. QED
        BY <3>3, <4>1
    <3>4. QED
      BY <1>2, <3>1, <3>2, <3>3
  <2>2. ASSUME NEW s \in DOMAIN fs, NEW t \in DOMAIN fs, s < t,
               NEW j \in 1 .. Len(gs[s]), NEW k \in 1 .. Len(gs[t])
        PROVE  gs[s][j].view <= gs[t][k].view
    <3>1. s # a /\ gs[s] = fs[s]
      BY <1>1, <2>2
    <3>2. CASE t = a /\ k = n + 1 /\ gs[t][k] = f
      BY <3>1, <3>2
    <3>3. CASE k \in 1 .. Len(fs[t]) /\ gs[t][k] = fs[t][k]
      BY <2>2, <3>1, <3>3 DEF DiskOK, Fenced
    <3>4. QED
      BY <1>5, <3>2, <3>3
  <2>3. QED
    BY <2>1, <2>2 DEF Fenced
<1>9. TornAtEnd(gs)
  BY <1>5 DEF TornAtEnd
<1>10. QED
  BY <1>3, <1>4, <1>7, <1>8, <1>9 DEF DiskOK

(* A new file is begun behind files that are all durable.                  *)
LEMMA DiskRolls ==
  ASSUME NEW fs, NEW sy, NEW gs, NEW sg, DiskOK(fs, sy),
         NEW b \in Nat, \A t \in DOMAIN fs : t < b,
         NEW f \in Frames, f.kind = "schema",
         DOMAIN gs = DOMAIN fs \cup {b}, DOMAIN sg = DOMAIN gs,
         gs[b] = <<f>>, sg[b] = 0,
         \A s \in DOMAIN fs : gs[s] = fs[s] /\ sg[s] = sy[s] /\ sy[s] = Len(fs[s]),
         \A s \in DOMAIN fs : \A k \in 1 .. Len(fs[s]) :
           /\ ~IsTorn(fs[s][k]) /\ fs[s][k].view <= f.view
           /\ IsMutations(fs[s][k]) => fs[s][k].seq < b
  PROVE  DiskOK(gs, sg)
<1>1. /\ \A s \in DOMAIN fs : fs[s] \in Seq(Frames) /\ sy[s] \in 0 .. Len(fs[s]) /\ Len(fs[s]) \in Nat
      /\ DOMAIN fs \subseteq Nat
  BY DEF DiskOK, Typed
<1>2. gs[b] \in Seq(Frames) /\ Len(gs[b]) = 1 /\ gs[b][1] = f
  <2> HIDE DEF Frames
  <2>1. QED
    OBVIOUS
<1>3. ~IsMutations(f) /\ ~IsTorn(f)
  BY DEF IsMutations, IsTorn
<1>4. b \notin DOMAIN fs
  <2>1. ~(b < b)
    OBVIOUS
  <2>2. QED
    BY <2>1
<1>5. Typed(gs, sg)
  <2>1. sg[b] \in 0 .. Len(gs[b])
    BY <1>2
  <2>2. \A s \in DOMAIN fs : gs[s] \in Seq(Frames) /\ sg[s] \in 0 .. Len(gs[s])
    BY <1>1
  <2>3. QED
    BY <1>1, <1>2, <2>1, <2>2 DEF Typed
<1>6. Sealed(gs, sg)
  BY <1>1 DEF Sealed
<1>7. Partitioned(gs)
  <2> SUFFICES ASSUME NEW s \in DOMAIN gs, NEW k \in 1 .. Len(gs[s]), IsMutations(gs[s][k])
               PROVE  /\ s <= gs[s][k].seq
                      /\ \A t \in DOMAIN gs : s < t => gs[s][k].seq < t
                      /\ \A j \in 1 .. k - 1 : IsMutations(gs[s][j]) => gs[s][j].seq < gs[s][k].seq
    BY DEF Partitioned
  <2>1. s # b
    BY <1>2, <1>3
  <2>2. QED
    BY <2>1 DEF DiskOK, Partitioned
<1>8. Fenced(gs)
  <2>1. ASSUME NEW s \in DOMAIN gs, NEW k \in 1 .. Len(gs[s]), NEW j \in 1 .. k - 1
        PROVE  gs[s][j].view <= gs[s][k].view
    <3>1. s # b
      <4>1. \A i \in 1 .. 1 : 1 .. i - 1 = {}
        OBVIOUS
      <4>2. QED
        BY <1>2, <4>1
    <3>2. QED
      BY <3>1 DEF DiskOK, Fenced
  <2>2. ASSUME NEW s \in DOMAIN gs, NEW t \in DOMAIN gs, s < t,
               NEW j \in 1 .. Len(gs[s]), NEW k \in 1 .. Len(gs[t])
        PROVE  gs[s][j].view <= gs[t][k].view
    <3>1. s # b
      BY <1>1, <2>2
    <3>2. CASE t = b
      BY <1>2, <3>1, <3>2
    <3>3. CASE t # b
      BY <2>2, <3>1, <3>3 DEF DiskOK, Fenced
    <3>4. QED
      BY <3>2, <3>3
  <2>3. QED
    BY <2>1, <2>2 DEF Fenced
<1>9. TornAtEnd(gs)
  BY <1>2, <1>3 DEF TornAtEnd
<1>10. QED
  BY <1>5, <1>6, <1>7, <1>8, <1>9 DEF DiskOK

-----------------------------------------------------------------------------
(* What the invariant says, in the form the steps below use.               *)

LEMMA FilesTyped ==
  ASSUME IInv
  PROVE  /\ DOMAIN Files = DOMAIN segs \cup DOMAIN removed /\ DOMAIN Durable = DOMAIN Files
         /\ \A s \in DOMAIN Files : /\ s \in Nat /\ Files[s] \in Seq(Frames)
                                   /\ Len(Files[s]) \in Nat /\ Durable[s] \in 0 .. Len(Files[s])
                                   /\ \A k \in 1 .. Len(Files[s]) :
                                        /\ Files[s][k].seq \in Nat /\ Files[s][k].id \in Nat
                                        /\ Files[s][k].tick \in Nat /\ Files[s][k].view \in Nat
         /\ \A s \in DOMAIN segs : /\ s \in DOMAIN Files /\ Files[s] = segs[s]
                                  /\ Durable[s] = synced[s]
         /\ \A s \in DOMAIN removed : /\ s \in DOMAIN Files /\ s \notin DOMAIN segs
                                     /\ Files[s] = removed[s].frames
                                     /\ Durable[s] = removed[s].synced
<1>1. Typed(Files, Durable) /\ DOMAIN segs \cap DOMAIN removed = {}
  BY DEF IInv, DiskOK, FilesOK
<1>2. DOMAIN Files = DOMAIN segs \cup DOMAIN removed /\ DOMAIN Durable = DOMAIN Files
  BY DEF Files, Durable
<1>3. \A s \in DOMAIN segs : Files[s] = segs[s] /\ Durable[s] = synced[s]
  BY DEF Files, Durable
<1>4. \A s \in DOMAIN removed : /\ s \notin DOMAIN segs /\ Files[s] = removed[s].frames
                              /\ Durable[s] = removed[s].synced
  BY <1>1 DEF Files, Durable
<1>5. \A s \in DOMAIN Files : /\ s \in Nat /\ Files[s] \in Seq(Frames)
                           /\ Len(Files[s]) \in Nat /\ Durable[s] \in 0 .. Len(Files[s])
  BY <1>1 DEF Typed
<1>6. \A s \in DOMAIN Files : \A k \in 1 .. Len(Files[s]) : Files[s][k] \in Frames
  BY <1>5
<1>7. \A f \in Frames : f.seq \in Nat /\ f.id \in Nat /\ f.tick \in Nat /\ f.view \in Nat
  BY DEF Frames
<1>8. QED
  BY <1>2, <1>3, <1>4, <1>5, <1>6, <1>7

(* A step that changes no file.                                            *)
LEMMA SameFiles ==
  ASSUME IInv, UNCHANGED diskVars
  PROVE  /\ Files' = Files /\ Durable' = Durable /\ DiskOK(Files, Durable)'
         /\ \A seq : Reaches(seq)' <=> Reaches(seq)
<1>1. Files' = Files /\ Durable' = Durable
  BY DEF Files, Durable, diskVars
<1>2. QED
  BY <1>1 DEF IInv, Reaches, diskVars

LEMMA BumpStep == ASSUME IInv, Bump PROVE IInv'
<1>1. Files' = Files /\ Durable' = Durable /\ DiskOK(Files, Durable)'
  BY SameFiles DEF Bump
<1>2. /\ IsHandle(wal)' /\ wal'.active = wal.active /\ wal'.next_seq = wal.next_seq
      /\ wal'.pending = wal.pending /\ wal'.view = wal.view + 1
      /\ pc = "idle" /\ wal.view < MaxViews
  BY DEF Bump, IInv, CountsOK, IsHandle
<1>3. UNCHANGED <<segs, synced, named, removed, pc, world, run, acked, commits>>
  BY DEF Bump, diskVars, countVars
<1>4. CountsOK' /\ FilesOK' /\ RecoverableOK'
  BY <1>1, <1>2, <1>3 DEF IInv, CountsOK, FilesOK, RecoverableOK, Reaches
<1>5. Bounded(Files, commits)'
  BY <1>1, <1>3 DEF IInv
<1>6. HandleOK'
  <2>1. \A s \in DOMAIN Files : \A k \in 1 .. Len(Files[s]) : Files[s][k].view <= wal'.view
    BY <1>2, FilesTyped DEF IInv, HandleOK, HandleTyped, AheadOfFiles, PendingOK, StepsOK
  <2>2. wal'.view \in 0 .. MaxViews
    BY <1>2, WalAssumption DEF IInv, HandleOK, HandleTyped, AheadOfFiles, PendingOK, StepsOK, WalAssumption
  <2>3. QED
    BY <1>1, <1>2, <1>3, <2>1, <2>2 DEF IInv, HandleOK, HandleTyped, AheadOfFiles, PendingOK, StepsOK
<1>7. TicksOK'
  BY <1>1, <1>2, <1>3 DEF IInv, TicksOK
<1>8. QED
  BY <1>1, <1>4, <1>5, <1>6, <1>7 DEF IInv

(* A failure that leaves everything to a later call, and a crash of the    *)
(* process.                                                                *)
LEMMA GivenUpStep ==
  ASSUME IInv, RollCreateFails \/ CheckpointFails \/ AckSyncFails \/ ProcessCrash
  PROVE  IInv'
<1>1. UNCHANGED <<segs, synced, named, removed, wal, world, run, acked, commits>>
  BY DEF RollCreateFails, CheckpointFails, AckSyncFails, ProcessCrash, Crash, diskVars
<1>2. Files' = Files /\ Durable' = Durable /\ DiskOK(Files, Durable)'
  BY <1>1, SameFiles DEF diskVars
<1>3. \/ pc = "synced" /\ pc' = "logged"
      \/ pc \in {"checkpoint", "flushed", "acking"} /\ pc' = "idle"
      \/ pc' = "down"
  BY DEF RollCreateFails, CheckpointFails, AckSyncFails, ProcessCrash, Crash
<1>4. pc # "down"
  BY DEF RollCreateFails, CheckpointFails, AckSyncFails, ProcessCrash
<1>5. FilesOK' /\ Bounded(Files, commits)'
  BY <1>1, <1>2, <1>3, <1>4 DEF IInv, FilesOK
<1>6. CountsOK'
  BY <1>1, <1>3 DEF IInv, CountsOK, Steps
<1>7. HandleOK'
  BY <1>1, <1>2, <1>3, <1>4 DEF IInv, HandleOK, HandleTyped, AheadOfFiles, PendingOK, StepsOK
<1>8. TicksOK'
  BY <1>1, <1>2, <1>3 DEF IInv, TicksOK
<1>9. RecoverableOK'
  BY <1>1, <1>3 DEF IInv, RecoverableOK, Reaches
<1>10. QED
  BY <1>2, <1>5, <1>6, <1>7, <1>8, <1>9 DEF IInv

LEMMA ApplyStep == ASSUME IInv, Apply PROVE IInv'
<1>1. /\ UNCHANGED <<segs, synced, named, removed, wal, run, acked, commits>>
      /\ pc = "logged" /\ pc' \in {"checkpoint", "idle"}
  BY DEF Apply, diskVars, countVars
<1>2. Files' = Files /\ Durable' = Durable /\ DiskOK(Files, Durable)'
  BY <1>1, SameFiles DEF diskVars
<1>3. PICK dirties \in BOOLEAN :
        world' = [content |-> world.content \cup {commits}, tick |-> world.tick + 1,
                  dirty |-> world.dirty \/ dirties]
  BY DEF Apply
<1>4. world.tick \in Nat /\ world.tick < commits /\ commits \in Nat
  BY <1>1 DEF IInv, CountsOK
<1>5. FilesOK' /\ Bounded(Files, commits)'
  BY <1>1, <1>2 DEF IInv, FilesOK
<1>6. CountsOK'
  <2>1. world'.dirty \in BOOLEAN
    BY <1>3
  <2>2. world' = [content |-> world'.content, tick |-> world'.tick, dirty |-> world'.dirty]
    BY <1>3
  <2>3. world'.content \subseteq 1 .. commits /\ world'.tick \in 0 .. commits
    BY <1>3, <1>4 DEF IInv, CountsOK
  <2>4. QED
    BY <1>1, <2>1, <2>2, <2>3 DEF IInv, CountsOK, Steps
<1>7. HandleOK'
  BY <1>1, <1>2 DEF IInv, HandleOK, HandleTyped, AheadOfFiles, PendingOK, StepsOK
<1>8. TicksOK'
  <2>1. world'.tick = world.tick + 1
    BY <1>3
  <2>2. QED
    BY <1>1, <1>2, <1>4, <2>1, FilesTyped DEF IInv, TicksOK
<1>9. RecoverableOK'
  <2>1. world'.content = world.content \cup {commits}
    BY <1>3
  <2>2. QED
    BY <1>1, <2>1 DEF IInv, RecoverableOK, Reaches
<1>10. QED
  BY <1>2, <1>5, <1>6, <1>7, <1>8, <1>9 DEF IInv

LEMMA FlushStep == ASSUME IInv, Flush PROVE IInv'
<1>1. /\ UNCHANGED <<segs, synced, named, removed, wal, acked, commits>>
      /\ pc = "checkpoint" /\ pc' = "flushed"
  BY DEF Flush, diskVars, countVars
<1>2. Files' = Files /\ Durable' = Durable /\ DiskOK(Files, Durable)'
  BY <1>1, SameFiles DEF diskVars
<1>3. FilesOK' /\ Bounded(Files, commits)'
  BY <1>1, <1>2 DEF IInv, FilesOK
<1>4. /\ world'.content = world.content /\ world'.tick = world.tick /\ world'.dirty \in BOOLEAN
      /\ world' = [content |-> world'.content, tick |-> world'.tick, dirty |-> world'.dirty]
  <2>1. CASE world.dirty
    <3>1. world' = [world EXCEPT !.dirty = FALSE]
      BY <2>1 DEF Flush
    <3>2. QED
      BY <3>1 DEF IInv, CountsOK
  <2>2. CASE ~world.dirty
    BY <2>2 DEF Flush, IInv, CountsOK
  <2>3. QED
    BY <2>1, <2>2
<1>5. \/ run' = run
      \/ /\ run'.seq_hi = wal.next_seq /\ run'.content = world.content
         /\ wal.next_seq \in 0 .. commits
  BY <1>1 DEF Flush, IInv, HandleOK, HandleTyped, AheadOfFiles, PendingOK, StepsOK
<1>6. CountsOK'
  BY <1>1, <1>4, <1>5 DEF IInv, CountsOK, Steps
<1>7. HandleOK'
  BY <1>1, <1>2, <1>5 DEF IInv, HandleOK, HandleTyped, AheadOfFiles, PendingOK, StepsOK
<1>8. run.seq_hi <= run'.seq_hi /\ run.seq_hi \in Nat /\ run'.seq_hi \in Nat
  BY <1>1, <1>5 DEF IInv, HandleOK, HandleTyped, AheadOfFiles, PendingOK, StepsOK, CountsOK
<1>9. TicksOK'
  <2>1. \A s \in DOMAIN Files : \A k \in 1 .. Len(Files[s]) :
          run'.seq_hi <= Files[s][k].seq => run.seq_hi <= Files[s][k].seq
    BY <1>8, FilesTyped
  <2>2. Ticking(Files, run'.seq_hi)
    BY <2>1 DEF IInv, TicksOK, Ticking
  <2>3. QED
    BY <1>1, <1>2, <1>4, <2>1, <2>2 DEF IInv, TicksOK
<1>10. RecoverableOK'
  <2>1. Reaches(run.seq_hi) /\ Reaches(wal.next_seq)
    BY <1>1 DEF IInv, RecoverableOK
  <2>2. \A i \in acked : i \in world.content
    BY <1>1 DEF IInv, RecoverableOK
  <2>3. QED
    BY <1>1, <1>4, <1>5, <2>1, <2>2 DEF IInv, RecoverableOK, Reaches
<1>11. QED
  BY <1>2, <1>3, <1>6, <1>7, <1>9, <1>10 DEF IInv

LEMMA AppendSyncStep == ASSUME IInv, AppendSync PROVE IInv'
<1>1. /\ UNCHANGED <<segs, named, removed, world, run, commits>>
      /\ acked' = acked \cup {commits} /\ wal' = Published(wal)
      /\ synced' = [synced EXCEPT ![wal.active] = Len(segs[wal.active])]
      /\ pc = "written" /\ pc' \in {"synced", "logged"}
  BY DEF AppendSync, countVars
<1>2. /\ IsHandle(wal)' /\ wal'.active = wal.active /\ wal'.next_seq = wal.next_seq
      /\ wal'.pending = wal.pending /\ wal'.view = wal.view
  BY <1>1 DEF IInv, CountsOK, IsHandle, Published
<1>3. wal.active \in named /\ wal.active \in DOMAIN segs /\ DOMAIN synced = DOMAIN segs
  BY <1>1 DEF IInv, HandleOK, HandleTyped, AheadOfFiles, PendingOK, StepsOK, FilesOK
<1>4. /\ Files' = Files /\ DOMAIN Durable' = DOMAIN Files
      /\ \A s \in DOMAIN Files : Durable'[s] = IF s = wal.active THEN Len(Files[s]) ELSE Durable[s]
  BY <1>1, <1>3 DEF Files, Durable
<1>5. DiskOK(Files, Durable)'
  <2>1. \A s \in DOMAIN Files : Durable'[s] \in Durable[s] .. Len(Files[s])
    BY <1>4, FilesTyped
  <2>2. QED
    BY <1>4, <2>1, DiskShrinks DEF IInv
<1>6. FilesOK' /\ Bounded(Files, commits)'
  BY <1>1, <1>3, <1>4 DEF IInv, FilesOK
<1>7. CountsOK'
  <2>1. commits \in 1 .. commits
    BY <1>1 DEF IInv, CountsOK
  <2>2. QED
    BY <1>1, <1>2, <2>1 DEF IInv, CountsOK, Steps
<1>8. HandleOK'
  BY <1>1, <1>2, <1>3, <1>4 DEF IInv, HandleOK, HandleTyped, AheadOfFiles, PendingOK, StepsOK
<1>9. TicksOK'
  BY <1>1, <1>2, <1>4 DEF IInv, TicksOK
<1>10. /\ synced'[wal.active] = Len(segs[wal.active])
       /\ \A s \in named : synced[s] <= synced'[s] /\ synced[s] \in Nat /\ synced'[s] \in Nat
  BY <1>1, <1>3, FilesTyped DEF IInv, FilesOK
<1>11. \A s \in named : \A k \in 1 .. synced[s] : k \in 1 .. synced'[s]
  BY <1>10
<1>12. PICK k \in 1 .. synced'[wal.active] :
         /\ IsMutations(segs[wal.active][k]) /\ segs[wal.active][k].seq = wal.next_seq - 1
         /\ segs[wal.active][k].id = commits
  <2>1. segs[wal.active] # << >> /\ segs[wal.active] \in Seq(Frames)
    BY <1>1, <1>3, FilesTyped DEF IInv, HandleOK, HandleTyped, AheadOfFiles, PendingOK, StepsOK
  <2>2. Len(segs[wal.active]) \in 1 .. Len(segs[wal.active])
    BY <2>1
  <2>3. QED
    BY <1>1, <1>10, <2>2 DEF IInv, HandleOK, HandleTyped, AheadOfFiles, PendingOK, StepsOK
<1>13. wal.next_seq - 1 + 1 = wal.next_seq /\ run.seq_hi <= wal.next_seq - 1
  BY <1>1 DEF IInv, HandleOK, HandleTyped, AheadOfFiles, PendingOK, StepsOK, CountsOK
<1>14. RecoverableOK'
  <2>1. \A seq : Reaches(seq) => Reaches(seq)'
    BY <1>1, <1>11 DEF Reaches
  <2>2. Reaches(wal.next_seq)'
    <3>1. wal.next_seq <= segs[wal.active][k].seq + 1
      <4>1. wal.next_seq \in Nat
        BY <1>1 DEF IInv, HandleOK, HandleTyped, AheadOfFiles, PendingOK, StepsOK
      <4>2. QED
        BY <1>12, <1>13, <4>1
    <3>2. QED
      BY <1>1, <1>2, <1>3, <1>12, <3>1 DEF Reaches
  <2>3. Reaches(run.seq_hi)'
    BY <1>1, <2>1 DEF IInv, RecoverableOK
  <2>4. \A i \in acked' : i \notin run'.content =>
          \E s \in named' : \E j \in 1 .. synced'[s] :
            IsMutations(segs'[s][j]) /\ segs'[s][j].id = i /\ run'.seq_hi <= segs'[s][j].seq
    BY <1>1, <1>3, <1>11, <1>12, <1>13 DEF IInv, RecoverableOK
  <2>5. \A i \in acked' : i \in world'.content \/ i = commits'
    BY <1>1 DEF IInv, RecoverableOK
  <2>6. QED
    BY <1>1, <2>2, <2>3, <2>4, <2>5 DEF RecoverableOK
<1>15. QED
  BY <1>5, <1>6, <1>7, <1>8, <1>9, <1>14 DEF IInv

LEMMA AckSyncStep == ASSUME IInv, AckSync PROVE IInv'
<1>1. /\ UNCHANGED <<segs, named, removed, world, run, acked, commits>>
      /\ wal' = Published(wal)
      /\ synced' = [synced EXCEPT ![wal.active] = Len(segs[wal.active])]
      /\ pc = "acking" /\ pc' = "idle"
  BY DEF AckSync, countVars
<1>2. /\ IsHandle(wal)' /\ wal'.active = wal.active /\ wal'.next_seq = wal.next_seq
      /\ wal'.pending = wal.pending /\ wal'.view = wal.view
  BY <1>1 DEF IInv, CountsOK, IsHandle, Published
<1>3. wal.active \in named /\ wal.active \in DOMAIN segs /\ DOMAIN synced = DOMAIN segs
  BY <1>1 DEF IInv, HandleOK, HandleTyped, AheadOfFiles, PendingOK, StepsOK, FilesOK
<1>4. /\ Files' = Files /\ DOMAIN Durable' = DOMAIN Files
      /\ \A s \in DOMAIN Files : Durable'[s] = IF s = wal.active THEN Len(Files[s]) ELSE Durable[s]
  BY <1>1, <1>3 DEF Files, Durable
<1>5. DiskOK(Files, Durable)'
  <2>1. \A s \in DOMAIN Files : Durable'[s] \in Durable[s] .. Len(Files[s])
    BY <1>4, FilesTyped
  <2>2. QED
    BY <1>4, <2>1, DiskShrinks DEF IInv
<1>6. FilesOK' /\ Bounded(Files, commits)'
  BY <1>1, <1>3, <1>4 DEF IInv, FilesOK
<1>7. CountsOK'
  BY <1>1, <1>2 DEF IInv, CountsOK, Steps
<1>8. HandleOK'
  BY <1>1, <1>2, <1>3, <1>4 DEF IInv, HandleOK, HandleTyped, AheadOfFiles, PendingOK, StepsOK
<1>9. TicksOK'
  BY <1>1, <1>2, <1>4 DEF IInv, TicksOK
<1>10. \A s \in named : synced[s] <= synced'[s] /\ synced[s] \in Nat /\ synced'[s] \in Nat
  BY <1>1, <1>3, FilesTyped DEF IInv, FilesOK
<1>11. \A s \in named : \A k \in 1 .. synced[s] : k \in 1 .. synced'[s]
  BY <1>10
<1>12. RecoverableOK'
  <2>1. \A seq : Reaches(seq) => Reaches(seq)'
    BY <1>1, <1>11 DEF Reaches
  <2>2. Reaches(wal.next_seq)' /\ Reaches(run.seq_hi)'
    BY <1>1, <1>2, <2>1 DEF IInv, RecoverableOK
  <2>3. QED
    BY <1>1, <1>11, <2>2 DEF IInv, RecoverableOK
<1>13. QED
  BY <1>5, <1>6, <1>7, <1>8, <1>9, <1>12 DEF IInv

(* The new segment: behind every other file, which are all durable.        *)
LEMMA RollCreateStep == ASSUME IInv, RollCreate PROVE IInv'
<1> DEFINE b == wal.next_seq
<1>1. /\ UNCHANGED <<named, removed, world, run, acked, commits>>
      /\ segs' = With(segs, b, <<Schema(wal.view)>>)
      /\ synced' = With(synced, b, 0) /\ b \notin DOMAIN segs
      /\ wal' = [wal EXCEPT !.pending = b]
      /\ pc = "synced" /\ pc' = "rolling"
  BY DEF RollCreate, countVars
<1>2. /\ IsHandle(wal)' /\ wal'.active = wal.active /\ wal'.next_seq = wal.next_seq
      /\ wal'.pending = b /\ wal'.view = wal.view
  BY <1>1 DEF IInv, CountsOK, IsHandle
<1>3. /\ wal.active \in named /\ wal.active \in DOMAIN segs /\ DOMAIN synced = DOMAIN segs
      /\ wal.pending = None /\ wal.active < b /\ b \in Nat /\ b <= commits /\ wal.view \in Nat
      /\ wal.view <= MaxViews /\ b # None
      /\ synced[wal.active] = Len(segs[wal.active])
  BY <1>1, WalAssumption DEF IInv, HandleOK, HandleTyped, AheadOfFiles, PendingOK, StepsOK, FilesOK, CountsOK, WalAssumption
<1>4. \A s \in DOMAIN Files : s <= wal.active /\ s < b
  <2>1. \A s \in DOMAIN Files : s <= wal.active /\ s \in Nat /\ wal.active \in Nat
    <3>1. None \notin Nat
      BY WalAssumption DEF WalAssumption
    <3>2. QED
      BY <1>1, <1>3, <3>1, FilesTyped DEF IInv, HandleOK, HandleTyped, AheadOfFiles, PendingOK, StepsOK
  <2>2. QED
    BY <1>3, <2>1
<1>5. b \notin DOMAIN Files
  <2>1. ~(b < b)
    BY <1>3
  <2>2. QED
    BY <1>4, <2>1
<1>6. Schema(wal.view) \in Frames /\ Schema(wal.view).kind = "schema" /\ Schema(wal.view).view = wal.view
      /\ Schema(wal.view).seq = 0 /\ Schema(wal.view).id = 0 /\ Schema(wal.view).tick = 0
  BY <1>3 DEF Schema, Frames
<1>7. /\ DOMAIN Files' = DOMAIN Files \cup {b} /\ DOMAIN Durable' = DOMAIN Files'
      /\ Files'[b] = <<Schema(wal.view)>> /\ Durable'[b] = 0
      /\ \A s \in DOMAIN Files : Files'[s] = Files[s] /\ Durable'[s] = Durable[s]
  BY <1>1, <1>3, <1>5, FilesTyped DEF Files, Durable, With
<1> HIDE DEF b
<1>8. \A s \in DOMAIN Files : Durable[s] = Len(Files[s])
  <2> SUFFICES ASSUME NEW s \in DOMAIN Files PROVE Durable[s] = Len(Files[s])
    OBVIOUS
  <2>1. CASE s = wal.active
    BY <1>3, <2>1, FilesTyped
  <2>2. CASE s # wal.active
    <3>1. s < wal.active /\ wal.active \in DOMAIN Files
      BY <1>3, <1>4, <2>2, FilesTyped
    <3>2. QED
      BY <3>1 DEF IInv, DiskOK, Sealed
  <2>3. QED
    BY <2>1, <2>2
<1>9. \A s \in DOMAIN Files : \A k \in 1 .. Len(Files[s]) :
        /\ ~IsTorn(Files[s][k]) /\ Files[s][k].view <= wal.view
        /\ IsMutations(Files[s][k]) => Files[s][k].seq < b
  BY <1>1 DEF IInv, FilesOK, HandleOK, HandleTyped, AheadOfFiles, PendingOK, StepsOK, b
<1>10. DiskOK(Files, Durable)'
  BY <1>3, <1>4, <1>6, <1>7, <1>8, <1>9, DiskRolls DEF IInv
<1>11. Len(Files'[b]) = 1 /\ Files'[b][1] = Schema(wal.view)
  BY <1>7
<1>12. ~IsMutations(Schema(wal.view)) /\ ~IsTorn(Schema(wal.view))
  BY <1>6 DEF IsMutations, IsTorn
<1>13. \A s \in DOMAIN Files' : \A k \in 1 .. Len(Files'[s]) :
         \/ s \in DOMAIN Files /\ Files'[s] = Files[s]
         \/ s = b /\ Files'[s][k] = Schema(wal.view)
  BY <1>7, <1>11
<1>14. Bounded(Files, commits)'
  BY <1>1, <1>3, <1>6, <1>7, <1>12, <1>13 DEF IInv, Bounded, CountsOK
<1>15. FilesOK'
  <2>1. DOMAIN segs' = DOMAIN segs \cup {b} /\ DOMAIN synced' = DOMAIN segs'
    BY <1>1, <1>3 DEF With
  <2>2. DOMAIN segs' \cap DOMAIN removed' = {} /\ DOMAIN segs' # {}
    BY <1>1, <1>5, <2>1, FilesTyped DEF IInv, FilesOK
  <2>3. \A s \in DOMAIN segs', t \in DOMAIN Files' : s < t => s \in named'
    <3> SUFFICES ASSUME NEW s \in DOMAIN segs', NEW t \in DOMAIN Files', s < t PROVE s \in named
      BY <1>1
    <3>1. s \in DOMAIN segs
      BY <1>3, <1>4, <1>7, <2>1, FilesTyped
    <3>2. CASE s = wal.active
      BY <1>3, <3>2
    <3>3. CASE s # wal.active
      <4>1. s < wal.active /\ wal.active \in DOMAIN Files
        BY <1>3, <1>4, <3>1, <3>3, FilesTyped
      <4>2. QED
        BY <3>1, <4>1 DEF IInv, FilesOK
    <3>4. QED
      BY <3>2, <3>3
  <2>4. \A s \in DOMAIN Files' : \A k \in 1 .. Len(Files'[s]) : ~IsTorn(Files'[s][k])
    BY <1>9, <1>12, <1>13
  <2>5. QED
    BY <1>1, <2>1, <2>2, <2>3, <2>4 DEF IInv, FilesOK
<1>16. CountsOK'
  <2>1. wal'.pending \in 0 .. commits
    BY <1>2, <1>3
  <2>2. QED
    BY <1>1, <1>2, <2>1 DEF IInv, CountsOK, Steps
<1>17. HandleOK'
  <2>1. AheadOfFiles'
    BY <1>2, <1>3, <1>4, <1>6, <1>7, <1>9, <1>12, <1>13 DEF AheadOfFiles, b
  <2>2. wal'.pending \in DOMAIN Files' \ named'
    BY <1>1, <1>2, <1>7 DEF IInv, FilesOK
  <2>3. wal.next_seq \in 0 .. commits /\ wal.view \in 0 .. MaxViews /\ run.seq_hi <= wal.next_seq
    BY <1>1 DEF IInv, HandleOK, HandleTyped, AheadOfFiles, PendingOK, StepsOK
  <2>4. wal'.pending = wal'.next_seq /\ wal'.active < wal'.pending /\ wal'.active <= wal'.next_seq
    BY <1>2, <1>3, FilesTyped DEF b
  <2>5. /\ pc' = "rolling" /\ wal'.active \in named' /\ wal'.next_seq \in 0 .. commits'
        /\ wal'.view \in 0 .. MaxViews /\ run'.seq_hi <= wal'.next_seq
        /\ wal'.pending # None
    BY <1>1, <1>2, <1>3, <2>3
  <2>6. StepsOK'
    <3>1. b \in DOMAIN segs' /\ Len(segs'[b]) = 1
      BY <1>1 DEF With
    <3>2. QED
      BY <1>2, <2>5, <3>1 DEF StepsOK
  <2>7. PendingOK'
    BY <2>2, <2>4, <2>5 DEF PendingOK
  <2>8. HandleTyped'
    BY <2>4, <2>5 DEF HandleTyped
  <2>9. QED
    BY <2>1, <2>6, <2>7, <2>8 DEF HandleOK
<1>18. TicksOK'
  <2>1. Ticking(Files, run.seq_hi)'
    BY <1>1, <1>12, <1>13 DEF IInv, TicksOK, Ticking
  <2>2. QED
    BY <1>1, <1>2, <1>12, <1>13, <2>1 DEF IInv, TicksOK
<1>19. RecoverableOK'
  <2>1. \A s \in named : s \in DOMAIN segs /\ segs'[s] = segs[s] /\ synced'[s] = synced[s]
    BY <1>1, <1>3 DEF IInv, FilesOK, With
  <2>2. \A seq : Reaches(seq) => Reaches(seq)'
    BY <1>1, <2>1 DEF Reaches
  <2>3. Reaches(wal.next_seq)' /\ Reaches(run.seq_hi)'
    BY <1>1, <1>2, <2>2 DEF IInv, RecoverableOK
  <2>4. QED
    BY <1>1, <2>1, <2>3 DEF IInv, RecoverableOK
<1>20. QED
  BY <1>10, <1>14, <1>15, <1>16, <1>17, <1>18, <1>19 DEF IInv

LEMMA RollPublishStep == ASSUME IInv, RollPublish PROVE IInv'
<1> DEFINE b == wal.pending
<1>1. /\ UNCHANGED <<segs, world, run, acked, commits>>
      /\ synced' = [synced EXCEPT ![b] = 1] /\ named' = named \cup {b} /\ removed' = << >>
      /\ pc = "rolling" /\ pc' = "logged"
  BY DEF RollPublish, countVars
<1>2. /\ IsHandle(wal)' /\ wal'.active = b /\ wal'.next_seq = wal.next_seq
      /\ wal'.pending = None /\ wal'.view = wal.view
  BY DEF RollPublish, IInv, CountsOK, IsHandle, Published
<1>3. /\ b \in DOMAIN segs /\ Len(segs[b]) = 1 /\ wal.active < b /\ b = wal.next_seq
      /\ wal.next_seq \in Nat /\ DOMAIN synced = DOMAIN segs /\ b # None
  BY <1>1 DEF IInv, HandleOK, HandleTyped, PendingOK, StepsOK, FilesOK
<1>4. /\ DOMAIN Files' = DOMAIN segs /\ DOMAIN Durable' = DOMAIN segs
      /\ \A s \in DOMAIN segs : /\ Files'[s] = Files[s]
                              /\ Durable'[s] = IF s = b THEN 1 ELSE Durable[s]
  BY <1>1, <1>3 DEF Files, Durable
<1> HIDE DEF b
<1>5. DiskOK(Files, Durable)'
  <2>1. \A s \in DOMAIN segs : Durable'[s] \in Durable[s] .. Len(Files[s])
    <3>1. \A s \in DOMAIN segs : Durable[s] \in 0 .. Len(Files[s]) /\ Len(Files[s]) \in Nat
      BY FilesTyped
    <3>2. Len(Files[b]) = 1
      BY <1>3, FilesTyped
    <3>3. 1 \in Durable[b] .. Len(Files[b])
      <4>1. Durable[b] \in 0 .. 1
        BY <1>3, <3>1, <3>2
      <4>2. QED
        BY <3>2, <4>1
    <3>4. \A s \in DOMAIN segs : Durable[s] \in Durable[s] .. Len(Files[s])
      BY <3>1
    <3>5. QED
      BY <1>4, <3>3, <3>4
  <2>2. DOMAIN segs \subseteq DOMAIN Files
    BY FilesTyped
  <2>3. QED
    BY <1>4, <2>1, <2>2, DiskShrinks DEF IInv
<1>6. DOMAIN Files' \subseteq DOMAIN Files /\ \A s \in DOMAIN Files' : Files'[s] = Files[s]
  BY <1>4, FilesTyped
<1>7. FilesOK' /\ Bounded(Files, commits)'
  BY <1>1, <1>3, <1>4, <1>6 DEF IInv, FilesOK, Bounded
<1>8. CountsOK'
  BY <1>1, <1>2 DEF IInv, CountsOK, Steps
<1>9. HandleOK'
  <2>1. HandleTyped'
    BY <1>1, <1>2, <1>3 DEF IInv, HandleOK, HandleTyped
  <2>2. AheadOfFiles'
    <3>1. \A s \in DOMAIN Files : s <= b
      <4>1. \A s \in DOMAIN Files : s \in Nat
        BY FilesTyped
      <4>2. wal.active \in Nat
        BY <1>1, FilesTyped DEF IInv, HandleOK, HandleTyped, FilesOK
      <4>3. \A s \in DOMAIN Files : s <= wal.active \/ s = b
        BY <1>1 DEF IInv, HandleOK, AheadOfFiles, b
      <4>4. QED
        BY <1>3, <4>1, <4>2, <4>3
    <3>2. QED
      BY <1>1, <1>2, <1>6, <3>1 DEF IInv, HandleOK, AheadOfFiles
  <2>3. PendingOK' /\ StepsOK'
    BY <1>1, <1>2 DEF PendingOK, StepsOK
  <2>4. QED
    BY <2>1, <2>2, <2>3 DEF HandleOK
<1>10. TicksOK'
  <2>1. Ticking(Files, run.seq_hi)'
    BY <1>1, <1>6 DEF IInv, TicksOK, Ticking
  <2>2. QED
    BY <1>1, <1>2, <1>6, <2>1 DEF IInv, TicksOK
<1>11. RecoverableOK'
  <2>1. \A s \in named : s \in named' /\ synced'[s] = synced[s]
    BY <1>1, <1>3 DEF IInv, HandleOK, PendingOK, FilesOK, b
  <2>2. \A seq : Reaches(seq) => Reaches(seq)'
    BY <1>1, <2>1 DEF Reaches
  <2>3. Reaches(wal.next_seq)' /\ Reaches(run.seq_hi)'
    BY <1>1, <1>2, <2>2 DEF IInv, RecoverableOK
  <2>4. QED
    BY <1>1, <2>1, <2>3 DEF IInv, RecoverableOK
<1>12. QED
  BY <1>5, <1>7, <1>8, <1>9, <1>10, <1>11 DEF IInv

(* The cleanup of a rollover that was given up.                            *)
LEMMA Tidied ==
  ASSUME IInv, pc # "down", NEW frames, DOMAIN frames = DOMAIN segs, CleanUp(frames)
  PROVE  /\ named' = named /\ named \subseteq DOMAIN segs'
         /\ DOMAIN segs' \subseteq DOMAIN segs /\ DOMAIN synced' = DOMAIN segs'
         /\ \A s \in DOMAIN segs' : segs'[s] = frames[s] /\ synced'[s] = synced[s]
         /\ DOMAIN segs' \cap DOMAIN removed' = {}
         /\ DOMAIN Files' \subseteq DOMAIN Files /\ DOMAIN Durable' = DOMAIN Files'
         /\ \A s \in DOMAIN Files' :
              /\ s <= wal.active /\ Durable'[s] = Durable[s]
              /\ Files'[s] = IF s \in DOMAIN segs THEN frames[s] ELSE Files[s]
<1>1. /\ segs' = [s \in DOMAIN segs \ Pending |-> frames[s]]
      /\ synced' = [s \in DOMAIN segs \ Pending |-> synced[s]]
      /\ named' = named \ Pending
      /\ removed' = IF Pending = {} THEN removed ELSE << >>
  BY DEF CleanUp, Without, IInv, FilesOK
<1>2. named \cap Pending = {} /\ named \subseteq DOMAIN segs
  BY DEF IInv, HandleOK, PendingOK, FilesOK, Pending
<1>3. \A s \in DOMAIN removed : s \notin DOMAIN segs
  BY DEF IInv, FilesOK
<1>4. /\ DOMAIN removed' \subseteq DOMAIN removed
      /\ \A s \in DOMAIN removed' : removed'[s] = removed[s]
      /\ DOMAIN removed' \cap Pending = {}
  <2>1. CASE Pending = {}
    BY <1>1, <2>1
  <2>2. CASE Pending # {}
    <3>1. DOMAIN removed' = {}
      BY <1>1, <2>2
    <3>2. QED
      BY <3>1
  <2>3. QED
    BY <2>1, <2>2
<1>5. DOMAIN Files' = (DOMAIN segs \ Pending) \cup DOMAIN removed' /\ DOMAIN Durable' = DOMAIN Files'
  BY <1>1 DEF Files, Durable
<1>6. \A s \in DOMAIN Files' :
        /\ Durable'[s] = Durable[s] /\ Files'[s] = IF s \in DOMAIN segs THEN frames[s] ELSE Files[s]
  BY <1>1, <1>3, <1>4 DEF Files, Durable
<1>7. \A s \in DOMAIN Files' : s \in DOMAIN Files /\ s <= wal.active
  <2>1. \A s \in DOMAIN Files' : s \in DOMAIN Files /\ s \notin Pending
    BY <1>4, <1>5, FilesTyped
  <2>2. \A s \in DOMAIN Files : s <= wal.active \/ s = wal.pending
    BY DEF IInv, HandleOK, AheadOfFiles
  <2>3. None \notin DOMAIN Files
    BY FilesTyped, WalAssumption DEF WalAssumption
  <2>4. QED
    BY <2>1, <2>2, <2>3 DEF Pending
<1>8. QED
  BY <1>1, <1>2, <1>3, <1>4, <1>5, <1>6, <1>7

(* It succeeds, and nothing else is done to the files.                     *)
LEMMA TidyStep ==
  ASSUME IInv, CleanUp(segs), wal' = [wal EXCEPT !.pending = None],
         UNCHANGED <<world, run, acked, commits>>,
         \/ pc = "rolling" /\ pc' = "logged"
         \/ pc = "flushed" /\ pc' = "idle"
  PROVE  IInv'
<1>1. /\ IsHandle(wal)' /\ wal'.active = wal.active /\ wal'.next_seq = wal.next_seq
      /\ wal'.pending = None /\ wal'.view = wal.view
  BY DEF IInv, CountsOK, IsHandle
<1>2. /\ named' = named /\ named \subseteq DOMAIN segs'
      /\ DOMAIN segs' \subseteq DOMAIN segs /\ DOMAIN synced' = DOMAIN segs'
      /\ \A s \in DOMAIN segs' : segs'[s] = segs[s] /\ synced'[s] = synced[s]
      /\ DOMAIN segs' \cap DOMAIN removed' = {}
      /\ DOMAIN Files' \subseteq DOMAIN Files /\ DOMAIN Durable' = DOMAIN Files'
      /\ \A s \in DOMAIN Files' :
           s <= wal.active /\ Durable'[s] = Durable[s] /\ Files'[s] = Files[s]
  BY Tidied, FilesTyped
<1>3. DiskOK(Files, Durable)'
  <2>1. \A s \in DOMAIN Files' : Durable'[s] \in Durable[s] .. Len(Files[s])
    BY <1>2, FilesTyped
  <2>2. QED
    BY <1>2, <2>1, DiskShrinks DEF IInv
<1>4. wal.active \in named
  BY DEF IInv, HandleOK, HandleTyped
<1>5. FilesOK' /\ Bounded(Files, commits)'
  BY <1>2, <1>4 DEF IInv, FilesOK, Bounded
<1>6. CountsOK'
  BY <1>1 DEF IInv, CountsOK, Steps
<1>7. HandleOK'
  <2>1. HandleTyped' /\ PendingOK' /\ StepsOK'
    BY <1>1, <1>2 DEF IInv, HandleOK, HandleTyped, PendingOK, StepsOK
  <2>2. AheadOfFiles'
    BY <1>1, <1>2 DEF IInv, HandleOK, AheadOfFiles
  <2>3. QED
    BY <2>1, <2>2 DEF HandleOK
<1>8. TicksOK'
  <2>1. Ticking(Files, run.seq_hi)'
    BY <1>2 DEF IInv, TicksOK, Ticking
  <2>2. QED
    BY <1>1, <1>2, <2>1 DEF IInv, TicksOK
<1>9. RecoverableOK'
  <2>1. \A seq : Reaches(seq) => Reaches(seq)'
    BY <1>2 DEF Reaches
  <2>2. Reaches(wal.next_seq)' /\ Reaches(run.seq_hi)'
    BY <1>1, <2>1 DEF IInv, RecoverableOK
  <2>3. QED
    BY <1>2, <2>2 DEF IInv, RecoverableOK
<1>10. QED
  BY <1>3, <1>5, <1>6, <1>7, <1>8, <1>9 DEF IInv

(* It fails: the pending file stays or may come back.                      *)
LEMMA UntidyStep ==
  ASSUME IInv, CleanUpFails, UNCHANGED <<wal, world, run, acked, commits>>,
         wal.pending # None, pc # "down",
         \/ pc = "rolling" /\ pc' = "logged"
         \/ pc \in {"flushed", "idle"} /\ pc' = "idle"
  PROVE  IInv'
<1>1. /\ wal.pending \in DOMAIN Files \ named
      /\ named \subseteq DOMAIN segs /\ DOMAIN synced = DOMAIN segs
      /\ DOMAIN segs \cap DOMAIN removed = {} /\ wal.active \in named
  BY DEF IInv, HandleOK, PendingOK, HandleTyped, FilesOK
<1>2. \/ UNCHANGED <<segs, synced, named, removed>>
      \/ /\ Pending = {wal.pending} /\ wal.pending \in DOMAIN segs
         /\ segs' = [s \in DOMAIN segs \ Pending |-> segs[s]]
         /\ synced' = [s \in DOMAIN segs \ Pending |-> synced[s]]
         /\ removed' = [s \in Pending \cup DOMAIN removed |->
                IF s \in Pending THEN [frames |-> segs[s], synced |-> synced[s]] ELSE removed[s]]
         /\ named' = named
  BY <1>1 DEF CleanUpFails, Without, Unlinked, diskVars, Pending
<1>3. /\ named' = named /\ named \subseteq DOMAIN segs'
      /\ DOMAIN segs' \subseteq DOMAIN segs /\ DOMAIN synced' = DOMAIN segs'
      /\ \A s \in DOMAIN segs' : segs'[s] = segs[s] /\ synced'[s] = synced[s]
      /\ DOMAIN segs' \cap DOMAIN removed' = {}
  BY <1>1, <1>2
<1>4. Files' = Files /\ Durable' = Durable
  <2>1. CASE UNCHANGED <<segs, synced, named, removed>>
    BY <2>1 DEF Files, Durable
  <2>2. CASE ~UNCHANGED <<segs, synced, named, removed>>
    <3>1. DOMAIN segs' \cup DOMAIN removed' = DOMAIN segs \cup DOMAIN removed
      BY <1>2, <2>2
    <3>2. \A s \in DOMAIN segs \cup DOMAIN removed :
            /\ (IF s \in DOMAIN segs' THEN segs'[s] ELSE removed'[s].frames)
                  = (IF s \in DOMAIN segs THEN segs[s] ELSE removed[s].frames)
            /\ (IF s \in DOMAIN segs' THEN synced'[s] ELSE removed'[s].synced)
                  = (IF s \in DOMAIN segs THEN synced[s] ELSE removed[s].synced)
      BY <1>1, <1>2, <2>2
    <3>3. QED
      BY <3>1, <3>2 DEF Files, Durable
  <2>3. QED
    BY <2>1, <2>2
<1>5. DiskOK(Files, Durable)' /\ Bounded(Files, commits)'
  BY <1>4 DEF IInv
<1>6. FilesOK'
  BY <1>1, <1>3, <1>4 DEF IInv, FilesOK
<1>7. CountsOK'
  BY DEF IInv, CountsOK, Steps
<1>8. HandleOK'
  <2>1. HandleTyped' /\ PendingOK' /\ StepsOK'
    BY <1>3, <1>4 DEF IInv, HandleOK, HandleTyped, PendingOK, StepsOK
  <2>2. AheadOfFiles'
    BY <1>4 DEF IInv, HandleOK, AheadOfFiles
  <2>3. QED
    BY <2>1, <2>2 DEF HandleOK
<1>9. TicksOK'
  BY <1>4 DEF IInv, TicksOK
<1>10. RecoverableOK'
  <2>1. \A seq : Reaches(seq) => Reaches(seq)'
    BY <1>3 DEF Reaches
  <2>2. Reaches(wal.next_seq)' /\ Reaches(run.seq_hi)'
    BY <2>1 DEF IInv, RecoverableOK
  <2>3. QED
    BY <1>3, <2>2 DEF IInv, RecoverableOK
<1>11. QED
  BY <1>5, <1>6, <1>7, <1>8, <1>9, <1>10 DEF IInv

LEMMA RollAbandonStep == ASSUME IInv, RollAbandon PROVE IInv'
<1>1. pc = "rolling" /\ pc' = "logged" /\ wal.pending # None
  BY DEF RollAbandon, IInv, HandleOK, StepsOK
<1>2. CASE CleanUp(segs) /\ wal' = [wal EXCEPT !.pending = None]
  BY <1>1, <1>2, TidyStep DEF RollAbandon
<1>3. CASE CleanUpFails /\ UNCHANGED wal
  BY <1>1, <1>3, UntidyStep DEF RollAbandon
<1>4. QED
  BY <1>2, <1>3 DEF RollAbandon

LEMMA CleanUpAgainFailsStep == ASSUME IInv, CleanUpAgainFails PROVE IInv'
  BY UntidyStep DEF CleanUpAgainFails

(* It succeeds, and the active segment, now the newest file, gets a frame. *)
LEMMA GrownFiles ==
  ASSUME IInv, pc # "down", NEW f \in Frames, CleanUp(WithFrame(f)),
         ~IsTorn(f), f.view = wal.view, IsMutations(f) => f.seq = wal.next_seq
  PROVE  /\ named' = named /\ named \subseteq DOMAIN segs'
         /\ DOMAIN segs' \subseteq DOMAIN segs /\ DOMAIN synced' = DOMAIN segs'
         /\ DOMAIN segs' \cap DOMAIN removed' = {}
         /\ wal.active \in DOMAIN segs' /\ segs'[wal.active] = Append(segs[wal.active], f)
         /\ Len(segs'[wal.active]) = Len(segs[wal.active]) + 1
         /\ segs'[wal.active][Len(segs[wal.active]) + 1] = f
         /\ \A s \in named : /\ synced'[s] = synced[s]
                            /\ \A k \in 1 .. synced[s] : segs'[s][k] = segs[s][k]
         /\ DOMAIN Files' \subseteq DOMAIN Files
         /\ \A s \in DOMAIN Files' :
              /\ s <= wal.active
              /\ \A k \in 1 .. Len(Files'[s]) :
                   \/ k \in 1 .. Len(Files[s]) /\ Files'[s][k] = Files[s][k]
                   \/ Files'[s][k] = f /\ s = wal.active
         /\ DiskOK(Files, Durable)'
<1> DEFINE a == wal.active
           frames == WithFrame(f)
<1>1. /\ a \in named /\ a \in DOMAIN segs /\ a \in Nat /\ named \subseteq DOMAIN segs
      /\ a <= wal.next_seq
  BY FilesTyped DEF IInv, HandleOK, HandleTyped, FilesOK
<1>2. /\ DOMAIN frames = DOMAIN segs /\ frames[a] = Append(segs[a], f)
      /\ \A s \in DOMAIN segs : s # a => frames[s] = segs[s]
  BY <1>1 DEF WithFrame
<1> HIDE DEF a, frames
<1>3. /\ named' = named /\ named \subseteq DOMAIN segs'
      /\ DOMAIN segs' \subseteq DOMAIN segs /\ DOMAIN synced' = DOMAIN segs'
      /\ \A s \in DOMAIN segs' : segs'[s] = frames[s] /\ synced'[s] = synced[s]
      /\ DOMAIN segs' \cap DOMAIN removed' = {}
      /\ DOMAIN Files' \subseteq DOMAIN Files /\ DOMAIN Durable' = DOMAIN Files'
      /\ \A s \in DOMAIN Files' :
           /\ s <= a /\ Durable'[s] = Durable[s]
           /\ Files'[s] = IF s \in DOMAIN segs THEN frames[s] ELSE Files[s]
  BY <1>2, Tidied DEF a, frames
<1>4. a \in DOMAIN segs' /\ a \in DOMAIN Files' /\ a \in DOMAIN Files
  BY <1>1, <1>3, FilesTyped DEF Files
<1>5. /\ Files'[a] = Append(Files[a], f)
      /\ \A s \in DOMAIN Files' : s # a => Files'[s] = Files[s]
  BY <1>1, <1>2, <1>3, <1>4, FilesTyped
<1>6. /\ \A s \in DOMAIN Files : Files[s] \in Seq(Frames) /\ Len(Files[s]) \in Nat
      /\ \A s \in DOMAIN Files : Durable[s] \in 0 .. Len(Files[s])
      /\ \A s \in DOMAIN segs : Files[s] = segs[s] /\ Durable[s] = synced[s] /\ s \in DOMAIN Files
  BY FilesTyped
<1>7. /\ Len(Files'[a]) = Len(Files[a]) + 1 /\ Files'[a][Len(Files[a]) + 1] = f
      /\ \A k \in 1 .. Len(Files[a]) : Files'[a][k] = Files[a][k]
  BY <1>4, <1>5, <1>6, AppendFrame
<1>8. \A s \in DOMAIN Files' : \A k \in 1 .. Len(Files'[s]) :
        \/ k \in 1 .. Len(Files[s]) /\ Files'[s][k] = Files[s][k]
        \/ Files'[s][k] = f /\ s = a
  <2>1. \A k \in 1 .. Len(Files'[a]) : k \in 1 .. Len(Files[a]) \/ k = Len(Files[a]) + 1
    BY <1>4, <1>6, <1>7
  <2>2. QED
    BY <1>5, <1>7, <2>1
<1>9. \A s \in named : synced'[s] = synced[s] /\ \A k \in 1 .. synced[s] : segs'[s][k] = segs[s][k]
  <2> SUFFICES ASSUME NEW s \in named, NEW k \in 1 .. synced[s]
               PROVE  segs'[s][k] = segs[s][k]
    BY <1>3
  <2>1. s \in DOMAIN segs /\ s \in DOMAIN segs' /\ k \in 1 .. Len(Files[s]) /\ Files[s] = segs[s]
    <3>1. s \in DOMAIN segs /\ s \in DOMAIN segs' /\ Files[s] = segs[s] /\ Durable[s] = synced[s]
      BY <1>1, <1>3, <1>6
    <3>2. synced[s] \in 0 .. Len(Files[s]) /\ Len(Files[s]) \in Nat
      BY <1>6, <3>1
    <3>3. QED
      BY <3>1, <3>2
  <2>2. CASE s = a
    BY <1>2, <1>3, <1>5, <1>7, <2>1, <2>2
  <2>3. QED
    BY <1>2, <1>3, <2>1, <2>2
<1>10. DiskOK(Files, Durable)'
  <2> DEFINE fs == [s \in DOMAIN Files' |-> Files[s]]
  <2>1. DOMAIN fs = DOMAIN Files' /\ \A s \in DOMAIN Files' : fs[s] = Files[s]
    OBVIOUS
  <2> HIDE DEF fs
  <2>2. \A s \in DOMAIN fs : Durable'[s] \in Durable[s] .. Len(Files[s])
    BY <1>3, <1>6, <2>1
  <2>3. DiskOK(fs, Durable')
    BY <1>3, <2>1, <2>2, DiskShrinks DEF IInv
  <2>4. \A s \in DOMAIN fs : \A k \in 1 .. Len(fs[s]) :
          /\ ~IsTorn(fs[s][k]) /\ fs[s][k].view <= f.view
          /\ IsMutations(fs[s][k]) /\ IsMutations(f) => fs[s][k].seq < f.seq
    BY <1>3, <2>1 DEF IInv, FilesOK, HandleOK, AheadOfFiles
  <2>5. \A t \in DOMAIN fs : t <= a
    BY <1>3, <2>1
  <2>6. IsMutations(f) => a <= f.seq
    BY <1>1
  <2>7. /\ a \in DOMAIN fs /\ DOMAIN Files' = DOMAIN fs /\ Files'[a] = Append(fs[a], f)
        /\ \A s \in DOMAIN fs : s # a => Files'[s] = fs[s]
    BY <1>4, <1>5, <2>1
  <2>8. QED
    BY <2>3, <2>4, <2>5, <2>6, <2>7, DiskGrows
<1>11. /\ segs'[a] = Append(segs[a], f) /\ Len(segs'[a]) = Len(segs[a]) + 1
       /\ segs'[a][Len(segs[a]) + 1] = f
  <2>1. segs[a] \in Seq(Frames)
    BY <1>1, <1>6
  <2>2. segs'[a] = Append(segs[a], f)
    BY <1>2, <1>3, <1>4
  <2>3. QED
    BY <2>1, <2>2, AppendFrame
<1>12. QED
  BY <1>3, <1>4, <1>8, <1>9, <1>10, <1>11 DEF a

(* What does not depend on which frame it is.                              *)
LEMMA GrownInvariants ==
  ASSUME IInv, pc # "down", pc' # "opened", NEW f \in Frames, CleanUp(WithFrame(f)),
         ~IsTorn(f), f.view = wal.view, IsMutations(f) => f.seq = wal.next_seq
  PROVE  /\ DiskOK(Files, Durable)' /\ FilesOK'
         /\ \A seq : Reaches(seq) => Reaches(seq)'
<1>1. /\ DiskOK(Files, Durable)' /\ named' = named /\ named \subseteq DOMAIN segs'
      /\ DOMAIN segs' \subseteq DOMAIN segs /\ DOMAIN synced' = DOMAIN segs'
      /\ DOMAIN segs' \cap DOMAIN removed' = {} /\ wal.active \in DOMAIN segs'
      /\ DOMAIN Files' \subseteq DOMAIN Files
  BY GrownFiles
<1>2. \A s \in DOMAIN Files' : \A k \in 1 .. Len(Files'[s]) :
        \/ k \in 1 .. Len(Files[s]) /\ Files'[s][k] = Files[s][k]
        \/ Files'[s][k] = f
  BY GrownFiles
<1>3. \A s \in named : /\ synced'[s] = synced[s]
                     /\ \A k \in 1 .. synced[s] : segs'[s][k] = segs[s][k]
  BY GrownFiles
<1>4. FilesOK'
  <2>1. \A s \in DOMAIN segs', t \in DOMAIN Files' : s < t => s \in named'
    BY <1>1 DEF IInv, FilesOK
  <2>2. \A s \in DOMAIN Files' : \A k \in 1 .. Len(Files'[s]) : ~IsTorn(Files'[s][k])
    BY <1>1, <1>2 DEF IInv, FilesOK
  <2>3. QED
    BY <1>1, <2>1, <2>2 DEF FilesOK
<1>5. \A seq : Reaches(seq) => Reaches(seq)'
  BY <1>1, <1>3 DEF Reaches
<1>6. QED
  BY <1>1, <1>4, <1>5

LEMMA AppendWriteStep == ASSUME IInv, AppendWrite PROVE IInv'
<1> DEFINE f == Mutations(wal.next_seq, commits + 1, world.tick, wal.view)
<1>1. /\ UNCHANGED <<world, run, acked>> /\ CleanUp(WithFrame(f))
      /\ commits' = commits + 1 /\ commits < MaxCommits
      /\ pc = "idle" /\ pc' = "written"
  BY DEF AppendWrite
<1>2. /\ IsHandle(wal)' /\ wal'.active = wal.active /\ wal'.next_seq = wal.next_seq + 1
      /\ wal'.pending = None /\ wal'.view = wal.view
  BY DEF AppendWrite, IInv, CountsOK, IsHandle, Written
<1>3. /\ wal.next_seq \in 0 .. commits /\ commits \in Nat /\ world.tick \in 0 .. commits
      /\ wal.view \in 0 .. MaxViews /\ MaxCommits \in Nat /\ run.seq_hi \in Nat
      /\ run.seq_hi <= wal.next_seq /\ wal.active <= wal.next_seq
      /\ wal.active \in named /\ wal.active \in DOMAIN segs
  BY <1>1, WalAssumption DEF IInv, HandleOK, HandleTyped, CountsOK, FilesOK, WalAssumption
<1>4. /\ f \in Frames /\ IsMutations(f) /\ ~IsTorn(f) /\ f.seq = wal.next_seq
      /\ f.id = commits + 1 /\ f.tick = world.tick /\ f.view = wal.view
  BY <1>3 DEF Frames, Mutations, IsMutations, IsTorn
<1> HIDE DEF f
<1>5. DiskOK(Files, Durable)' /\ FilesOK' /\ \A seq : Reaches(seq) => Reaches(seq)'
  BY <1>1, <1>4, GrownInvariants
<1>6. /\ named' = named
      /\ segs'[wal.active] = Append(segs[wal.active], f)
      /\ Len(segs'[wal.active]) = Len(segs[wal.active]) + 1
      /\ segs'[wal.active][Len(segs[wal.active]) + 1] = f
      /\ \A s \in named : /\ synced'[s] = synced[s]
                         /\ \A k \in 1 .. synced[s] : segs'[s][k] = segs[s][k]
      /\ DOMAIN Files' \subseteq DOMAIN Files
      /\ \A s \in DOMAIN Files' :
           /\ s <= wal.active
           /\ \A k \in 1 .. Len(Files'[s]) :
                \/ k \in 1 .. Len(Files[s]) /\ Files'[s][k] = Files[s][k]
                \/ Files'[s][k] = f /\ s = wal.active
  BY <1>1, <1>4, GrownFiles
<1>7. Bounded(Files, commits)'
  <2>1. /\ f.seq < commits + 1 /\ f.seq <= commits + 1 /\ 0 < f.id /\ f.id <= commits + 1
        /\ f.view <= MaxViews /\ f.tick < commits + 1
    BY <1>3, <1>4
  <2>2. \A s \in DOMAIN Files : s <= commits + 1
    BY <1>3, FilesTyped DEF IInv, Bounded
  <2>3. \A s \in DOMAIN Files : \A k \in 1 .. Len(Files[s]) :
          /\ Files[s][k].seq <= commits + 1 /\ Files[s][k].id <= commits + 1
          /\ Files[s][k].view <= MaxViews
          /\ Files[s][k].tick <= commits + 1
          /\ IsMutations(Files[s][k]) =>
               0 < Files[s][k].id /\ Files[s][k].tick < commits + 1 /\ Files[s][k].seq < commits + 1
    <3>1. \A x \in Nat : (x <= commits => x <= commits + 1) /\ (x < commits => x < commits + 1)
      BY <1>3
    <3>2. \A s \in DOMAIN Files : \A k \in 1 .. Len(Files[s]) :
            /\ Files[s][k].seq \in Nat /\ Files[s][k].id \in Nat /\ Files[s][k].tick \in Nat
      BY FilesTyped
    <3>3. QED
      BY <3>1, <3>2 DEF IInv, Bounded
  <2>4. f.tick <= commits + 1
    BY <1>3, <1>4
  <2>5. QED
    BY <1>1, <1>6, <2>1, <2>2, <2>3, <2>4 DEF Bounded
<1>8. CountsOK'
  <2>1. commits + 1 \in 0 .. MaxCommits /\ world.tick \in 0 .. commits + 1 /\ world.tick < commits + 1
    BY <1>1, <1>3
  <2>2. \A i \in 1 .. commits : i \in 1 .. commits + 1
    BY <1>3
  <2>3. run.seq_hi \in 0 .. commits + 1
    BY <1>3
  <2>4. QED
    BY <1>1, <1>2, <2>1, <2>2, <2>3 DEF IInv, CountsOK, Steps
<1>9. HandleOK'
  <2>1. HandleTyped'
    BY <1>1, <1>2, <1>3, <1>6, FilesTyped DEF HandleTyped
  <2>2. AheadOfFiles'
    <3>1. \A s \in DOMAIN Files : \A k \in 1 .. Len(Files[s]) :
            /\ Files[s][k].view <= wal.view
            /\ IsMutations(Files[s][k]) => Files[s][k].seq < wal.next_seq + 1
      BY <1>1, <1>3, FilesTyped DEF IInv, HandleOK, AheadOfFiles
    <3>2. f.view <= wal.view /\ f.seq < wal.next_seq + 1
      BY <1>3, <1>4
    <3>3. QED
      BY <1>2, <1>6, <3>1, <3>2 DEF AheadOfFiles
  <2>3. PendingOK'
    BY <1>2 DEF PendingOK
  <2>4. StepsOK'
    <3>1. segs'[wal.active] # << >> /\ segs'[wal.active][Len(segs'[wal.active])] = f
      <4>1. segs[wal.active] \in Seq(Frames)
        BY <1>3, FilesTyped
      <4>2. QED
        BY <1>6, <4>1
    <3>2. /\ wal'.active < wal'.next_seq /\ run.seq_hi < wal'.next_seq
          /\ f.seq = wal'.next_seq - 1
      BY <1>2, <1>3, <1>4, FilesTyped
    <3>3. QED
      BY <1>1, <1>2, <1>4, <3>1, <3>2 DEF StepsOK
  <2>5. QED
    BY <2>1, <2>2, <2>3, <2>4 DEF HandleOK
<1>10. TicksOK'
  <2>1. \A s \in DOMAIN Files : \A k \in 1 .. Len(Files[s]) :
          IsMutations(Files[s][k]) /\ run.seq_hi <= Files[s][k].seq => Files[s][k].tick < world.tick
    BY <1>1 DEF IInv, TicksOK
  <2>2. \A s \in DOMAIN Files : \A k \in 1 .. Len(Files[s]) :
          IsMutations(Files[s][k]) => Files[s][k].seq < f.seq /\ ~(f.seq < Files[s][k].seq)
    BY <1>1, <1>3, <1>4, FilesTyped DEF IInv, HandleOK, AheadOfFiles
  <2>3. Ticking(Files, run.seq_hi)'
    <3> SUFFICES ASSUME NEW s \in DOMAIN Files', NEW t \in DOMAIN Files',
                        NEW j \in 1 .. Len(Files'[s]), NEW k \in 1 .. Len(Files'[t]),
                        IsMutations(Files'[s][j]), IsMutations(Files'[t][k]),
                        run.seq_hi <= Files'[s][j].seq, Files'[s][j].seq < Files'[t][k].seq
                 PROVE  Files'[s][j].tick < Files'[t][k].tick
      BY <1>1 DEF Ticking
    <3>1. CASE k \in 1 .. Len(Files[t]) /\ Files'[t][k] = Files[t][k]
      <4>1. Files'[s][j] # f
        BY <1>6, <2>2, <3>1
      <4>2. QED
        BY <1>6, <3>1, <4>1 DEF IInv, TicksOK, Ticking
    <3>2. CASE Files'[t][k] = f
      <4>1. Files'[s][j] # f
        BY <1>3, <1>4, <3>2
      <4>2. QED
        BY <1>4, <1>6, <2>1, <3>2, <4>1
    <3>3. QED
      BY <1>6, <3>1, <3>2
  <2>4. \A s \in DOMAIN Files' : \A k \in 1 .. Len(Files'[s]) :
          IsMutations(Files'[s][k]) /\ run.seq_hi <= Files'[s][k].seq =>
            \/ Files'[s][k].tick < world.tick
            \/ Files'[s][k].tick = world.tick /\ Files'[s][k].seq = wal'.next_seq - 1
    <3>1. f.tick = world.tick /\ f.seq = wal'.next_seq - 1
      BY <1>2, <1>3, <1>4
    <3>2. QED
      BY <1>6, <2>1, <3>1
  <2>5. QED
    BY <1>1, <2>3, <2>4 DEF TicksOK
<1>11. RecoverableOK'
  <2>1. Reaches(run.seq_hi)'
    BY <1>1, <1>5 DEF IInv, RecoverableOK
  <2>2. QED
    BY <1>1, <1>6, <2>1 DEF IInv, RecoverableOK
<1>12. QED
  BY <1>5, <1>7, <1>8, <1>9, <1>10, <1>11 DEF IInv

LEMMA AckFrameStep ==
  ASSUME IInv, CleanUp(WithFrame(Flushed(wal.next_seq, wal.view))),
         IsHandle(wal)', wal'.active = wal.active, wal'.next_seq = wal.next_seq,
         wal'.pending = None, wal'.view = wal.view,
         UNCHANGED <<world, run, acked, commits>>,
         pc = "flushed", pc' \in {"acking", "idle"}
  PROVE  IInv'
<1> DEFINE f == Flushed(wal.next_seq, wal.view)
<1>1. /\ wal.next_seq \in 0 .. commits /\ commits \in Nat /\ wal.view \in 0 .. MaxViews
      /\ wal.active \in named
  BY DEF IInv, HandleOK, HandleTyped, CountsOK
<1>2. /\ f \in Frames /\ ~IsMutations(f) /\ ~IsTorn(f) /\ f.seq = wal.next_seq
      /\ f.id = 0 /\ f.tick = 0 /\ f.view = wal.view
  BY <1>1 DEF Frames, Flushed, IsMutations, IsTorn
<1>3. CleanUp(WithFrame(f))
  OBVIOUS
<1> HIDE DEF f
<1>4. DiskOK(Files, Durable)' /\ FilesOK' /\ \A seq : Reaches(seq) => Reaches(seq)'
  BY <1>2, <1>3, GrownInvariants
<1>5. /\ named' = named
      /\ \A s \in named : /\ synced'[s] = synced[s]
                         /\ \A k \in 1 .. synced[s] : segs'[s][k] = segs[s][k]
      /\ DOMAIN Files' \subseteq DOMAIN Files
      /\ \A s \in DOMAIN Files' :
           /\ s <= wal.active
           /\ \A k \in 1 .. Len(Files'[s]) :
                \/ k \in 1 .. Len(Files[s]) /\ Files'[s][k] = Files[s][k]
                \/ Files'[s][k] = f
  BY <1>2, <1>3, GrownFiles
<1>6. Bounded(Files, commits)'
  <2>1. f.seq <= commits /\ f.id <= commits /\ f.view <= MaxViews /\ f.tick <= commits
    BY <1>1, <1>2
  <2>2. QED
    BY <1>2, <1>5, <2>1 DEF IInv, Bounded
<1>7. CountsOK'
  BY DEF IInv, CountsOK, Steps
<1>8. HandleOK'
  <2>1. HandleTyped'
    BY <1>5 DEF IInv, HandleOK, HandleTyped
  <2>2. AheadOfFiles'
    <3>1. f.view <= wal.view
      BY <1>1, <1>2
    <3>2. QED
      BY <1>2, <1>5, <3>1 DEF IInv, HandleOK, AheadOfFiles
  <2>3. PendingOK' /\ StepsOK'
    BY DEF PendingOK, StepsOK
  <2>4. QED
    BY <2>1, <2>2, <2>3 DEF HandleOK
<1>9. TicksOK'
  <2>1. Ticking(Files, run.seq_hi)'
    BY <1>2, <1>5 DEF IInv, TicksOK, Ticking
  <2>2. QED
    BY <1>2, <1>5, <2>1 DEF IInv, TicksOK
<1>10. RecoverableOK'
  <2>1. Reaches(run.seq_hi)' /\ Reaches(wal.next_seq)'
    BY <1>4 DEF IInv, RecoverableOK
  <2>2. QED
    BY <1>5, <2>1 DEF IInv, RecoverableOK
<1>11. QED
  BY <1>4, <1>6, <1>7, <1>8, <1>9, <1>10 DEF IInv

LEMMA AckWriteStep == ASSUME IInv, AckWrite PROVE IInv'
<1>1. /\ IsHandle(wal)' /\ wal'.active = wal.active /\ wal'.next_seq = wal.next_seq
      /\ wal'.pending = None /\ wal'.view = wal.view
  BY DEF AckWrite, IInv, CountsOK, IsHandle
<1>2. QED
  BY <1>1, AckFrameStep DEF AckWrite, countVars

(* Unless it leaves part of a frame: see the TornCheckpoint run.           *)
LEMMA AckWriteFailsStep ==
  ASSUME IInv, AckWriteFails, "part" \notin FailedWrites
  PROVE  IInv'
<1>1. /\ IsHandle(wal)' /\ wal'.active = wal.active /\ wal'.next_seq = wal.next_seq
      /\ wal'.pending = None /\ wal'.view = wal.view /\ wal' = [wal EXCEPT !.pending = None]
  BY DEF AckWriteFails, IInv, CountsOK, IsHandle
<1>2. UNCHANGED <<world, run, acked, commits>> /\ pc = "flushed" /\ pc' = "idle"
  BY DEF AckWriteFails
<1>3. PICK left \in FailedWrites :
        CleanUp(CASE left = "nothing" -> segs
                  [] left = "part" -> WithFrame(Torn)
                  [] left = "all" -> WithFrame(Flushed(wal.next_seq, wal.view)))
  BY DEF AckWriteFails
<1>4. CASE left = "nothing"
  <2>1. CleanUp(segs)
    BY <1>3, <1>4
  <2>2. QED
    BY <1>1, <1>2, <2>1, TidyStep
<1>5. CASE left = "all"
  <2>1. CleanUp(WithFrame(Flushed(wal.next_seq, wal.view)))
    BY <1>3, <1>5
  <2>2. QED
    BY <1>1, <1>2, <2>1, AckFrameStep
<1>6. QED
  BY <1>4, <1>5, WalAssumption DEF WalAssumption

(* Deletion of segments the newest run covers: none is lost that a replay  *)
(* would need, since a record in one of them is below the start of the     *)
(* next, which is at or below the sequence number of the run.              *)
LEMMA DeleteSegmentsStep == ASSUME IInv, DeleteSegments PROVE IInv'
<1>1. /\ UNCHANGED <<pc, world, run, acked, commits>> /\ pc = "idle"
  BY DEF DeleteSegments, countVars
<1>2. PICK seq \in 0 .. run.seq_hi :
        LET kept == Without(segs, Pending)
            gone == {s \in DOMAIN kept : \E t \in DOMAIN kept : s < t /\ t <= seq}
        IN /\ segs' = Without(kept, gone)
           /\ synced' = Without(synced, gone \cup Pending)
           /\ named' = named \ (gone \cup Pending)
           /\ removed' = Unlinked(gone, IF Pending = {} THEN removed ELSE << >>)
           /\ wal' = [wal EXCEPT !.pending = None, !.durable_ends = Without(@, gone)]
  BY DEF DeleteSegments, Floors
<1> DEFINE kept == DOMAIN segs \ Pending
           gone == {s \in kept : \E t \in kept : s < t /\ t <= seq}
           others == IF Pending = {} THEN removed ELSE << >>
<1>3. DOMAIN synced = DOMAIN segs /\ named \subseteq DOMAIN segs /\ DOMAIN segs \cap DOMAIN removed = {}
  BY DEF IInv, FilesOK
<1>4. /\ segs' = [s \in kept \ gone |-> segs[s]]
      /\ synced' = [s \in kept \ gone |-> synced[s]]
      /\ named' = named \ (gone \cup Pending)
      /\ removed' = Unlinked(gone, others)
      /\ wal' = [wal EXCEPT !.pending = None, !.durable_ends = Without(@, gone)]
  <2>1. DOMAIN Without(segs, Pending) = kept
    BY DEF Without
  <2>2. \A s \in kept : Without(segs, Pending)[s] = segs[s]
    BY DEF Without
  <2>3. Without(Without(segs, Pending), gone) = [s \in kept \ gone |-> segs[s]]
    BY <2>1, <2>2 DEF Without
  <2>4. Without(synced, gone \cup Pending) = [s \in kept \ gone |-> synced[s]]
    BY <1>3 DEF Without
  <2>5. QED
    BY <1>2, <2>1, <2>3, <2>4
<1>5. /\ IsHandle(wal)' /\ wal'.active = wal.active /\ wal'.next_seq = wal.next_seq
      /\ wal'.pending = None /\ wal'.view = wal.view
  BY <1>4 DEF IInv, CountsOK, IsHandle
<1>6. /\ DOMAIN others \subseteq DOMAIN removed
      /\ \A s \in DOMAIN others : others[s] = removed[s] /\ s \notin Pending
  <2>1. CASE Pending = {}
    BY <2>1
  <2>2. CASE Pending # {}
    <3>1. DOMAIN others = {}
      BY <2>2
    <3>2. QED
      BY <3>1
  <2>3. QED
    BY <2>1, <2>2
<1> HIDE DEF others
<1>7. /\ DOMAIN removed' = gone \cup DOMAIN others
      /\ \A s \in gone : removed'[s].frames = segs[s] /\ removed'[s].synced = synced[s]
      /\ \A s \in DOMAIN others : removed'[s] = removed[s]
  <2>1. \A s \in gone : s \in DOMAIN segs
    OBVIOUS
  <2> HIDE DEF gone
  <2>2. QED
    BY <1>3, <1>4, <1>6, <2>1 DEF Unlinked
<1>8. gone \subseteq kept /\ \A s \in gone : \E t \in kept : s < t /\ t <= seq
  OBVIOUS
<1>9. \A s, t \in kept : s < t /\ t <= seq => s \in gone
  OBVIOUS
<1> HIDE DEF gone
<1>10. /\ DOMAIN Files' = kept \cup DOMAIN others /\ DOMAIN Durable' = DOMAIN Files'
       /\ \A s \in DOMAIN Files' : /\ s \in DOMAIN Files /\ s \notin Pending
                                 /\ Files'[s] = Files[s] /\ Durable'[s] = Durable[s]
  BY <1>3, <1>4, <1>6, <1>7, <1>8 DEF Files, Durable
<1>11. DiskOK(Files, Durable)'
  <2>1. \A s \in DOMAIN Files' : Durable'[s] \in Durable[s] .. Len(Files[s])
    BY <1>10, FilesTyped
  <2>2. QED
    BY <1>10, <2>1, DiskShrinks DEF IInv
<1>12. \A s \in DOMAIN Files' : s <= wal.active
  <2>1. None \notin DOMAIN Files
    BY FilesTyped, WalAssumption DEF WalAssumption
  <2>2. QED
    BY <1>1, <1>10, <2>1 DEF IInv, HandleOK, AheadOfFiles, Pending
<1>13. /\ run.seq_hi \in Nat /\ seq \in Nat /\ seq <= run.seq_hi /\ wal.next_seq \in Nat
       /\ run.seq_hi <= wal.next_seq /\ wal.active \in named
       /\ \A s \in kept : s \in Nat /\ s \in DOMAIN Files /\ s \in DOMAIN Files' /\ s \in DOMAIN segs
  BY <1>1, <1>10, FilesTyped DEF IInv, HandleOK, HandleTyped, CountsOK
<1>14. \A s \in named : s \in kept
  BY <1>1, <1>3 DEF IInv, HandleOK, PendingOK, Pending
<1>15. wal.active \in named'
  <2>1. wal.active \notin gone
    BY <1>8, <1>12, <1>13, <1>14
  <2>2. QED
    BY <1>4, <1>13, <1>14, <2>1
<1>16. \A t \in kept : t \in named
  <2> SUFFICES ASSUME NEW t \in kept PROVE t \in named
    OBVIOUS
  <2>1. t = wal.active \/ t < wal.active
    BY <1>12, <1>13, <1>14
  <2>2. QED
    BY <1>13, <1>14, <2>1 DEF IInv, FilesOK
<1>17. Bounded(Files, commits)'
  BY <1>1, <1>10 DEF IInv, Bounded
<1>18. FilesOK'
  <2>1. DOMAIN segs' = kept \ gone /\ DOMAIN synced' = DOMAIN segs'
    BY <1>4
  <2>2. DOMAIN segs' \cap DOMAIN removed' = {}
    BY <1>3, <1>6, <1>7, <2>1
  <2>3. named' = DOMAIN segs'
    BY <1>4, <1>14, <1>16, <2>1
  <2>4. \A s \in DOMAIN Files' : \A k \in 1 .. Len(Files'[s]) : ~IsTorn(Files'[s][k])
    BY <1>1, <1>10 DEF IInv, FilesOK
  <2>5. QED
    BY <1>1, <1>15, <2>1, <2>2, <2>3, <2>4 DEF FilesOK
<1>19. CountsOK'
  BY <1>1, <1>5 DEF IInv, CountsOK
<1>20. HandleOK'
  <2>1. HandleTyped' /\ PendingOK' /\ StepsOK'
    BY <1>1, <1>5, <1>15 DEF IInv, HandleOK, HandleTyped, PendingOK, StepsOK
  <2>2. AheadOfFiles'
    BY <1>1, <1>5, <1>10, <1>12 DEF IInv, HandleOK, AheadOfFiles
  <2>3. QED
    BY <2>1, <2>2 DEF HandleOK
<1>21. TicksOK'
  <2>1. Ticking(Files, run.seq_hi)'
    BY <1>1, <1>10 DEF IInv, TicksOK, Ticking
  <2>2. QED
    BY <1>1, <1>5, <1>10, <2>1 DEF IInv, TicksOK
<1>22. \A s \in named \ gone : s \in named' /\ segs'[s] = segs[s] /\ synced'[s] = synced[s]
  BY <1>4, <1>14
<1>23. \A s \in named : \A k \in 1 .. synced[s] :
         IsMutations(segs[s][k]) =>
           segs[s][k].seq \in Nat /\ \A t \in kept : s < t => segs[s][k].seq < t
  <2> SUFFICES ASSUME NEW s \in named, NEW k \in 1 .. synced[s], IsMutations(segs[s][k])
               PROVE  segs[s][k].seq \in Nat /\ \A t \in kept : s < t => segs[s][k].seq < t
    OBVIOUS
  <2>1. s \in DOMAIN Files /\ Files[s] = segs[s] /\ Durable[s] = synced[s]
    BY <1>3, FilesTyped
  <2>2. k \in 1 .. Len(Files[s])
    <3>1. synced[s] \in 0 .. Len(Files[s]) /\ Len(Files[s]) \in Nat
      BY <2>1, FilesTyped
    <3>2. QED
      BY <3>1
  <2>3. QED
    BY <1>13, <2>1, <2>2, FilesTyped DEF IInv, DiskOK, Partitioned
<1>24. Reaches(run.seq_hi)'
  <2>1. PICK s \in named :
          \/ run.seq_hi <= s
          \/ \E k \in 1 .. synced[s] : IsMutations(segs[s][k]) /\ run.seq_hi <= segs[s][k].seq + 1
    BY DEF IInv, RecoverableOK, Reaches
  <2>2. CASE s \notin gone
    BY <1>1, <1>22, <2>1, <2>2 DEF Reaches
  <2>3. CASE s \in gone
    <3>1. PICK t \in kept : s < t /\ t <= seq
      BY <1>8, <2>3
    <3>2. ~(run.seq_hi <= s)
      BY <1>13, <1>14, <3>1
    <3>3. PICK k \in 1 .. synced[s] : IsMutations(segs[s][k]) /\ run.seq_hi <= segs[s][k].seq + 1
      BY <2>1, <3>2
    <3>4. segs[s][k].seq < t /\ segs[s][k].seq \in Nat
      BY <1>23, <3>1, <3>3
    <3>5. t = run.seq_hi /\ t = seq
      BY <1>13, <3>1, <3>3, <3>4
    <3>6. t \notin gone
      <4>1. \A u \in kept : ~(t < u /\ u <= seq)
        BY <1>13, <3>5
      <4>2. QED
        BY <1>8, <4>1
    <3>7. t \in named' /\ run.seq_hi <= t
      BY <1>13, <1>16, <1>22, <3>5, <3>6
    <3>8. QED
      BY <1>1, <3>7 DEF Reaches
  <2>4. QED
    BY <2>2, <2>3
<1>25. Reaches(wal.next_seq)'
  <2>1. PICK s \in named :
          \/ wal.next_seq <= s
          \/ \E k \in 1 .. synced[s] : IsMutations(segs[s][k]) /\ wal.next_seq <= segs[s][k].seq + 1
    BY <1>1 DEF IInv, RecoverableOK, Reaches
  <2>2. CASE s \notin gone
    BY <1>5, <1>22, <2>1, <2>2 DEF Reaches
  <2>3. CASE s \in gone
    <3>1. PICK t \in kept : s < t /\ t <= seq
      BY <1>8, <2>3
    <3>2. ~(wal.next_seq <= s)
      BY <1>13, <1>14, <3>1
    <3>3. PICK k \in 1 .. synced[s] : IsMutations(segs[s][k]) /\ wal.next_seq <= segs[s][k].seq + 1
      BY <2>1, <3>2
    <3>4. segs[s][k].seq < t /\ segs[s][k].seq \in Nat
      BY <1>23, <3>1, <3>3
    <3>5. wal.next_seq = run.seq_hi
      BY <1>13, <3>1, <3>3, <3>4
    <3>6. QED
      BY <1>1, <1>5, <1>24, <3>5 DEF Reaches
  <2>4. QED
    BY <2>2, <2>3
<1>26. \A i \in acked : i \notin run.content =>
         \E s \in named' : \E k \in 1 .. synced'[s] :
           IsMutations(segs'[s][k]) /\ segs'[s][k].id = i /\ run.seq_hi <= segs'[s][k].seq
  <2> SUFFICES ASSUME NEW i \in acked, i \notin run.content
               PROVE  \E s \in named' : \E k \in 1 .. synced'[s] :
                        IsMutations(segs'[s][k]) /\ segs'[s][k].id = i /\ run.seq_hi <= segs'[s][k].seq
    OBVIOUS
  <2>1. PICK s \in named : \E k \in 1 .. synced[s] :
          IsMutations(segs[s][k]) /\ segs[s][k].id = i /\ run.seq_hi <= segs[s][k].seq
    BY DEF IInv, RecoverableOK
  <2>2. PICK k \in 1 .. synced[s] :
          IsMutations(segs[s][k]) /\ segs[s][k].id = i /\ run.seq_hi <= segs[s][k].seq
    BY <2>1
  <2>3. s \notin gone
    BY <1>8, <1>13, <1>23, <2>2
  <2>4. QED
    BY <1>22, <2>2, <2>3
<1>27. RecoverableOK'
  BY <1>1, <1>24, <1>25, <1>26 DEF IInv, RecoverableOK
<1>28. QED
  BY <1>11, <1>17, <1>18, <1>19, <1>20, <1>21, <1>27 DEF IInv

-----------------------------------------------------------------------------
(* Crashes.                                                                *)

LEMMA TornFrame == Torn \in Frames /\ IsTorn(Torn) /\ ~IsMutations(Torn)
  BY DEF Torn, Frames, IsTorn, IsMutations

(* What a power loss leaves of a file.                                     *)
LEMMA SurvivorOfFile ==
  ASSUME NEW fr \in Seq(Frames), NEW d \in 0 .. Len(fr), NEW g \in Survivors(fr, d)
  PROVE  /\ g \in Seq(Frames) /\ Len(g) \in d .. Len(fr)
         /\ \A k \in 1 .. Len(g) :
              \/ k \in 1 .. Len(fr) /\ g[k] = fr[k]
              \/ g[k] = Torn /\ k = Len(g) /\ d < k
         /\ d = Len(fr) => Len(g) = Len(fr) /\ \A k \in 1 .. Len(fr) : g[k] = fr[k]
<1>1. \A k \in 0 .. Len(fr) :
        /\ SubSeq(fr, 1, k) \in Seq(Frames) /\ Len(SubSeq(fr, 1, k)) = k
        /\ \A j \in 1 .. k : SubSeq(fr, 1, k)[j] = fr[j] /\ j \in 1 .. Len(fr)
  OBVIOUS
<1>2. CASE \E k \in d .. Len(fr) : g = SubSeq(fr, 1, k)
  <2>1. PICK k \in d .. Len(fr) : g = SubSeq(fr, 1, k)
    BY <1>2
  <2>2. k \in 0 .. Len(fr)
    OBVIOUS
  <2>3. g \in Seq(Frames) /\ Len(g) = k /\ \A j \in 1 .. k : g[j] = fr[j] /\ j \in 1 .. Len(fr)
    BY <1>1, <2>1, <2>2
  <2>4. QED
    BY <2>3
<1>3. CASE \E k \in d .. Len(fr) - 1 : g = Append(SubSeq(fr, 1, k), Torn)
  <2>1. PICK k \in d .. Len(fr) - 1 : g = Append(SubSeq(fr, 1, k), Torn)
    BY <1>3
  <2>2. k \in 0 .. Len(fr) /\ k \in Nat /\ k < Len(fr) /\ d <= k
    OBVIOUS
  <2>3. /\ g \in Seq(Frames) /\ Len(g) = k + 1 /\ g[k + 1] = Torn
        /\ \A j \in 1 .. k : g[j] = fr[j] /\ j \in 1 .. Len(fr)
    BY <1>1, <2>1, <2>2, TornFrame, AppendFrame
  <2>4. \A j \in 1 .. k + 1 : j \in 1 .. k \/ j = k + 1
    BY <2>2
  <2>5. QED
    BY <2>2, <2>3, <2>4
<1>4. QED
  BY <1>2, <1>3 DEF Survivors

(* Only the newest file can change, and only behind what is durable.       *)
LEMMA DiskSurvives ==
  ASSUME NEW fs, NEW sy, NEW gs, NEW sg, DiskOK(fs, sy),
         DOMAIN gs \subseteq DOMAIN fs, DOMAIN sg = DOMAIN gs,
         \A s \in DOMAIN gs : gs[s] \in Survivors(fs[s], sy[s]) /\ sg[s] = Len(gs[s])
  PROVE  /\ DiskOK(gs, sg)
         /\ \A s \in DOMAIN gs :
              /\ sy[s] <= Len(gs[s])
              /\ \A k \in 1 .. Len(gs[s]) :
                   \/ k \in 1 .. Len(fs[s]) /\ gs[s][k] = fs[s][k]
                   \/ gs[s][k] = Torn /\ sy[s] < k
<1>1. /\ DOMAIN fs \subseteq Nat
      /\ \A s \in DOMAIN fs : fs[s] \in Seq(Frames) /\ sy[s] \in 0 .. Len(fs[s]) /\ Len(fs[s]) \in Nat
  BY DEF DiskOK, Typed
<1>2. \A s \in DOMAIN gs :
        /\ gs[s] \in Seq(Frames) /\ Len(gs[s]) \in sy[s] .. Len(fs[s])
        /\ \A k \in 1 .. Len(gs[s]) :
             \/ k \in 1 .. Len(fs[s]) /\ gs[s][k] = fs[s][k]
             \/ gs[s][k] = Torn /\ k = Len(gs[s]) /\ sy[s] < k
        /\ sy[s] = Len(fs[s]) =>
             Len(gs[s]) = Len(fs[s]) /\ \A k \in 1 .. Len(fs[s]) : gs[s][k] = fs[s][k]
  BY <1>1, SurvivorOfFile
<1>3. \A s \in DOMAIN gs : Len(gs[s]) \in Nat /\ sy[s] \in Nat /\ sy[s] <= Len(gs[s]) /\ Len(gs[s]) <= Len(fs[s])
  BY <1>1, <1>2
<1>4. \A s, t \in DOMAIN gs : s < t =>
        Len(gs[s]) = Len(fs[s]) /\ \A k \in 1 .. Len(fs[s]) : gs[s][k] = fs[s][k]
  BY <1>2 DEF DiskOK, Sealed
<1>5. Typed(gs, sg)
  <2>1. \A s \in DOMAIN gs : sg[s] \in 0 .. Len(gs[s])
    BY <1>3
  <2>2. QED
    BY <1>1, <1>2, <2>1 DEF Typed
<1>6. Sealed(gs, sg)
  BY DEF Sealed
<1>7. Partitioned(gs)
  <2> SUFFICES ASSUME NEW s \in DOMAIN gs, NEW k \in 1 .. Len(gs[s]), IsMutations(gs[s][k])
               PROVE  /\ s <= gs[s][k].seq
                      /\ \A t \in DOMAIN gs : s < t => gs[s][k].seq < t
                      /\ \A j \in 1 .. k - 1 : IsMutations(gs[s][j]) => gs[s][j].seq < gs[s][k].seq
    BY DEF Partitioned
  <2>1. k \in 1 .. Len(fs[s]) /\ gs[s][k] = fs[s][k]
    BY <1>2, TornFrame
  <2>2. \A j \in 1 .. k - 1 : IsMutations(gs[s][j]) => gs[s][j] = fs[s][j]
    <3>1. \A j \in 1 .. k - 1 : j \in 1 .. Len(gs[s])
      BY <1>3
    <3>2. QED
      BY <1>2, <3>1, TornFrame
  <2>3. QED
    BY <2>1, <2>2 DEF DiskOK, Partitioned
<1>8. Fenced(gs)
  <2>1. ASSUME NEW s \in DOMAIN gs, NEW k \in 1 .. Len(gs[s]), NEW j \in 1 .. k - 1, ~IsTorn(gs[s][k])
        PROVE  gs[s][j].view <= gs[s][k].view
    <3>1. k \in 1 .. Len(fs[s]) /\ gs[s][k] = fs[s][k]
      BY <1>2, <2>1, TornFrame
    <3>2. j \in 1 .. Len(gs[s]) /\ j # Len(gs[s])
      BY <1>3
    <3>3. gs[s][j] = fs[s][j]
      BY <1>2, <3>2
    <3>4. QED
      BY <2>1, <3>1, <3>3 DEF DiskOK, Fenced
  <2>2. ASSUME NEW s \in DOMAIN gs, NEW t \in DOMAIN gs, s < t,
               NEW j \in 1 .. Len(gs[s]), NEW k \in 1 .. Len(gs[t]), ~IsTorn(gs[t][k])
        PROVE  gs[s][j].view <= gs[t][k].view
    <3>1. k \in 1 .. Len(fs[t]) /\ gs[t][k] = fs[t][k]
      BY <1>2, <2>2, TornFrame
    <3>2. j \in 1 .. Len(fs[s]) /\ gs[s][j] = fs[s][j]
      BY <1>4, <2>2
    <3>3. QED
      BY <2>2, <3>1, <3>2 DEF DiskOK, Fenced
  <2>3. QED
    BY <2>1, <2>2 DEF Fenced
<1>9. TornAtEnd(gs)
  <2> SUFFICES ASSUME NEW s \in DOMAIN gs, NEW k \in 1 .. Len(gs[s]), IsTorn(gs[s][k])
               PROVE  k = Len(gs[s]) /\ \A t \in DOMAIN gs : t <= s
    BY DEF TornAtEnd
  <2>1. CASE k \in 1 .. Len(fs[s]) /\ gs[s][k] = fs[s][k]
    <3>1. k = Len(fs[s]) /\ \A t \in DOMAIN fs : t <= s
      BY <2>1 DEF DiskOK, TornAtEnd
    <3>2. k = Len(gs[s])
      BY <1>1, <1>3, <3>1
    <3>3. QED
      BY <3>1, <3>2
  <2>2. CASE gs[s][k] = Torn /\ k = Len(gs[s]) /\ sy[s] < k
    <3>1. sy[s] # Len(fs[s])
      BY <1>1, <1>3, <2>2
    <3>2. \A t \in DOMAIN gs : ~(s < t)
      BY <3>1 DEF DiskOK, Sealed
    <3>3. \A t \in DOMAIN gs : t <= s
      BY <1>1, <3>2
    <3>4. QED
      BY <2>2, <3>3
  <2>3. QED
    BY <1>2, <2>1, <2>2
<1>10. QED
  BY <1>2, <1>3, <1>5, <1>6, <1>7, <1>8, <1>9 DEF DiskOK

LEMMA PowerLossStep == ASSUME IInv, PowerLoss PROVE IInv'
<1>1. UNCHANGED <<wal, world, run, acked, commits>> /\ pc' = "down"
  BY DEF PowerLoss, Crash
<1>2. PICK lost \in SUBSET (DOMAIN segs \ named), back \in SUBSET (DOMAIN removed \ DOMAIN segs) :
        LET kept == DOMAIN segs \ lost
            frames(s) == IF s \in kept THEN segs[s] ELSE removed[s].frames
            durable(s) == IF s \in kept THEN synced[s] ELSE removed[s].synced
            files == kept \cup back
        IN /\ segs' \in {f \in [files -> UNION {Survivors(frames(s), durable(s)) : s \in files}] :
                             \A s \in files : f[s] \in Survivors(frames(s), durable(s))}
           /\ synced' = [s \in files |-> Len(segs'[s])]
           /\ named' = files
           /\ removed' = << >>
  BY DEF PowerLoss
<1> DEFINE files == (DOMAIN segs \ lost) \cup back
<1>3. /\ DOMAIN segs' = files /\ named' = files /\ DOMAIN synced' = files
      /\ \A s \in files : synced'[s] = Len(segs'[s])
      /\ DOMAIN removed' = {}
  BY <1>2
<1>4. \A s \in files : s \in DOMAIN Files /\ segs'[s] \in Survivors(Files[s], Durable[s])
  BY <1>2 DEF Files, Durable
<1>5. named \subseteq files
  BY DEF IInv, FilesOK
<1> HIDE DEF files
<1>6. /\ DOMAIN Files' = files /\ DOMAIN Durable' = files
      /\ \A s \in files : Files'[s] = segs'[s] /\ Durable'[s] = Len(segs'[s])
  BY <1>3 DEF Files, Durable
<1>7. /\ DiskOK(Files, Durable)'
      /\ \A s \in files :
           /\ Durable[s] <= Len(Files'[s])
           /\ \A k \in 1 .. Len(Files'[s]) :
                \/ k \in 1 .. Len(Files[s]) /\ Files'[s][k] = Files[s][k]
                \/ Files'[s][k] = Torn /\ Durable[s] < k
  <2>1. files \subseteq DOMAIN Files
    BY <1>4
  <2>2. QED
    BY <1>4, <1>6, <2>1, DiskSurvives DEF IInv
<1>8. Bounded(Files, commits)'
  <2>1. Torn.seq <= commits /\ Torn.id <= commits /\ Torn.tick <= commits /\ Torn.view <= MaxViews
    BY WalAssumption DEF Torn, IInv, CountsOK, WalAssumption
  <2>2. QED
    BY <1>1, <1>4, <1>6, <1>7, <2>1, TornFrame DEF IInv, Bounded
<1>9. FilesOK'
  <2>1. named # {}
    BY DEF IInv, RecoverableOK, Reaches
  <2>2. QED
    BY <1>1, <1>3, <1>5, <2>1 DEF FilesOK
<1>10. CountsOK' /\ HandleOK'
  BY <1>1 DEF IInv, CountsOK, HandleOK, Steps
<1>11. TicksOK'
  <2>1. Ticking(Files, run.seq_hi)'
    <3>1. \A s \in files : \A k \in 1 .. Len(Files'[s]) : IsMutations(Files'[s][k]) =>
            s \in DOMAIN Files /\ k \in 1 .. Len(Files[s]) /\ Files'[s][k] = Files[s][k]
      BY <1>4, <1>7, TornFrame
    <3>2. Ticking(Files, run.seq_hi)
      BY DEF IInv, TicksOK
    <3> SUFFICES ASSUME NEW s \in files, NEW t \in files,
                        NEW j \in 1 .. Len(Files'[s]), NEW k \in 1 .. Len(Files'[t]),
                        IsMutations(Files'[s][j]), IsMutations(Files'[t][k]),
                        run.seq_hi <= Files'[s][j].seq, Files'[s][j].seq < Files'[t][k].seq
                 PROVE  Files'[s][j].tick < Files'[t][k].tick
      BY <1>1, <1>6 DEF Ticking
    <3>3. /\ s \in DOMAIN Files /\ j \in 1 .. Len(Files[s]) /\ Files'[s][j] = Files[s][j]
          /\ t \in DOMAIN Files /\ k \in 1 .. Len(Files[t]) /\ Files'[t][k] = Files[t][k]
      BY <3>1
    <3>4. QED
      BY <3>2, <3>3 DEF Ticking
  <2>2. QED
    BY <1>1, <2>1 DEF TicksOK
<1>12. \A s \in named : \A k \in 1 .. synced[s] :
         s \in named' /\ k \in 1 .. synced'[s] /\ segs'[s][k] = segs[s][k]
  <2> SUFFICES ASSUME NEW s \in named, NEW k \in 1 .. synced[s]
               PROVE  k \in 1 .. synced'[s] /\ segs'[s][k] = segs[s][k]
    BY <1>3, <1>5
  <2>1. s \in files /\ s \in DOMAIN segs /\ Files[s] = segs[s] /\ Durable[s] = synced[s]
        /\ Durable[s] \in Nat
    BY <1>5, FilesTyped DEF IInv, FilesOK
  <2>2. Len(Files'[s]) \in Nat
    BY <1>6, <1>7, <2>1 DEF DiskOK, Typed
  <2>3. k \in 1 .. Len(Files'[s]) /\ ~(Durable[s] < k)
    BY <1>7, <2>1, <2>2
  <2>4. QED
    BY <1>3, <1>6, <1>7, <2>1, <2>3
<1>13. RecoverableOK'
  <2>1. Reaches(run.seq_hi)'
    BY <1>1, <1>3, <1>5, <1>12 DEF IInv, RecoverableOK, Reaches
  <2>2. \A i \in acked : i \notin run.content =>
          \E s \in named' : \E k \in 1 .. synced'[s] :
            IsMutations(segs'[s][k]) /\ segs'[s][k].id = i /\ run.seq_hi <= segs'[s][k].seq
    BY <1>3, <1>5, <1>12 DEF IInv, RecoverableOK
  <2>3. QED
    BY <1>1, <2>1, <2>2 DEF RecoverableOK
<1>14. QED
  BY <1>7, <1>8, <1>9, <1>10, <1>11, <1>13 DEF IInv

-----------------------------------------------------------------------------
(* Recovery.                                                               *)

(* A reader sees all of a file whose torn frame, if any, is the last.      *)
LEMMA ReadableFile ==
  ASSUME NEW fr \in Seq(Frames), \A k \in 1 .. Len(fr) : IsTorn(fr[k]) => k = Len(fr)
  PROVE  /\ Readable(fr) \in Seq(Frames) /\ Len(Readable(fr)) \in 0 .. Len(fr)
         /\ \A k \in 1 .. Len(Readable(fr)) :
              k \in 1 .. Len(fr) /\ Readable(fr)[k] = fr[k] /\ ~IsTorn(fr[k])
         /\ \A k \in 1 .. Len(fr) : ~IsTorn(fr[k]) => k \in 1 .. Len(Readable(fr))
         /\ (\A k \in 1 .. Len(fr) : ~IsTorn(fr[k])) =>
              Readable(fr) = fr /\ SelectInSeq(fr, IsTorn) = 0
<1> DEFINE I == {k \in 1 .. Len(fr) : IsTorn(fr[k])}
<1>1. SelectInSeq(fr, IsTorn) = IF I # {} THEN Min(I) ELSE 0
  BY DEF SelectInSeq
<1>2. CASE I = {}
  <2>1. SelectInSeq(fr, IsTorn) = 0
    BY <1>1, <1>2
  <2>2. Readable(fr) = fr
    BY <2>1 DEF Readable
  <2>3. QED
    BY <1>2, <2>1, <2>2
<1>3. CASE I # {}
  <2>1. Min(I) \in I
    <3>1. I \subseteq Nat
      OBVIOUS
    <3> HIDE DEF I
    <3>2. QED
      BY <1>3, <3>1, MinIs
  <2>2. Min(I) = Len(fr) /\ Len(fr) \in Nat \ {0} /\ IsTorn(fr[Len(fr)])
    BY <2>1
  <2>3. PICK n \in Nat : Len(fr) = n + 1
    <3>1. \A m \in Nat \ {0} : m - 1 \in Nat /\ m = (m - 1) + 1
      OBVIOUS
    <3>2. QED
      BY <2>2, <3>1
  <2>4. Readable(fr) = SubSeq(fr, 1, n)
    <3>1. SelectInSeq(fr, IsTorn) = n + 1 /\ n + 1 # 0 /\ n + 1 - 1 = n
      BY <1>1, <1>3, <2>2, <2>3
    <3>2. QED
      BY <3>1 DEF Readable
  <2>5. n \in 0 .. Len(fr) /\ \A k \in 1 .. n : k \in 1 .. Len(fr) /\ k # Len(fr)
    BY <2>3
  <2>6. /\ SubSeq(fr, 1, n) \in Seq(Frames) /\ Len(SubSeq(fr, 1, n)) = n
        /\ \A k \in 1 .. n : SubSeq(fr, 1, n)[k] = fr[k]
    BY <2>5
  <2>7. \A k \in 1 .. Len(fr) : k # Len(fr) => k \in 1 .. n
    BY <2>3
  <2>8. \E k \in 1 .. Len(fr) : IsTorn(fr[k])
    BY <2>1
  <2>9. QED
    BY <2>2, <2>4, <2>5, <2>6, <2>7, <2>8
<1>4. QED
  BY <1>2, <1>3

(* The fence of scan_active_segment cuts nothing off a file without stale  *)
(* frames.                                                                 *)
LEMMA ScannedFile ==
  ASSUME NEW fr \in Seq(Frames), NEW seed \in Nat,
         \A k \in 1 .. Len(Readable(fr)) :
           /\ ~(Readable(fr)[k].view < seed)
           /\ \A j \in 1 .. k - 1 : ~(Readable(fr)[k].view < Readable(fr)[j].view),
         Readable(fr) \in Seq(Frames)
  PROVE  Scanned(fr, seed) = Readable(fr)
<1>1. {k \in DOMAIN Readable(fr) : IsStale(Readable(fr), k, seed)} = {}
  BY DEF IsStale
<1>2. QED
  BY <1>1 DEF Scanned

(* Files that are bounded have a newest record, if any.                    *)
LEMMA LastPlace ==
  ASSUME NEW fs, DOMAIN fs \subseteq Nat, NEW N \in Nat, \A s \in DOMAIN fs : s <= N,
         \A s \in DOMAIN fs : fs[s] \in Seq(Frames),
         NEW P, P \subseteq Places(fs), P # {}
  PROVE  LastOf(P) \in P /\ \A q \in P : q = LastOf(P) \/ Before(q, LastOf(P))
<1>1. \A p \in P : /\ p = <<p[1], p[2]>> /\ p[1] \in DOMAIN fs /\ p[1] \in Nat
                 /\ p[2] \in 1 .. Len(fs[p[1]]) /\ p[2] \in Nat /\ Len(fs[p[1]]) \in Nat
  <2> SUFFICES ASSUME NEW p \in P
               PROVE  /\ p = <<p[1], p[2]>> /\ p[1] \in DOMAIN fs /\ p[1] \in Nat
                      /\ p[2] \in 1 .. Len(fs[p[1]]) /\ p[2] \in Nat /\ Len(fs[p[1]]) \in Nat
    OBVIOUS
  <2>1. PICK s \in DOMAIN fs : p \in {s} \X DOMAIN fs[s]
    BY DEF Places
  <2>2. p = <<p[1], p[2]>> /\ p[1] = s /\ p[2] \in DOMAIN fs[s]
    BY <2>1
  <2>3. DOMAIN fs[s] = 1 .. Len(fs[s]) /\ Len(fs[s]) \in Nat
    OBVIOUS
  <2>4. QED
    BY <2>2, <2>3
<1> DEFINE S == {p[1] : p \in P}
<1>2. PICK s \in S : \A t \in S : t <= s
  <2>1. S \subseteq Nat /\ S # {} /\ \A t \in S : t <= N
    BY <1>1
  <2> HIDE DEF S
  <2>2. QED
    BY <2>1, GreatestElement
<1> DEFINE K == {p[2] : p \in {q \in P : q[1] = s}}
<1>3. PICK k \in K : \A j \in K : j <= k
  <2>1. K \subseteq Nat /\ K # {} /\ s \in DOMAIN fs
    BY <1>1
  <2>2. \A j \in K : j <= Len(fs[s])
    BY <1>1
  <2>3. Len(fs[s]) \in Nat
    BY <2>1
  <2> HIDE DEF K
  <2>4. QED
    BY <2>1, <2>2, <2>3, GreatestElement
<1>4. PICK p \in P : p[1] = s /\ p[2] = k
  OBVIOUS
<1>5. \A q \in P : q[1] <= s /\ (q[1] = s => q[2] <= k)
  BY <1>2, <1>3
<1>6. \A q \in P : q = p \/ Before(q, p)
  <2> SUFFICES ASSUME NEW q \in P PROVE q = p \/ Before(q, p)
    OBVIOUS
  <2>1. CASE q[1] < s
    BY <1>4, <2>1 DEF Before
  <2>2. CASE q[1] = s /\ q[2] < k
    BY <1>4, <2>2 DEF Before
  <2>3. CASE q[1] = s /\ q[2] = k
    BY <1>1, <1>4, <2>3
  <2>4. QED
    BY <1>1, <1>4, <1>5, <2>1, <2>2, <2>3
<1>7. QED
  BY <1>6 DEF LastOf

(* Torn ends are cut off, and everything is synchronized.                  *)
LEMMA DiskCut ==
  ASSUME NEW fs, NEW sy, NEW gs, NEW sg, DiskOK(fs, sy),
         DOMAIN gs \subseteq DOMAIN fs, DOMAIN sg = DOMAIN gs,
         \A s \in DOMAIN gs :
           /\ gs[s] \in Seq(Frames) /\ sg[s] = Len(gs[s])
           /\ \A k \in 1 .. Len(gs[s]) :
                k \in 1 .. Len(fs[s]) /\ gs[s][k] = fs[s][k] /\ ~IsTorn(fs[s][k])
  PROVE  DiskOK(gs, sg)
<1>1. Typed(gs, sg)
  <2>1. \A s \in DOMAIN gs : sg[s] \in 0 .. Len(gs[s])
    OBVIOUS
  <2>2. QED
    BY <2>1 DEF DiskOK, Typed
<1>2. \A s \in DOMAIN gs : \A k \in 1 .. Len(gs[s]) : \A j \in 1 .. k - 1 : j \in 1 .. Len(gs[s])
  OBVIOUS
<1>3. Sealed(gs, sg) /\ TornAtEnd(gs)
  BY DEF Sealed, TornAtEnd
<1>4. Partitioned(gs)
  <2>1. Partitioned(fs)
    BY DEF DiskOK
  <2>2. SUFFICES ASSUME NEW s \in DOMAIN gs, NEW k \in 1 .. Len(gs[s]), IsMutations(gs[s][k])
                 PROVE  /\ s <= gs[s][k].seq
                        /\ \A t \in DOMAIN gs : s < t => gs[s][k].seq < t
                        /\ \A j \in 1 .. k - 1 : IsMutations(gs[s][j]) => gs[s][j].seq < gs[s][k].seq
    BY DEF Partitioned
  <2>3. k \in 1 .. Len(fs[s]) /\ gs[s][k] = fs[s][k] /\ \A j \in 1 .. k - 1 : gs[s][j] = fs[s][j]
    BY <1>2
  <2>4. /\ s <= fs[s][k].seq
        /\ \A t \in DOMAIN fs : s < t => fs[s][k].seq < t
        /\ \A j \in 1 .. k - 1 : IsMutations(fs[s][j]) => fs[s][j].seq < fs[s][k].seq
    BY <2>1, <2>2, <2>3 DEF Partitioned
  <2>5. QED
    BY <2>3, <2>4
<1>5. Fenced(gs)
  <2>1. Fenced(fs)
    BY DEF DiskOK
  <2>2. ASSUME NEW s \in DOMAIN gs, NEW k \in 1 .. Len(gs[s]), NEW j \in 1 .. k - 1
        PROVE  gs[s][j].view <= gs[s][k].view
    <3>1. j \in 1 .. Len(gs[s])
      BY <1>2
    <3>2. k \in 1 .. Len(fs[s]) /\ gs[s][k] = fs[s][k] /\ ~IsTorn(fs[s][k]) /\ gs[s][j] = fs[s][j]
      BY <3>1
    <3>3. fs[s][j].view <= fs[s][k].view
      BY <2>1, <3>2 DEF Fenced
    <3>4. QED
      BY <3>2, <3>3
  <2>3. ASSUME NEW s \in DOMAIN gs, NEW t \in DOMAIN gs, s < t,
               NEW j \in 1 .. Len(gs[s]), NEW k \in 1 .. Len(gs[t])
        PROVE  gs[s][j].view <= gs[t][k].view
    <3>1. /\ j \in 1 .. Len(fs[s]) /\ k \in 1 .. Len(fs[t]) /\ ~IsTorn(fs[t][k])
          /\ gs[s][j] = fs[s][j] /\ gs[t][k] = fs[t][k]
      OBVIOUS
    <3>2. fs[s][j].view <= fs[t][k].view
      BY <2>1, <2>3, <3>1 DEF Fenced
    <3>3. QED
      BY <3>1, <3>2
  <2>4. QED
    BY <2>2, <2>3 DEF Fenced
<1>6. QED
  BY <1>1, <1>3, <1>4, <1>5 DEF DiskOK

(* The newest of the records is the one with the greatest number.          *)
LEMMA RecordOrder ==
  ASSUME NEW fs, NEW sy, DiskOK(fs, sy),
         NEW p \in MutationsIn(fs), NEW q \in MutationsIn(fs), Before(p, q)
  PROVE  FrameAt(fs, p).seq < FrameAt(fs, q).seq
<1>1. \A s \in DOMAIN fs : fs[s] \in Seq(Frames) /\ s \in Nat /\ DOMAIN fs[s] = 1 .. Len(fs[s]) /\ Len(fs[s]) \in Nat
  BY DEF DiskOK, Typed
<1>2. /\ p[1] \in DOMAIN fs /\ p[2] \in 1 .. Len(fs[p[1]]) /\ IsMutations(fs[p[1]][p[2]])
      /\ q[1] \in DOMAIN fs /\ q[2] \in 1 .. Len(fs[q[1]]) /\ IsMutations(fs[q[1]][q[2]])
  BY <1>1 DEF MutationsIn, Places, FrameAt
<1>3. fs[p[1]][p[2]].seq \in Nat /\ fs[q[1]][q[2]].seq \in Nat
  <2>1. fs[p[1]][p[2]] \in Frames /\ fs[q[1]][q[2]] \in Frames
    BY <1>1, <1>2
  <2>2. QED
    BY <2>1 DEF Frames
<1>4. CASE p[1] < q[1]
  <2>1. fs[p[1]][p[2]].seq < q[1] /\ q[1] <= fs[q[1]][q[2]].seq
    BY <1>2, <1>4 DEF DiskOK, Partitioned
  <2>2. QED
    BY <1>1, <1>2, <1>3, <2>1 DEF FrameAt
<1>5. CASE p[1] = q[1] /\ p[2] < q[2]
  <2>1. p[2] \in 1 .. q[2] - 1
    BY <1>1, <1>2, <1>5
  <2>2. QED
    BY <1>2, <1>5, <2>1 DEF DiskOK, Partitioned, FrameAt
<1>6. QED
  BY <1>4, <1>5 DEF Before

(* What Wal::open makes of the sequence numbers in the files.              *)
LEMMA NextSeqIs ==
  ASSUME NEW fs, NEW sy, DiskOK(fs, sy), NEW a \in DOMAIN fs, \A s \in DOMAIN fs : s <= a
  PROVE  /\ NextSeq(fs, a) \in Nat /\ a <= NextSeq(fs, a)
         /\ \A s \in DOMAIN fs : \A k \in 1 .. Len(fs[s]) :
              IsMutations(fs[s][k]) => fs[s][k].seq < NextSeq(fs, a)
         /\ \/ NextSeq(fs, a) = a
            \/ \E s \in DOMAIN fs : \E k \in 1 .. Len(fs[s]) :
                 IsMutations(fs[s][k]) /\ NextSeq(fs, a) = fs[s][k].seq + 1
<1> DEFINE after == SeqAfter(fs, 0)
<1>1. /\ DOMAIN fs \subseteq Nat /\ a \in Nat
      /\ \A s \in DOMAIN fs : fs[s] \in Seq(Frames) /\ DOMAIN fs[s] = 1 .. Len(fs[s])
  BY DEF DiskOK, Typed
<1>2. \A s \in DOMAIN fs : \A k \in 1 .. Len(fs[s]) : fs[s][k].seq \in Nat
  <2>1. \A f \in Frames : f.seq \in Nat
    BY DEF Frames
  <2>2. QED
    BY <1>1, <2>1
<1>3. \A s \in DOMAIN fs : \A k \in 1 .. Len(fs[s]) : IsMutations(fs[s][k]) =>
        <<s, k>> \in MutationsIn(fs) /\ FrameAt(fs, <<s, k>>) = fs[s][k]
  BY <1>1 DEF MutationsIn, Places, FrameAt
<1>4. \A p \in MutationsIn(fs) : /\ p[1] \in DOMAIN fs /\ p[2] \in 1 .. Len(fs[p[1]])
                               /\ IsMutations(fs[p[1]][p[2]]) /\ FrameAt(fs, p) = fs[p[1]][p[2]]
  BY <1>1 DEF MutationsIn, Places, FrameAt
<1>5. CASE MutationsIn(fs) = {}
  <2>1. after = 0
    BY <1>5 DEF SeqAfter
  <2>2. NextSeq(fs, a) = a
    BY <1>1, <1>5, <2>1 DEF NextSeq
  <2>3. QED
    BY <1>1, <1>3, <1>5, <2>2
<1>6. CASE MutationsIn(fs) # {}
  <2> DEFINE p == LastOf(MutationsIn(fs))
  <2>1. p \in MutationsIn(fs) /\ \A q \in MutationsIn(fs) : q = p \/ Before(q, p)
    <3>1. MutationsIn(fs) \subseteq Places(fs)
      BY DEF MutationsIn
    <3>2. QED
      BY <1>1, <1>6, <3>1, LastPlace
  <2>2. after = FrameAt(fs, p).seq + 1
    BY <1>6 DEF SeqAfter
  <2> HIDE DEF p
  <2>3. \A q \in MutationsIn(fs) : q = p \/ FrameAt(fs, q).seq < FrameAt(fs, p).seq
    BY <2>1, RecordOrder
  <2>4. FrameAt(fs, p).seq \in Nat /\ after \in Nat
    BY <1>2, <1>4, <2>1, <2>2
  <2>5. \A q \in MutationsIn(fs) : FrameAt(fs, q).seq < after
    <3>1. \A q \in MutationsIn(fs) : FrameAt(fs, q).seq \in Nat
      BY <1>2, <1>4
    <3>2. QED
      BY <2>2, <2>3, <2>4, <3>1
  <2> HIDE DEF after
  <2>6. NextSeq(fs, a) = IF (\E q \in MutationsIn(fs) : q[1] = a) \/ after >= a THEN after ELSE a
    BY DEF NextSeq, after
  <2>7. (\E q \in MutationsIn(fs) : q[1] = a) => a <= after
    <3> SUFFICES ASSUME NEW q \in MutationsIn(fs), q[1] = a PROVE a <= after
      OBVIOUS
    <3>1. a <= FrameAt(fs, q).seq
      BY <1>4 DEF DiskOK, Partitioned
    <3>2. FrameAt(fs, q).seq \in Nat
      BY <1>2, <1>4
    <3>3. QED
      BY <1>1, <2>4, <2>5, <3>1, <3>2
  <2>8. /\ NextSeq(fs, a) \in Nat /\ a <= NextSeq(fs, a) /\ after <= NextSeq(fs, a)
        /\ NextSeq(fs, a) = a \/ NextSeq(fs, a) = after
    BY <1>1, <2>4, <2>6, <2>7
  <2>9. \A s \in DOMAIN fs : \A k \in 1 .. Len(fs[s]) :
          IsMutations(fs[s][k]) => fs[s][k].seq < NextSeq(fs, a)
    <3>1. \A s \in DOMAIN fs : \A k \in 1 .. Len(fs[s]) : IsMutations(fs[s][k]) => fs[s][k].seq < after
      BY <1>3, <2>5
    <3>2. QED
      BY <1>2, <2>4, <2>8, <3>1
  <2>10. \E s \in DOMAIN fs : \E k \in 1 .. Len(fs[s]) :
           IsMutations(fs[s][k]) /\ after = fs[s][k].seq + 1
    BY <1>4, <2>1, <2>2
  <2>11. QED
    BY <2>8, <2>9, <2>10
<1>7. QED
  BY <1>5, <1>6

LEMMA MaxViewIs ==
  ASSUME NEW fs, \A s \in DOMAIN fs : fs[s] \in Seq(Frames),
         \A s \in DOMAIN fs : \A k \in 1 .. Len(fs[s]) : fs[s][k].view <= MaxViews
  PROVE  /\ MaxView(fs) \in 0 .. MaxViews
         /\ \A s \in DOMAIN fs : \A k \in 1 .. Len(fs[s]) : fs[s][k].view <= MaxView(fs)
         /\ MaxView(fs) = 0 \/ \E s \in DOMAIN fs : \E k \in 1 .. Len(fs[s]) : MaxView(fs) = fs[s][k].view
<1> DEFINE V == {0} \cup UNION {{fs[s][k].view : k \in DOMAIN fs[s]} : s \in DOMAIN fs}
<1>1. \A s \in DOMAIN fs : DOMAIN fs[s] = 1 .. Len(fs[s]) /\ \A k \in 1 .. Len(fs[s]) : fs[s][k].view \in Nat
  <2>1. \A f \in Frames : f.view \in Nat
    BY DEF Frames
  <2>2. QED
    BY <2>1
<1>2. \A v : v \in V <=> v = 0 \/ \E s \in DOMAIN fs : \E k \in 1 .. Len(fs[s]) : v = fs[s][k].view
  BY <1>1
<1>3. MaxView(fs) = Max(V)
  BY DEF MaxView
<1> HIDE DEF V
<1>4. MaxViews \in Nat
  BY WalAssumption DEF WalAssumption
<1>5. V \subseteq Nat /\ V # {} /\ \A v \in V : v <= MaxViews
  BY <1>1, <1>2, <1>4
<1>6. MaxView(fs) \in V /\ \A v \in V : v <= MaxView(fs)
  BY <1>3, <1>4, <1>5, MaxIs
<1>7. MaxView(fs) \in Nat /\ MaxView(fs) <= MaxViews
  BY <1>5, <1>6
<1>8. \A s \in DOMAIN fs : \A k \in 1 .. Len(fs[s]) : fs[s][k].view \in V
  BY <1>2
<1>9. MaxView(fs) = 0 \/ \E s \in DOMAIN fs : \E k \in 1 .. Len(fs[s]) : MaxView(fs) = fs[s][k].view
  BY <1>2, <1>6
<1>10. QED
  BY <1>4, <1>6, <1>7, <1>8, <1>9

LEMMA OpenStep == ASSUME IInv, Open PROVE IInv'
<1> DEFINE a == Max(DOMAIN segs)
           sealed == [s \in DOMAIN segs \ {a} |-> Readable(segs[s])]
           kept == Scanned(segs[a], MaxView(sealed))
           view == ResumedView(With(sealed, a, kept))
           body == IF kept = << >> THEN <<Schema(view)>> ELSE kept
           files == With(sealed, a, body)
           next == NextSeq(files, a)
<1>1. /\ UNCHANGED <<world, run, acked, commits>> /\ pc = "down" /\ pc' = "opened"
      /\ segs' = [segs EXCEPT ![a] = body]
      /\ synced' = [s \in DOMAIN segs |-> Len(segs'[s])]
      /\ named' = DOMAIN segs /\ removed' = << >>
  BY DEF Open, countVars
<1>2. /\ IsHandle(wal)' /\ wal'.active = a /\ wal'.next_seq = next
      /\ wal'.pending = None /\ wal'.view = view
  <2>1. wal' = [active |-> a, active_bytes |-> Len(body), next_seq |-> next,
                durable_seq |-> next, durable_ends |-> synced',
                last_checkpoint |-> LastCheckpoint(files),
                bytes |-> BytesSinceCheckpoint(files), pending |-> None, view |-> view]
    BY DEF Open
  <2> HIDE DEF a, next, view, body, files
  <2>2. QED
    BY <2>1 DEF IsHandle
<1>3. DOMAIN segs # {} /\ commits \in Nat /\ MaxViews \in Nat /\ named \subseteq DOMAIN segs
  BY WalAssumption DEF IInv, FilesOK, CountsOK, WalAssumption
<1>4. \A s \in DOMAIN segs :
        s \in Nat /\ s <= commits /\ s \in DOMAIN Files /\ segs[s] = Files[s] /\ segs[s] \in Seq(Frames)
  BY FilesTyped DEF IInv, Bounded
<1>a. \A s \in DOMAIN segs : \A k \in 1 .. Len(segs[s]) :
        segs[s][k].view <= MaxViews /\ segs[s][k].view \in Nat
  BY FilesTyped DEF IInv, Bounded
<1>b. \A s \in DOMAIN segs : \A k \in 1 .. Len(segs[s]) : IsTorn(segs[s][k]) => k = Len(segs[s])
  BY FilesTyped DEF IInv, DiskOK, TornAtEnd
<1>5. a \in DOMAIN segs /\ \A s \in DOMAIN segs : s <= a
  <2>1. DOMAIN segs \subseteq Nat
    BY <1>4
  <2>2. QED
    BY <1>3, <1>4, <2>1, MaxIs
<1> HIDE DEF a
(* The sealed segments are whole.                                          *)
<1>6. \A s \in DOMAIN segs \ {a} : \A k \in 1 .. Len(segs[s]) : ~IsTorn(segs[s][k])
  <2> SUFFICES ASSUME NEW s \in DOMAIN segs \ {a}, NEW k \in 1 .. Len(segs[s]), IsTorn(segs[s][k])
               PROVE  FALSE
    OBVIOUS
  <2>1. \A t \in DOMAIN Files : t <= s
    BY <1>4 DEF IInv, DiskOK, TornAtEnd
  <2>2. QED
    BY <1>4, <1>5, <2>1
<1>7. \A s \in DOMAIN segs \ {a} : Readable(segs[s]) = segs[s]
  BY <1>4, <1>b, <1>6, ReadableFile
<1>8. DOMAIN sealed = DOMAIN segs \ {a} /\ \A s \in DOMAIN segs \ {a} : sealed[s] = segs[s]
  BY <1>7
<1> HIDE DEF sealed
<1>9. /\ MaxView(sealed) \in 0 .. MaxViews
      /\ MaxView(sealed) = 0 \/ \E s \in DOMAIN sealed : \E k \in 1 .. Len(sealed[s]) : MaxView(sealed) = sealed[s][k].view
  <2>1. /\ \A s \in DOMAIN sealed : sealed[s] \in Seq(Frames)
        /\ \A s \in DOMAIN sealed : \A k \in 1 .. Len(sealed[s]) : sealed[s][k].view <= MaxViews
    BY <1>4, <1>a, <1>8
  <2>2. QED
    BY <2>1, MaxViewIs
(* Nothing but a torn frame is cut off the last one.                       *)
<1> DEFINE whole == Readable(segs[a])
<1>10. /\ whole \in Seq(Frames)
       /\ \A k \in 1 .. Len(whole) :
            k \in 1 .. Len(segs[a]) /\ whole[k] = segs[a][k] /\ ~IsTorn(segs[a][k])
       /\ \A k \in 1 .. Len(segs[a]) : ~IsTorn(segs[a][k]) => k \in 1 .. Len(whole)
  <2>1. segs[a] \in Seq(Frames) /\ \A k \in 1 .. Len(segs[a]) : IsTorn(segs[a][k]) => k = Len(segs[a])
    BY <1>4, <1>b, <1>5
  <2>2. QED
    BY <2>1, ReadableFile
<1> HIDE DEF whole
<1>11. kept = whole
  <2>1. \A k \in 1 .. Len(whole) :
          /\ ~(whole[k].view < MaxView(sealed))
          /\ \A j \in 1 .. k - 1 : ~(whole[k].view < whole[j].view)
    <3> SUFFICES ASSUME NEW k \in 1 .. Len(whole)
                 PROVE  /\ ~(whole[k].view < MaxView(sealed))
                        /\ \A j \in 1 .. k - 1 : ~(whole[k].view < whole[j].view)
      OBVIOUS
    <3>1. k \in 1 .. Len(segs[a]) /\ whole[k] = segs[a][k] /\ ~IsTorn(segs[a][k]) /\ segs[a][k].view \in Nat
      BY <1>a, <1>5, <1>10
    <3>2. \A s \in DOMAIN segs \ {a} : \A j \in 1 .. Len(segs[s]) : segs[s][j].view <= segs[a][k].view
      <4>1. \A s \in DOMAIN segs \ {a} : s < a
        BY <1>4, <1>5
      <4>2. QED
        BY <1>4, <1>5, <3>1, <4>1 DEF IInv, DiskOK, Fenced
    <3>3. ~(whole[k].view < MaxView(sealed))
      BY <1>3, <1>a, <1>8, <1>9, <3>1, <3>2
    <3>4. \A j \in 1 .. k - 1 : ~(whole[k].view < whole[j].view)
      <4>1. \A j \in 1 .. k - 1 : j \in 1 .. Len(whole)
        BY <1>10
      <4>2. \A j \in 1 .. k - 1 : segs[a][j].view <= segs[a][k].view
        BY <1>4, <1>5, <3>1 DEF IInv, DiskOK, Fenced
      <4>3. QED
        BY <1>a, <1>5, <1>10, <3>1, <4>1, <4>2
    <3>5. QED
      BY <3>3, <3>4
  <2>2. MaxView(sealed) \in Nat
    BY <1>3, <1>9
  <2>3. QED
    BY <1>4, <1>5, <1>10, <2>1, <2>2, ScannedFile DEF whole
<1> HIDE DEF kept
<1> DEFINE cut == With(sealed, a, kept)
<1>12. /\ DOMAIN cut = DOMAIN segs
       /\ \A s \in DOMAIN segs :
            /\ cut[s] \in Seq(Frames)
            /\ \A k \in 1 .. Len(cut[s]) :
                 k \in 1 .. Len(segs[s]) /\ cut[s][k] = segs[s][k] /\ ~IsTorn(segs[s][k])
            /\ \A k \in 1 .. Len(segs[s]) : ~IsTorn(segs[s][k]) => k \in 1 .. Len(cut[s])
  <2>1. DOMAIN cut = DOMAIN segs /\ cut[a] = whole /\ \A s \in DOMAIN segs \ {a} : cut[s] = segs[s]
    BY <1>5, <1>8, <1>11 DEF With
  <2>2. QED
    BY <1>4, <1>6, <1>10, <2>1
<1>13. cut[a] = kept
  BY <1>5 DEF With
<1>14. view = MaxView(cut)
  BY DEF ResumedView
<1> HIDE DEF cut, view
<1>15. /\ view \in 0 .. MaxViews
       /\ \A s \in DOMAIN segs : \A k \in 1 .. Len(cut[s]) : cut[s][k].view <= view
  <2>1. /\ \A s \in DOMAIN cut : cut[s] \in Seq(Frames)
        /\ \A s \in DOMAIN cut : \A k \in 1 .. Len(cut[s]) : cut[s][k].view <= MaxViews
    BY <1>a, <1>12
  <2>2. QED
    BY <1>12, <1>14, <2>1, MaxViewIs
<1>16. Schema(view) \in Frames /\ Schema(view).kind = "schema" /\ Schema(view).view = view
       /\ Schema(view).seq = 0 /\ Schema(view).id = 0 /\ Schema(view).tick = 0
       /\ ~IsMutations(Schema(view)) /\ ~IsTorn(Schema(view))
  BY <1>15 DEF Schema, Frames, IsMutations, IsTorn
(* An empty segment gets its header.                                       *)
<1>17. /\ DOMAIN files = DOMAIN segs /\ DOMAIN cut = DOMAIN segs
       /\ \A s \in DOMAIN segs : s # a => files[s] = cut[s]
       /\ files[a] = IF cut[a] = << >> THEN <<Schema(view)>> ELSE cut[a]
  BY <1>5, <1>8, <1>12, <1>13 DEF With, cut
<1>18. segs' = files
  <2>1. files = [s \in DOMAIN files |-> files[s]]
    BY DEF With
  <2>2. \A s \in DOMAIN segs : s # a => cut[s] = segs[s]
    BY <1>8, <1>5 DEF cut, With
  <2>3. files[a] = body
    BY <1>5 DEF With
  <2> HIDE DEF files, body
  <2>4. QED
    BY <1>1, <1>5, <1>17, <2>1, <2>2, <2>3
<1> HIDE DEF files
<1>19. DOMAIN segs' = DOMAIN segs /\ DOMAIN synced' = DOMAIN segs
       /\ \A s \in DOMAIN segs : synced'[s] = Len(segs'[s])
  BY <1>1
<1>20. /\ DOMAIN Files' = DOMAIN segs /\ DOMAIN Durable' = DOMAIN segs
       /\ \A s \in DOMAIN segs : Files'[s] = files[s] /\ Durable'[s] = Len(files[s])
       /\ DOMAIN removed' = {}
  BY <1>1, <1>18, <1>19 DEF Files, Durable
<1>21. \A s \in DOMAIN segs :
         /\ \A k \in 1 .. Len(files[s]) :
              \/ k \in 1 .. Len(segs[s]) /\ files[s][k] = segs[s][k] /\ ~IsTorn(segs[s][k])
              \/ files[s][k] = Schema(view)
         /\ \A k \in 1 .. Len(segs[s]) : ~IsTorn(segs[s][k]) =>
              k \in 1 .. Len(files[s]) /\ files[s][k] = segs[s][k]
  <2> SUFFICES ASSUME NEW s \in DOMAIN segs
               PROVE  /\ \A k \in 1 .. Len(files[s]) :
                           \/ k \in 1 .. Len(segs[s]) /\ files[s][k] = segs[s][k] /\ ~IsTorn(segs[s][k])
                           \/ files[s][k] = Schema(view)
                      /\ \A k \in 1 .. Len(segs[s]) : ~IsTorn(segs[s][k]) =>
                           k \in 1 .. Len(files[s]) /\ files[s][k] = segs[s][k]
    OBVIOUS
  <2>1. CASE files[s] = cut[s]
    BY <1>12, <2>1
  <2>2. CASE files[s] = <<Schema(view)>> /\ cut[s] = << >>
    <3>1. Len(files[s]) = 1 /\ files[s][1] = Schema(view) /\ Len(cut[s]) = 0
      BY <2>2
    <3>2. \A k \in 1 .. Len(segs[s]) : IsTorn(segs[s][k])
      BY <1>12, <3>1
    <3>3. QED
      BY <3>1, <3>2
  <2>3. QED
    BY <1>17, <2>1, <2>2
<1>22. DiskOK(files, [s \in DOMAIN segs |-> Len(files[s])])
  <2> DEFINE lens == [s \in DOMAIN segs |-> Len(cut[s])]
  <2>1. DiskOK(cut, lens)
    <3>1. DOMAIN lens = DOMAIN cut /\ \A s \in DOMAIN cut : lens[s] = Len(cut[s])
      BY <1>12
    <3> HIDE DEF lens
    <3>2. \A s \in DOMAIN cut :
            /\ cut[s] \in Seq(Frames) /\ lens[s] = Len(cut[s])
            /\ \A k \in 1 .. Len(cut[s]) :
                 k \in 1 .. Len(Files[s]) /\ cut[s][k] = Files[s][k] /\ ~IsTorn(Files[s][k])
      BY <1>4, <1>12, <3>1
    <3>3. DOMAIN cut \subseteq DOMAIN Files
      BY <1>4, <1>12
    <3>4. QED
      BY <3>1, <3>2, <3>3, DiskCut DEF IInv
  <2>2. CASE cut[a] # << >>
    <3>1. \A s \in DOMAIN segs : files[s] = cut[s]
      BY <1>17, <2>2
    <3>2. QED
      BY <1>17, <2>1, <3>1, DiskCut, <1>12
  <2>3. CASE cut[a] = << >>
    <3>1. \A s \in DOMAIN cut : \A k \in 1 .. Len(cut[s]) :
            /\ ~IsTorn(cut[s][k]) /\ cut[s][k].view <= Schema(view).view
            /\ IsMutations(cut[s][k]) /\ IsMutations(Schema(view)) => cut[s][k].seq < Schema(view).seq
      BY <1>12, <1>15, <1>16
    <3>2. files[a] = Append(cut[a], Schema(view))
      <4>1. Append(<< >>, Schema(view)) = <<Schema(view)>>
        OBVIOUS
      <4>2. QED
        BY <1>17, <2>3, <4>1
    <3>3. DiskOK(files, lens)
      <4> HIDE DEF lens
      <4>1. QED
        BY <1>5, <1>16, <1>17, <2>1, <3>1, <3>2, DiskGrows
    <3>4. \A s \in DOMAIN segs : Len(files[s]) \in lens[s] .. Len(files[s])
      <4>1. \A s \in DOMAIN segs : lens[s] \in 0 .. Len(files[s]) /\ Len(files[s]) \in Nat
        <5> HIDE DEF lens
        <5>1. QED
          BY <1>17, <3>3 DEF DiskOK, Typed
      <4> HIDE DEF lens
      <4>2. QED
        BY <4>1
    <3>5. QED
      <4> DEFINE lengths == [s \in DOMAIN segs |-> Len(files[s])]
      <4>1. DOMAIN lengths = DOMAIN files /\ \A s \in DOMAIN files : lengths[s] \in lens[s] .. Len(files[s])
        BY <1>17, <3>4
      <4> HIDE DEF lengths, lens
      <4>2. DiskOK(files, lengths)
        BY <3>3, <4>1, DiskShrinks
      <4>3. QED
        BY <4>2 DEF lengths
  <2>4. QED
    BY <2>2, <2>3
<1>23. DiskOK(Files, Durable)' /\ DiskOK(files, Durable')
  <2>1. Files' = files /\ Durable' = [s \in DOMAIN segs |-> Len(files[s])]
    BY <1>1, <1>17, <1>18, <1>20 DEF Files, Durable
  <2>2. QED
    BY <1>22, <2>1
<1>24. /\ next \in Nat /\ a <= next
       /\ \A s \in DOMAIN segs : \A k \in 1 .. Len(files[s]) :
            IsMutations(files[s][k]) => files[s][k].seq < next
       /\ \/ next = a
          \/ \E s \in DOMAIN segs : \E k \in 1 .. Len(files[s]) :
               IsMutations(files[s][k]) /\ next = files[s][k].seq + 1
  BY <1>5, <1>17, <1>23, NextSeqIs
<1> HIDE DEF next
<1>25. Bounded(Files, commits)'
  <2>1. Schema(view).seq <= commits /\ Schema(view).id <= commits /\ Schema(view).view <= MaxViews /\ Schema(view).tick <= commits
    BY <1>3, <1>15, <1>16
  <2>2. QED
    BY <1>1, <1>4, <1>16, <1>20, <1>21, <2>1 DEF IInv, Bounded
<1>26. FilesOK'
  <2>1. \A s \in DOMAIN Files' : \A k \in 1 .. Len(Files'[s]) : ~IsTorn(Files'[s][k])
    BY <1>16, <1>20, <1>21
  <2>2. QED
    BY <1>1, <1>3, <1>19, <1>20, <2>1 DEF FilesOK
<1>27. CountsOK'
  BY <1>1, <1>2 DEF IInv, CountsOK, Steps
<1>28. run.seq_hi <= next
  <2>1. PICK s \in named :
          \/ run.seq_hi <= s
          \/ \E k \in 1 .. synced[s] : IsMutations(segs[s][k]) /\ run.seq_hi <= segs[s][k].seq + 1
    BY DEF IInv, RecoverableOK, Reaches
  <2>2. run.seq_hi \in Nat /\ s \in Nat /\ s <= a /\ a \in Nat
    BY <1>3, <1>4, <1>5 DEF IInv, CountsOK
  <2>3. CASE run.seq_hi <= s
    BY <1>24, <2>2, <2>3
  <2>4. CASE \E k \in 1 .. synced[s] : IsMutations(segs[s][k]) /\ run.seq_hi <= segs[s][k].seq + 1
    <3>1. PICK k \in 1 .. synced[s] : IsMutations(segs[s][k]) /\ run.seq_hi <= segs[s][k].seq + 1
      BY <2>4
    <3>2. k \in 1 .. Len(segs[s]) /\ ~IsTorn(segs[s][k]) /\ segs[s][k].seq \in Nat
      <4>1. synced[s] \in 0 .. Len(segs[s]) /\ Len(segs[s]) \in Nat
        BY <1>3, FilesTyped
      <4>2. k \in 1 .. Len(segs[s])
        BY <4>1
      <4>3. QED
        BY <1>3, <1>4, <3>1, <4>2, FilesTyped DEF IsMutations, IsTorn
    <3>3. segs[s][k].seq < next
      BY <1>3, <1>21, <1>24, <3>1, <3>2
    <3>4. QED
      BY <1>24, <2>2, <3>1, <3>2, <3>3
  <2>5. QED
    BY <2>1, <2>3, <2>4
<1>29. next <= commits
  <2>1. CASE next = a
    BY <1>4, <1>5, <2>1
  <2>2. CASE \E s \in DOMAIN segs : \E k \in 1 .. Len(files[s]) :
               IsMutations(files[s][k]) /\ next = files[s][k].seq + 1
    <3>1. PICK s \in DOMAIN segs : \E k \in 1 .. Len(files[s]) :
               IsMutations(files[s][k]) /\ next = files[s][k].seq + 1
      BY <2>2
    <3>2. PICK k \in 1 .. Len(files[s]) : IsMutations(files[s][k]) /\ next = files[s][k].seq + 1
      BY <3>1
    <3>3. k \in 1 .. Len(segs[s]) /\ files[s][k] = segs[s][k]
      BY <1>16, <1>21, <3>2
    <3>4. files[s][k].seq < commits /\ files[s][k].seq \in Nat
      BY <1>4, <3>2, <3>3, FilesTyped DEF IInv, Bounded
    <3>5. QED
      BY <1>3, <3>2, <3>4
  <2>3. QED
    BY <1>24, <2>1, <2>2
<1>30. HandleOK'
  <2>1. HandleTyped'
    BY <1>1, <1>2, <1>3, <1>5, <1>15, <1>24, <1>28, <1>29 DEF HandleTyped
  <2>2. AheadOfFiles'
    <3>1. \A s \in DOMAIN segs : \A k \in 1 .. Len(files[s]) : files[s][k].view <= view
      <4>1. Schema(view).view <= view
        BY <1>15, <1>16
      <4>2. QED
        BY <1>12, <1>15, <1>21, <4>1
    <3>2. QED
      BY <1>2, <1>5, <1>20, <1>24, <3>1 DEF AheadOfFiles
  <2>3. PendingOK' /\ StepsOK'
    BY <1>1, <1>2 DEF PendingOK, StepsOK
  <2>4. QED
    BY <2>1, <2>2, <2>3 DEF HandleOK
<1>31. TicksOK'
  <2>1. Ticking(Files, run.seq_hi)'
    <3>1. \A s \in DOMAIN segs : \A k \in 1 .. Len(files[s]) : IsMutations(files[s][k]) =>
            s \in DOMAIN Files /\ k \in 1 .. Len(Files[s]) /\ files[s][k] = Files[s][k]
      BY <1>4, <1>16, <1>21
    <3>2. Ticking(files, run.seq_hi)
      BY <1>17, <3>1 DEF IInv, TicksOK, Ticking
    <3>3. Files' = files /\ run' = run
      BY <1>1, <1>17, <1>18, <1>20 DEF Files
    <3>4. QED
      BY <3>2, <3>3
  <2>2. QED
    BY <1>1, <2>1 DEF TicksOK
<1>32. \A s \in named : \A k \in 1 .. synced[s] : IsMutations(segs[s][k]) =>
         s \in named' /\ k \in 1 .. synced'[s] /\ segs'[s][k] = segs[s][k]
  <2> SUFFICES ASSUME NEW s \in named, NEW k \in 1 .. synced[s], IsMutations(segs[s][k])
               PROVE  s \in named' /\ k \in 1 .. synced'[s] /\ segs'[s][k] = segs[s][k]
    OBVIOUS
  <2>1. k \in 1 .. Len(segs[s])
    <3>1. synced[s] \in 0 .. Len(segs[s]) /\ Len(segs[s]) \in Nat
      BY <1>3, FilesTyped
    <3>2. QED
      BY <3>1
  <2>2. ~IsTorn(segs[s][k])
    BY DEF IsTorn, IsMutations
  <2>3. QED
    BY <1>1, <1>3, <1>18, <1>19, <1>21, <2>1, <2>2
<1>33. RecoverableOK'
  <2>1. Reaches(run.seq_hi)'
    <3>1. run' = run /\ \A s \in named : s \in named'
      BY <1>1, <1>3
    <3>2. QED
      BY <1>32, <3>1 DEF IInv, RecoverableOK, Reaches
  <2>2. Reaches(wal.next_seq)'
    <3>1. CASE next = a
      <4>1. a \in named' /\ next <= a
        BY <1>1, <1>5, <1>24, <3>1
      <4>2. QED
        BY <1>2, <4>1 DEF Reaches
    <3>2. CASE \E s \in DOMAIN segs : \E k \in 1 .. Len(files[s]) :
                 IsMutations(files[s][k]) /\ next = files[s][k].seq + 1
      <4>1. \A s \in DOMAIN segs : s \in named' /\ segs'[s] = files[s] /\ synced'[s] = Len(files[s])
        BY <1>1, <1>18, <1>19
      <4>2. next <= next
        BY <1>24
      <4>3. QED
        BY <1>2, <3>2, <4>1, <4>2 DEF Reaches
    <3>3. QED
      BY <1>24, <3>1, <3>2
  <2>3. \A i \in acked : i \notin run.content =>
          \E s \in named' : \E k \in 1 .. synced'[s] :
            IsMutations(segs'[s][k]) /\ segs'[s][k].id = i /\ run.seq_hi <= segs'[s][k].seq
    BY <1>32 DEF IInv, RecoverableOK
  <2>4. QED
    BY <1>1, <2>1, <2>2, <2>3 DEF RecoverableOK
<1>34. QED
  BY <1>23, <1>25, <1>26, <1>27, <1>30, <1>31, <1>33 DEF IInv

(* While no file is torn, a reader sees the files as they are.             *)
LEMMA NothingTorn ==
  ASSUME IInv, pc # "down"
  PROVE  ReadableFiles = [s \in DOMAIN segs |-> segs[s]] /\ ~SealedTorn
<1>1. \A s \in DOMAIN segs : segs[s] \in Seq(Frames) /\ \A k \in 1 .. Len(segs[s]) : ~IsTorn(segs[s][k])
  BY FilesTyped DEF IInv, FilesOK
<1>2. \A s \in DOMAIN segs : Readable(segs[s]) = segs[s] /\ SelectInSeq(segs[s], IsTorn) = 0
  BY <1>1, ReadableFile
<1>3. QED
  BY <1>2 DEF ReadableFiles, SealedTorn

(* Nor is any frame stale.                                                 *)
LEMMA NothingStale ==
  ASSUME NEW fs, NEW sy, DiskOK(fs, sy), NEW p \in Places(fs), ~IsTorn(FrameAt(fs, p))
  PROVE  ~IsStaleAt(fs, p)
<1>1. \A s \in DOMAIN fs : s \in Nat /\ DOMAIN fs[s] = 1 .. Len(fs[s]) /\ Len(fs[s]) \in Nat /\ fs[s] \in Seq(Frames)
  BY DEF DiskOK, Typed
<1>2. \A q \in Places(fs) : q[1] \in DOMAIN fs /\ q[2] \in 1 .. Len(fs[q[1]])
  BY <1>1 DEF Places
<1>3. \A q \in Places(fs) : fs[q[1]][q[2]].view \in Nat
  <2>1. \A f \in Frames : f.view \in Nat
    BY DEF Frames
  <2>2. QED
    BY <1>1, <1>2, <2>1
<1> SUFFICES ASSUME NEW q \in Places(fs), Before(q, p)
             PROVE  ~(FrameAt(fs, p).view < FrameAt(fs, q).view)
  BY DEF IsStaleAt
<1>4. fs[q[1]][q[2]].view <= fs[p[1]][p[2]].view
  <2>1. CASE q[1] < p[1]
    BY <1>2, <2>1 DEF DiskOK, Fenced, FrameAt
  <2>2. CASE q[1] = p[1] /\ q[2] < p[2]
    <3>1. q[2] \in 1 .. p[2] - 1
      BY <1>1, <1>2, <2>2
    <3>2. QED
      BY <1>2, <2>2, <3>1 DEF DiskOK, Fenced, FrameAt
  <2>3. QED
    BY <2>1, <2>2 DEF Before
<1>5. QED
  BY <1>3, <1>4 DEF FrameAt

LEMMA PlacesOfSegments ==
  ASSUME IInv
  PROVE  /\ \A p \in Places(segs) :
              /\ p = <<p[1], p[2]>> /\ p[1] \in DOMAIN segs /\ p[2] \in 1 .. Len(segs[p[1]])
              /\ p[1] \in DOMAIN Files /\ Files[p[1]] = segs[p[1]] /\ FrameAt(segs, p) = Files[p[1]][p[2]]
         /\ \A s \in DOMAIN segs : \A k \in 1 .. Len(segs[s]) :
              <<s, k>> \in Places(segs) /\ FrameAt(segs, <<s, k>>) = segs[s][k]
         /\ DiskOK(segs, synced)
<1>1. \A s \in DOMAIN segs : segs[s] \in Seq(Frames) /\ DOMAIN segs[s] = 1 .. Len(segs[s]) /\ s \in DOMAIN Files /\ Files[s] = segs[s]
  BY FilesTyped
<1>2. \A p \in Places(segs) :
        p = <<p[1], p[2]>> /\ p[1] \in DOMAIN segs /\ p[2] \in 1 .. Len(segs[p[1]])
  BY <1>1 DEF Places
<1>3. \A s \in DOMAIN segs : \A k \in 1 .. Len(segs[s]) :
        <<s, k>> \in Places(segs) /\ FrameAt(segs, <<s, k>>) = segs[s][k]
  BY <1>1 DEF Places, FrameAt
<1>4. DiskOK(segs, synced)
  <2>1. /\ DOMAIN segs \subseteq DOMAIN Files /\ DOMAIN synced = DOMAIN segs
        /\ \A s \in DOMAIN segs : segs[s] = Files[s] /\ synced[s] \in Durable[s] .. Len(Files[s])
    BY FilesTyped DEF IInv, FilesOK
  <2>2. QED
    BY <2>1, DiskShrinks DEF IInv
<1>5. QED
  BY <1>1, <1>2, <1>3, <1>4 DEF FrameAt

LEMMA RecoverStep == ASSUME IInv, Recover PROVE IInv'
<1>1. UNCHANGED <<segs, synced, named, removed, wal, run, acked, commits>> /\ pc = "opened"
  BY DEF Recover, diskVars, countVars
<1>2. Files' = Files /\ Durable' = Durable /\ DiskOK(Files, Durable)'
  BY <1>1, SameFiles DEF diskVars
<1> DEFINE tail == ReplayTail
<1>3. /\ \A p \in Places(segs) :
            /\ p = <<p[1], p[2]>> /\ p[1] \in DOMAIN segs /\ p[2] \in 1 .. Len(segs[p[1]])
            /\ p[1] \in DOMAIN Files /\ Files[p[1]] = segs[p[1]] /\ FrameAt(segs, p) = Files[p[1]][p[2]]
      /\ \A s \in DOMAIN segs : \A k \in 1 .. Len(segs[s]) :
            <<s, k>> \in Places(segs) /\ FrameAt(segs, <<s, k>>) = segs[s][k]
      /\ DiskOK(segs, synced)
  BY PlacesOfSegments
<1>4. tail = {p \in MutationsIn(segs) : FrameAt(segs, p).seq >= run.seq_hi}
  <2>1. \A p \in MutationsIn(segs) : ~IsStaleAt(segs, p)
    <3>1. \A p \in MutationsIn(segs) : p \in Places(segs) /\ ~IsTorn(FrameAt(segs, p))
      BY DEF MutationsIn, IsMutations, IsTorn
    <3>2. QED
      BY <1>3, <3>1, NothingStale
  <2>2. ReadableFiles = [s \in DOMAIN segs |-> segs[s]]
    BY <1>1, NothingTorn
  <2>3. MutationsIn(ReadableFiles) = MutationsIn(segs) /\ Places(ReadableFiles) = Places(segs)
        /\ \A p \in Places(segs) : FrameAt(ReadableFiles, p) = FrameAt(segs, p)
    <3>1. DOMAIN ReadableFiles = DOMAIN segs /\ \A s \in DOMAIN segs : ReadableFiles[s] = segs[s]
      BY <2>2
    <3>2. Places(ReadableFiles) = Places(segs)
      BY <3>1 DEF Places
    <3>3. \A p \in Places(segs) : FrameAt(ReadableFiles, p) = FrameAt(segs, p)
      BY <1>3, <3>1 DEF FrameAt
    <3>4. QED
      BY <3>2, <3>3 DEF MutationsIn
  <2>4. \A p \in Places(segs) : IsStaleAt(ReadableFiles, p) <=> IsStaleAt(segs, p)
    BY <2>3 DEF IsStaleAt
  <2>5. MutationsIn(segs) \subseteq Places(segs)
    BY DEF MutationsIn
  <2>6. QED
    BY <2>1, <2>3, <2>4, <2>5 DEF ReplayTail
<1> HIDE DEF tail
<1>5. \A p \in tail : p \in MutationsIn(segs) /\ p \in Places(segs) /\ IsMutations(FrameAt(segs, p))
        /\ run.seq_hi <= FrameAt(segs, p).seq
  <2>1. \A p \in MutationsIn(segs) : p \in Places(segs) /\ IsMutations(FrameAt(segs, p)) /\ FrameAt(segs, p).seq \in Nat
    BY <1>3, FilesTyped DEF MutationsIn
  <2>2. run.seq_hi \in Nat
    BY DEF IInv, CountsOK
  <2>3. QED
    BY <1>4, <2>1, <2>2
<1>6. \A p, q \in tail : Before(p, q) => FrameAt(segs, p).tick < FrameAt(segs, q).tick
  <2> SUFFICES ASSUME NEW p \in tail, NEW q \in tail, Before(p, q)
               PROVE  FrameAt(segs, p).tick < FrameAt(segs, q).tick
    OBVIOUS
  <2>1. FrameAt(segs, p).seq < FrameAt(segs, q).seq
    BY <1>3, <1>5, RecordOrder
  <2>2. QED
    BY <1>3, <1>5, <2>1 DEF IInv, TicksOK, Ticking
<1>7. pc' = "idle"
  <2>1. TicksValid(tail)
    BY <1>6 DEF TicksValid
  <2>2. ~SealedTorn
    BY <1>1, NothingTorn
  <2>3. QED
    BY <2>1, <2>2 DEF Recover, tail
<1>8. PICK dirty \in BOOLEAN :
        world' = [content |-> run.content \cup {FrameAt(segs, p).id : p \in tail},
                  tick |-> IF tail = {} THEN 0 ELSE FrameAt(segs, LastOf(tail)).tick + 1,
                  dirty |-> dirty]
  BY DEF Recover, tail
<1>9. /\ world'.content = run.content \cup {FrameAt(segs, p).id : p \in tail}
      /\ world'.tick = IF tail = {} THEN 0 ELSE FrameAt(segs, LastOf(tail)).tick + 1
      /\ world'.dirty \in BOOLEAN
      /\ world' = [content |-> world'.content, tick |-> world'.tick, dirty |-> world'.dirty]
  BY <1>8
<1>10. \A p \in tail : /\ FrameAt(segs, p).id \in 1 .. commits
                     /\ FrameAt(segs, p).tick \in Nat /\ FrameAt(segs, p).tick < commits
  <2>1. \A p \in tail : FrameAt(segs, p).id \in Nat /\ FrameAt(segs, p).tick \in Nat
    BY <1>3, <1>5, FilesTyped
  <2>2. \A p \in tail : /\ 0 < FrameAt(segs, p).id /\ FrameAt(segs, p).id <= commits
                      /\ FrameAt(segs, p).tick < commits
    BY <1>3, <1>5 DEF IInv, Bounded
  <2>3. commits \in Nat
    BY DEF IInv, CountsOK
  <2>4. QED
    BY <2>1, <2>2, <2>3
<1>11. tail # {} => LastOf(tail) \in tail /\ \A q \in tail : q = LastOf(tail) \/ Before(q, LastOf(tail))
  <2>1. /\ DOMAIN segs \subseteq Nat /\ \A s \in DOMAIN segs : s <= commits /\ segs[s] \in Seq(Frames)
        /\ commits \in Nat
    BY FilesTyped DEF IInv, Bounded, CountsOK
  <2>2. tail \subseteq Places(segs)
    BY <1>5
  <2>3. QED
    BY <2>1, <2>2, LastPlace
<1>12. world'.tick \in 0 .. commits /\ \A p \in tail : FrameAt(segs, p).tick < world'.tick
  <2>1. commits \in Nat
    BY DEF IInv, CountsOK
  <2>2. CASE tail = {}
    BY <1>9, <2>1, <2>2
  <2>3. CASE tail # {}
    <3>1. world'.tick = FrameAt(segs, LastOf(tail)).tick + 1
      BY <1>9, <2>3
    <3>2. LastOf(tail) \in tail /\ FrameAt(segs, LastOf(tail)).tick \in Nat /\ FrameAt(segs, LastOf(tail)).tick < commits
      BY <1>10, <1>11, <2>3
    <3>3. \A p \in tail : p = LastOf(tail) \/ FrameAt(segs, p).tick < FrameAt(segs, LastOf(tail)).tick
      BY <1>6, <1>11, <2>3
    <3>4. \A p \in tail : FrameAt(segs, p).tick < world'.tick
      BY <1>10, <3>1, <3>2, <3>3
    <3>5. QED
      BY <2>1, <3>1, <3>2, <3>4
  <2>4. QED
    BY <2>2, <2>3
<1>13. FilesOK' /\ Bounded(Files, commits)'
  BY <1>1, <1>2, <1>7 DEF IInv, FilesOK
<1>14. CountsOK'
  <2>1. world'.content \subseteq 1 .. commits
    BY <1>9, <1>10 DEF IInv, CountsOK
  <2>2. QED
    BY <1>1, <1>7, <1>9, <1>12, <2>1 DEF IInv, CountsOK, Steps
<1>15. HandleOK'
  <2>1. HandleTyped' /\ PendingOK' /\ StepsOK'
    BY <1>1, <1>2, <1>7 DEF IInv, HandleOK, HandleTyped, PendingOK, StepsOK
  <2>2. AheadOfFiles'
    BY <1>1, <1>2 DEF IInv, HandleOK, AheadOfFiles
  <2>3. QED
    BY <2>1, <2>2 DEF HandleOK
<1>16. \A s \in DOMAIN segs : \A k \in 1 .. Len(segs[s]) :
         IsMutations(segs[s][k]) /\ run.seq_hi <= segs[s][k].seq => <<s, k>> \in tail
  <2> SUFFICES ASSUME NEW s \in DOMAIN segs, NEW k \in 1 .. Len(segs[s]),
                      IsMutations(segs[s][k]), run.seq_hi <= segs[s][k].seq
               PROVE  <<s, k>> \in tail
    OBVIOUS
  <2>1. <<s, k>> \in Places(segs) /\ FrameAt(segs, <<s, k>>) = segs[s][k]
    BY <1>3
  <2>2. segs[s][k].seq \in Nat /\ run.seq_hi \in Nat
    BY FilesTyped DEF IInv, CountsOK
  <2>3. QED
    BY <1>4, <2>1, <2>2 DEF MutationsIn
<1>17. TicksOK'
  <2>1. \A s \in DOMAIN Files : s \in DOMAIN segs /\ Files[s] = segs[s]
    BY <1>1, FilesTyped DEF IInv, FilesOK
  <2>2. \A s \in DOMAIN Files : \A k \in 1 .. Len(Files[s]) :
          IsMutations(Files[s][k]) /\ run.seq_hi <= Files[s][k].seq => Files[s][k].tick < world'.tick
    <3> SUFFICES ASSUME NEW s \in DOMAIN Files, NEW k \in 1 .. Len(Files[s]),
                        IsMutations(Files[s][k]), run.seq_hi <= Files[s][k].seq
                 PROVE  Files[s][k].tick < world'.tick
      OBVIOUS
    <3>1. <<s, k>> \in tail /\ FrameAt(segs, <<s, k>>) = Files[s][k]
      BY <1>3, <1>16, <2>1
    <3>2. QED
      BY <1>12, <3>1
  <2>3. QED
    BY <1>1, <1>2, <2>2 DEF IInv, TicksOK
<1>18. RecoverableOK'
  <2>1. \A i \in acked : i \in world'.content
    <3> SUFFICES ASSUME NEW i \in acked, i \notin run.content PROVE i \in world'.content
      BY <1>9
    <3>1. PICK s \in named : \E k \in 1 .. synced[s] :
            IsMutations(segs[s][k]) /\ segs[s][k].id = i /\ run.seq_hi <= segs[s][k].seq
      BY DEF IInv, RecoverableOK
    <3>2. PICK k \in 1 .. synced[s] :
            IsMutations(segs[s][k]) /\ segs[s][k].id = i /\ run.seq_hi <= segs[s][k].seq
      BY <3>1
    <3>3. s \in DOMAIN segs /\ k \in 1 .. Len(segs[s])
      <4>1. s \in DOMAIN segs
        BY DEF IInv, FilesOK
      <4>2. synced[s] \in 0 .. Len(segs[s]) /\ Len(segs[s]) \in Nat
        BY <4>1, FilesTyped
      <4>3. QED
        BY <4>1, <4>2
    <3>4. <<s, k>> \in tail /\ FrameAt(segs, <<s, k>>).id = i
      BY <1>3, <1>16, <3>2, <3>3
    <3>5. QED
      BY <1>9, <3>4
  <2>2. Reaches(run.seq_hi)' /\ Reaches(wal.next_seq)'
    BY <1>1 DEF IInv, RecoverableOK, Reaches
  <2>3. QED
    BY <1>1, <2>1, <2>2 DEF IInv, RecoverableOK
<1>19. QED
  BY <1>2, <1>13, <1>14, <1>15, <1>17, <1>18 DEF IInv

-----------------------------------------------------------------------------
(* The theorems.                                                           *)

LEMMA InitOK == Init => IInv
<1> SUFFICES ASSUME Init PROVE IInv
  OBVIOUS
<1>1. /\ Schema(0) \in Frames /\ Schema(0).kind = "schema" /\ Schema(0).view = 0 /\ Schema(0).seq = 0
      /\ Schema(0).id = 0 /\ Schema(0).tick = 0
      /\ ~IsMutations(Schema(0)) /\ ~IsTorn(Schema(0))
  BY DEF Schema, Frames, IsMutations, IsTorn
<1>2. /\ DOMAIN segs = {0} /\ segs[0] = <<Schema(0)>> /\ DOMAIN synced = {0} /\ synced[0] = 1
      /\ named = {0} /\ DOMAIN removed = {}
  BY DEF Init
<1>3. /\ DOMAIN Files = {0} /\ DOMAIN Durable = {0} /\ Files[0] = <<Schema(0)>> /\ Durable[0] = 1
  BY <1>2 DEF Files, Durable
<1>4. Len(Files[0]) = 1 /\ Files[0][1] = Schema(0) /\ Files[0] \in Seq(Frames)
  BY <1>1, <1>3
<1>5. \A s \in DOMAIN Files : \A k \in 1 .. Len(Files[s]) : s = 0 /\ k = 1 /\ Files[s][k] = Schema(0)
  BY <1>3, <1>4
<1>6. DiskOK(Files, Durable)
  <2>1. Typed(Files, Durable)
    BY <1>3, <1>4 DEF Typed
  <2>2. Sealed(Files, Durable) /\ TornAtEnd(Files) /\ Partitioned(Files)
    BY <1>1, <1>3, <1>5 DEF Sealed, TornAtEnd, Partitioned
  <2>3. Fenced(Files)
    <3>1. \A k \in 1 .. 1 : 1 .. k - 1 = {}
      OBVIOUS
    <3>2. QED
      BY <1>3, <1>4, <1>5, <3>1 DEF Fenced
  <2>4. QED
    BY <2>1, <2>2, <2>3 DEF DiskOK
<1>7. commits = 0 /\ pc = "idle" /\ MaxViews \in Nat /\ MaxCommits \in Nat
  BY WalAssumption DEF Init, WalAssumption
<1>8. Bounded(Files, commits)
  BY <1>1, <1>3, <1>5, <1>7 DEF Bounded
<1>9. FilesOK
  BY <1>1, <1>2, <1>3, <1>5, <1>7 DEF FilesOK
<1>10. IsHandle(wal) /\ wal.active = 0 /\ wal.next_seq = 0 /\ wal.pending = None /\ wal.view = 0
  BY DEF Init, IsHandle
<1>11. /\ world = [content |-> {}, tick |-> 0, dirty |-> FALSE] /\ run = [seq_hi |-> 0, content |-> {}] /\ acked = {}
  BY DEF Init
<1>12. CountsOK
  BY <1>7, <1>10, <1>11 DEF CountsOK, Steps
<1>13. HandleOK
  <2>1. HandleTyped /\ PendingOK /\ StepsOK
    BY <1>2, <1>7, <1>10, <1>11 DEF HandleTyped, PendingOK, StepsOK
  <2>2. AheadOfFiles
    BY <1>1, <1>3, <1>5, <1>10 DEF AheadOfFiles
  <2>3. QED
    BY <2>1, <2>2 DEF HandleOK
<1>14. TicksOK
  BY <1>1, <1>5 DEF TicksOK, Ticking
<1>15. RecoverableOK
  BY <1>2, <1>10, <1>11 DEF RecoverableOK, Reaches
<1>16. QED
  BY <1>6, <1>8, <1>9, <1>12, <1>13, <1>14, <1>15 DEF IInv

LEMMA StepOK == ASSUME "part" \notin FailedWrites PROVE IInv /\ [Next]_vars => IInv'
<1> SUFFICES ASSUME IInv, [Next]_vars PROVE IInv'
  OBVIOUS
<1>1. CASE UNCHANGED vars
  <2>1. Files' = Files /\ Durable' = Durable
    BY <1>1 DEF vars, diskVars, Files, Durable
  <2>2. UNCHANGED <<segs, synced, named, removed, wal, pc, world, run, acked, commits>>
    BY <1>1 DEF vars, diskVars, countVars
  <2>3. FilesOK' /\ CountsOK' /\ RecoverableOK'
    BY <2>1, <2>2 DEF IInv, FilesOK, CountsOK, RecoverableOK, Reaches
  <2>4. HandleOK' /\ TicksOK'
    BY <2>1, <2>2 DEF IInv, HandleOK, HandleTyped, AheadOfFiles, PendingOK, StepsOK, TicksOK
  <2>5. QED
    BY <2>1, <2>2, <2>3, <2>4 DEF IInv
<1>2. CASE Next
  BY <1>2, BumpStep, AppendWriteStep, AppendSyncStep, RollCreateStep, RollPublishStep,
     RollAbandonStep, GivenUpStep, ApplyStep, FlushStep, AckWriteStep, AckWriteFailsStep,
     AckSyncStep, CleanUpAgainFailsStep, DeleteSegmentsStep, PowerLossStep, OpenStep,
     RecoverStep DEF Next
<1>3. QED
  BY <1>1, <1>2

(* The inductive invariant holds throughout, if no failed write leaves     *)
(* part of a frame.                                                        *)
THEOREM Invariance == ASSUME "part" \notin FailedWrites PROVE Spec => []IInv
<1>1. Init => IInv
  BY InitOK
<1>2. IInv /\ [Next]_vars => IInv'
  BY StepOK
<1>3. QED
  BY <1>1, <1>2, PTL DEF Spec

(* The variables of the log keep their types and their bounds.             *)
THEOREM TypeCorrectness == ASSUME "part" \notin FailedWrites PROVE Spec => []TypeOK
<1>1. IInv => TypeOK
  <2> SUFFICES ASSUME IInv PROVE TypeOK
    OBVIOUS
  <2>1. commits \in Nat /\ commits <= MaxCommits /\ MaxCommits \in Nat /\ MaxViews \in Nat
    BY WalAssumption DEF IInv, CountsOK, WalAssumption
  <2>2. \A s \in DOMAIN Files : s \in 0 .. MaxCommits
    <3>1. \A s \in DOMAIN Files : s \in Nat /\ s <= commits
      BY FilesTyped DEF IInv, Bounded
    <3>2. QED
      BY <2>1, <3>1
  <2>3. \A s \in DOMAIN segs : \A k \in 1 .. Len(segs[s]) : IsFrame(segs[s][k])
    <3> SUFFICES ASSUME NEW s \in DOMAIN segs, NEW k \in 1 .. Len(segs[s]) PROVE IsFrame(segs[s][k])
      OBVIOUS
    <3>1. s \in DOMAIN Files /\ Files[s] = segs[s] /\ segs[s] \in Seq(Frames)
      BY FilesTyped
    <3>2. /\ segs[s][k].seq <= commits /\ segs[s][k].id <= commits
          /\ segs[s][k].tick <= commits /\ segs[s][k].view <= MaxViews
      BY <3>1 DEF IInv, Bounded
    <3>3. segs[s][k] \in Frames
      BY <3>1
    <3>4. /\ segs[s][k].kind \in {"schema", "mutations", "checkpoint", "torn"}
          /\ segs[s][k].seq \in Nat /\ segs[s][k].id \in Nat
          /\ segs[s][k].tick \in Nat /\ segs[s][k].view \in Nat
      BY <3>3 DEF Frames
    <3>5. QED
      BY <2>1, <3>2, <3>4 DEF IsFrame
  <2>4. \A s \in DOMAIN segs : DOMAIN segs[s] = 1 .. Len(segs[s]) /\ synced[s] \in 0 .. Len(segs[s])
    BY FilesTyped
  <2>5. DOMAIN segs \subseteq DOMAIN Files /\ DOMAIN removed \subseteq DOMAIN Files
    BY FilesTyped
  <2>6. \A S : S \subseteq 1 .. commits => S \subseteq 1 .. MaxCommits
    BY <2>1
  <2>7. world.tick \in 0 .. MaxCommits /\ run.seq_hi \in 0 .. MaxCommits
    BY <2>1 DEF IInv, CountsOK
  <2>8. world.content \subseteq 1 .. MaxCommits /\ run.content \subseteq 1 .. MaxCommits /\ acked \subseteq 1 .. MaxCommits
    BY <2>6 DEF IInv, CountsOK
  <2>9. wal.pending \in (0 .. MaxCommits) \cup {None}
    BY <2>1 DEF IInv, CountsOK
  <2>10. QED
    BY <2>2, <2>3, <2>4, <2>5, <2>7, <2>8, <2>9 DEF IInv, FilesOK, CountsOK, TypeOK
<1>2. QED
  BY <1>1, Invariance, PTL

(* What Durable promises: recovery never fails, and between commits the    *)
(* world has every commit whose append returned, whatever crashed since.   *)
THEOREM DurabilityOfCommits ==
  ASSUME "part" \notin FailedWrites PROVE Spec => []AcknowledgedCommitsSurvive
<1>1. IInv => AcknowledgedCommitsSurvive
  BY DEF IInv, CountsOK, RecoverableOK, AcknowledgedCommitsSurvive
<1>2. QED
  BY <1>1, Invariance, PTL

(* At every moment the newest run and the durable part of the log suffice  *)
(* to recover every acknowledged commit: rollover, checkpoint and          *)
(* delete_segments_before take nothing away that a replay needs.           *)
THEOREM NothingNeededIsLost ==
  ASSUME "part" \notin FailedWrites PROVE Spec => []AckedIsRecoverable
<1>1. IInv => AckedIsRecoverable
  <2> SUFFICES ASSUME IInv, NEW i \in acked, i \notin run.content
               PROVE  \E s \in named : \E j \in DOMAIN DurableFrames(s) :
                        /\ IsMutations(DurableFrames(s)[j]) /\ DurableFrames(s)[j].seq >= run.seq_hi
                        /\ DurableFrames(s)[j].id = i
    BY DEF AckedIsRecoverable
  <2>1. PICK s \in named : \E k \in 1 .. synced[s] :
          IsMutations(segs[s][k]) /\ segs[s][k].id = i /\ run.seq_hi <= segs[s][k].seq
    BY DEF IInv, RecoverableOK
  <2>2. PICK k \in 1 .. synced[s] :
          IsMutations(segs[s][k]) /\ segs[s][k].id = i /\ run.seq_hi <= segs[s][k].seq
    BY <2>1
  <2>3. /\ s \in DOMAIN segs /\ s \in DOMAIN Files /\ Files[s] = segs[s] /\ segs[s] \in Seq(Frames)
        /\ synced[s] \in 0 .. Len(segs[s]) /\ Len(segs[s]) \in Nat
    BY FilesTyped DEF IInv, FilesOK
  <2>4. k \in 1 .. Len(segs[s])
    BY <2>3
  <2>5. \A j \in 1 .. Len(segs[s]) : IsTorn(segs[s][j]) => j = Len(segs[s])
    BY <2>3 DEF IInv, DiskOK, TornAtEnd
  <2> DEFINE fr == SubSeq(segs[s], 1, synced[s])
  <2>6. fr \in Seq(Frames) /\ Len(fr) = synced[s] /\ \A j \in 1 .. synced[s] : fr[j] = segs[s][j]
    BY <2>3
  <2> HIDE DEF fr
  <2>7. \A j \in 1 .. Len(fr) : IsTorn(fr[j]) => j = Len(fr)
    BY <2>3, <2>5, <2>6
  <2>8. /\ Readable(fr) \in Seq(Frames)
        /\ \A j \in 1 .. Len(Readable(fr)) : Readable(fr)[j] = fr[j]
        /\ \A j \in 1 .. Len(fr) : ~IsTorn(fr[j]) => j \in 1 .. Len(Readable(fr))
    BY <2>6, <2>7, ReadableFile
  <2>9. DurableFrames(s) = Readable(fr)
    BY DEF DurableFrames, fr
  <2>10. ~IsTorn(fr[k]) /\ fr[k] = segs[s][k]
    BY <2>2, <2>6 DEF IsTorn, IsMutations
  <2>11. k \in DOMAIN DurableFrames(s) /\ DurableFrames(s)[k] = segs[s][k]
    BY <2>6, <2>8, <2>9, <2>10
  <2>12. segs[s][k].seq >= run.seq_hi
    BY <2>2, <2>3, <2>4, FilesTyped DEF IInv, CountsOK
  <2>13. QED
    BY <2>2, <2>11, <2>12
<1>2. QED
  BY <1>1, Invariance, PTL

(* The name of a segment bounds the records in it and in the ones before.  *)
THEOREM SegmentsAreNamedAfterContent ==
  ASSUME "part" \notin FailedWrites PROVE Spec => []SegmentsPartition
<1>1. IInv => SegmentsPartition
  <2> SUFFICES ASSUME IInv PROVE SegmentsPartition
    OBVIOUS
  <2>1. DiskOK(segs, synced) /\ \A s \in DOMAIN segs : DOMAIN segs[s] = 1 .. Len(segs[s])
    BY PlacesOfSegments, FilesTyped
  <2>2. QED
    BY <2>1 DEF DiskOK, Partitioned, SegmentsPartition
<1>2. QED
  BY <1>1, Invariance, PTL

(* No sequence number is given out twice, across crashes and deletions.    *)
THEOREM SequenceNumbersStayFresh ==
  ASSUME "part" \notin FailedWrites PROVE Spec => []SequenceNumbersAreFresh
<1>1. IInv => SequenceNumbersAreFresh
  <2> SUFFICES ASSUME IInv PROVE SequenceNumbersAreFresh
    OBVIOUS
  <2>1. \A p, q \in MutationsIn(segs) : Before(p, q) => FrameAt(segs, p).seq < FrameAt(segs, q).seq
    BY PlacesOfSegments, RecordOrder
  <2>2. ASSUME pc # "down", NEW p \in MutationsIn(segs)
        PROVE  FrameAt(segs, p).seq < wal.next_seq
    <3>1. p \in Places(segs) /\ IsMutations(FrameAt(segs, p))
      BY DEF MutationsIn
    <3>2. /\ p[1] \in DOMAIN Files /\ p[2] \in 1 .. Len(Files[p[1]]) /\ FrameAt(segs, p) = Files[p[1]][p[2]]
      BY <3>1, PlacesOfSegments
    <3>3. QED
      BY <2>2, <3>1, <3>2 DEF IInv, HandleOK, AheadOfFiles
  <2>3. pc # "down" => run.seq_hi <= wal.next_seq
    BY DEF IInv, HandleOK, HandleTyped
  <2>4. QED
    BY <2>1, <2>2, <2>3 DEF SequenceNumbersAreFresh
<1>2. QED
  BY <1>1, Invariance, PTL

(* INV-2: the frames of the log never go back to an older view.            *)
THEOREM ViewsStayInOrder ==
  ASSUME "part" \notin FailedWrites PROVE Spec => []ViewsNeverRegress
<1>1. IInv => ViewsNeverRegress
  <2> SUFFICES ASSUME IInv PROVE ViewsNeverRegress
    OBVIOUS
  <2> DEFINE fs == ReadableFiles
  <2>1. DOMAIN fs = DOMAIN segs /\ \A s \in DOMAIN segs : fs[s] = Readable(segs[s])
    BY DEF ReadableFiles
  <2> HIDE DEF fs
  <2>2. \A s \in DOMAIN segs : /\ s \in DOMAIN Files /\ Files[s] = segs[s] /\ segs[s] \in Seq(Frames)
    BY FilesTyped
  <2>3. \A s \in DOMAIN segs : \A k \in 1 .. Len(segs[s]) : IsTorn(segs[s][k]) => k = Len(segs[s])
    BY <2>2 DEF IInv, DiskOK, TornAtEnd
  <2>4. \A s \in DOMAIN fs :
          /\ fs[s] \in Seq(Frames)
          /\ \A k \in 1 .. Len(fs[s]) :
               k \in 1 .. Len(Files[s]) /\ fs[s][k] = Files[s][k] /\ ~IsTorn(Files[s][k])
    <3> SUFFICES ASSUME NEW s \in DOMAIN segs
                 PROVE  /\ fs[s] \in Seq(Frames)
                        /\ \A k \in 1 .. Len(fs[s]) :
                             k \in 1 .. Len(Files[s]) /\ fs[s][k] = Files[s][k] /\ ~IsTorn(Files[s][k])
      BY <2>1
    <3>1. /\ segs[s] \in Seq(Frames) /\ Files[s] = segs[s] /\ fs[s] = Readable(segs[s])
          /\ \A k \in 1 .. Len(segs[s]) : IsTorn(segs[s][k]) => k = Len(segs[s])
      BY <2>1, <2>2, <2>3
    <3>2. /\ Readable(segs[s]) \in Seq(Frames)
          /\ \A k \in 1 .. Len(Readable(segs[s])) :
               k \in 1 .. Len(segs[s]) /\ Readable(segs[s])[k] = segs[s][k] /\ ~IsTorn(segs[s][k])
      BY <3>1, ReadableFile
    <3>3. QED
      BY <3>1, <3>2
  <2> DEFINE lens == [s \in DOMAIN fs |-> Len(fs[s])]
  <2>5. DOMAIN lens = DOMAIN fs /\ \A s \in DOMAIN fs : lens[s] = Len(fs[s])
    OBVIOUS
  <2> HIDE DEF lens
  <2>6. DiskOK(fs, lens)
    <3>1. DOMAIN fs \subseteq DOMAIN Files
      BY <2>1, <2>2
    <3>2. QED
      BY <2>4, <2>5, <3>1, DiskCut DEF IInv
  <2>7. \A p \in Places(fs) : p[1] \in DOMAIN fs /\ p[2] \in 1 .. Len(fs[p[1]])
    BY <2>4 DEF Places
  <2>8. \A p \in Places(fs) : ~IsTorn(FrameAt(fs, p))
    BY <2>4, <2>7 DEF FrameAt
  <2>9. \A p \in Places(fs) : ~IsStaleAt(fs, p)
    BY <2>6, <2>8, NothingStale
  <2>10. ASSUME NEW p \in Places(fs), pc # "down" PROVE FrameAt(segs, p).view <= wal.view
    <3>1. /\ p[1] \in DOMAIN Files /\ p[2] \in 1 .. Len(Files[p[1]]) /\ FrameAt(segs, p) = Files[p[1]][p[2]]
      BY <2>1, <2>2, <2>4, <2>7 DEF FrameAt
    <3>2. QED
      BY <2>10, <3>1 DEF IInv, HandleOK, AheadOfFiles
  <2>11. QED
    BY <2>9, <2>10 DEF ViewsNeverRegress, fs
<1>2. QED
  BY <1>1, Invariance, PTL

-----------------------------------------------------------------------------
(* The published prefix.  A failed write of a checkpoint frame that leaves *)
(* the whole frame makes the file longer than the handle knows, so this    *)
(* part is for failed writes that leave nothing.                           *)

(* The ends published for a segment are those of its durable records that  *)
(* are below durable_next_seq.                                             *)
EndsOK ==
  \A s \in DOMAIN wal.durable_ends :
    /\ s \in named /\ wal.durable_ends[s] \in 0 .. synced[s]
    /\ \A k \in 1 .. Len(segs[s]) : IsMutations(segs[s][k]) =>
         (k <= wal.durable_ends[s] <=> segs[s][k].seq < wal.durable_seq)

PublishedOK ==
  pc # "down" =>
    /\ wal.active_bytes = Len(segs[wal.active])
    /\ wal.durable_seq = IF pc = "written" THEN wal.next_seq - 1 ELSE wal.next_seq
    /\ EndsOK

(* The files a reader may be handed keep their content.                    *)
LEMMA EndsKept ==
  ASSUME EndsOK, wal'.durable_seq = wal.durable_seq, wal'.durable_ends = wal.durable_ends,
         \A s \in named : s \in named' /\ segs'[s] = segs[s] /\ synced'[s] = synced[s]
  PROVE  EndsOK'
  BY DEF EndsOK

(* The active segment is published as it is.                               *)
LEMMA EndsMove ==
  ASSUME IInv, EndsOK, IsHandle(wal), wal' = Published(wal), UNCHANGED <<segs, named>>, pc # "down",
         synced' = [synced EXCEPT ![wal.active] = Len(segs[wal.active])],
         wal.active_bytes = Len(segs[wal.active]),
         wal.durable_seq \in Nat, wal.active <= wal.durable_seq, wal.durable_seq <= wal.next_seq
  PROVE  EndsOK'
<1> DEFINE a == wal.active
<1>1. /\ wal'.durable_seq = wal.next_seq /\ wal'.durable_ends = With(wal.durable_ends, a, Len(segs[a]))
  BY DEF IsHandle, Published
<1>2. /\ DOMAIN wal'.durable_ends = DOMAIN wal.durable_ends \cup {a} /\ wal'.durable_ends[a] = Len(segs[a])
      /\ \A s \in DOMAIN wal.durable_ends : s # a => wal'.durable_ends[s] = wal.durable_ends[s]
  BY <1>1 DEF With
<1>3. a \in named /\ a \in DOMAIN segs /\ named \subseteq DOMAIN segs /\ DOMAIN synced = DOMAIN segs
  BY DEF IInv, HandleOK, HandleTyped, FilesOK
<1> HIDE DEF a
<1>4. \A s \in DOMAIN segs :
        /\ s \in DOMAIN Files /\ Files[s] = segs[s] /\ Len(segs[s]) \in Nat /\ s \in Nat
        /\ \A k \in 1 .. Len(segs[s]) : segs[s][k].seq \in Nat
  BY FilesTyped
<1>5. synced'[a] = Len(segs[a]) /\ \A s \in named : s # a => synced'[s] = synced[s]
  BY <1>3 DEF a
<1>6. \A s \in DOMAIN segs : \A k \in 1 .. Len(segs[s]) : IsMutations(segs[s][k]) =>
        segs[s][k].seq < wal.next_seq
  BY <1>4 DEF IInv, HandleOK, AheadOfFiles
<1>7. ASSUME NEW s \in named, s # a
      PROVE  \A k \in 1 .. Len(segs[s]) : IsMutations(segs[s][k]) => segs[s][k].seq < wal.durable_seq
  <2>1. s < a
    <3>1. s \in DOMAIN Files /\ s # wal.pending /\ s \in Nat /\ a \in Nat
      <4>1. s \in DOMAIN segs /\ None \notin Nat
        BY <1>3, WalAssumption DEF WalAssumption
      <4>2. QED
        BY <1>3, <1>4, <4>1 DEF IInv, HandleOK, PendingOK
    <3>2. s <= a
      BY <3>1 DEF IInv, HandleOK, AheadOfFiles, a
    <3>3. QED
      BY <1>7, <3>1, <3>2
  <2>2. \A k \in 1 .. Len(segs[s]) : IsMutations(segs[s][k]) => segs[s][k].seq < a
    BY <1>3, <1>4, <2>1 DEF IInv, DiskOK, Partitioned
  <2>3. a \in Nat /\ a <= wal.durable_seq /\ s \in DOMAIN segs
    BY <1>3, <1>4 DEF a
  <2>4. QED
    BY <1>4, <2>2, <2>3
<1>8. SUFFICES ASSUME NEW s \in DOMAIN wal'.durable_ends
               PROVE  /\ s \in named /\ wal'.durable_ends[s] \in 0 .. synced'[s]
                      /\ \A k \in 1 .. Len(segs[s]) : IsMutations(segs[s][k]) =>
                           (k <= wal'.durable_ends[s] <=> segs[s][k].seq < wal.next_seq)
  BY <1>1 DEF EndsOK
<1>9. CASE s = a
  BY <1>2, <1>3, <1>4, <1>5, <1>6, <1>9
<1>10. CASE s # a
  <2>1. s \in DOMAIN wal.durable_ends /\ s \in named
    BY <1>2, <1>10 DEF EndsOK
  <2>2. QED
    BY <1>2, <1>3, <1>5, <1>6, <1>7, <1>10, <2>1 DEF EndsOK
<1>11. QED
  BY <1>9, <1>10

(* A step that leaves the handle and the files a reader has alone.         *)
LEMMA PublishedStays ==
  ASSUME IInv, PublishedOK, pc \notin {"down", "written"}, pc' # "written",
         wal'.active = wal.active, wal'.active_bytes = wal.active_bytes,
         wal'.next_seq = wal.next_seq, wal'.durable_seq = wal.durable_seq,
         wal'.durable_ends = wal.durable_ends,
         \A s \in named : s \in named' /\ segs'[s] = segs[s] /\ synced'[s] = synced[s]
  PROVE  PublishedOK'
<1>1. wal.active \in named
  BY DEF IInv, HandleOK, HandleTyped
<1>2. EndsOK'
  BY EndsKept DEF PublishedOK
<1>3. wal'.active_bytes = Len(segs'[wal'.active])
  BY <1>1 DEF PublishedOK
<1>4. wal'.durable_seq = wal'.next_seq
  BY DEF PublishedOK
<1>5. QED
  BY <1>2, <1>3, <1>4 DEF PublishedOK

LEMMA QuietPublished ==
  ASSUME IInv, PublishedOK, UNCHANGED diskVars,
         Bump \/ (UNCHANGED wal /\ pc' # "written" /\ pc \notin {"down", "written"})
  PROVE  PublishedOK'
<1>1. /\ wal'.active = wal.active /\ wal'.active_bytes = wal.active_bytes
      /\ wal'.next_seq = wal.next_seq /\ wal'.durable_seq = wal.durable_seq
      /\ wal'.durable_ends = wal.durable_ends
      /\ pc' # "written" /\ pc \notin {"down", "written"}
  BY DEF Bump, IInv, CountsOK, IsHandle
<1>2. QED
  BY <1>1, PublishedStays DEF diskVars

(* The active segment gets a frame that no reader is told of yet.          *)
LEMMA PublishedGrows ==
  ASSUME IInv, PublishedOK, pc \in {"idle", "flushed"}, NEW f \in Frames, CleanUp(WithFrame(f)),
         ~IsTorn(f), f.view = wal.view, IsMutations(f) => f.seq = wal.next_seq,
         wal'.active = wal.active, wal'.active_bytes = wal.active_bytes + 1,
         wal'.durable_seq = wal.durable_seq, wal'.durable_ends = wal.durable_ends,
         wal'.durable_seq = IF pc' = "written" THEN wal'.next_seq - 1 ELSE wal'.next_seq
  PROVE  PublishedOK'
<1> DEFINE a == wal.active
           frames == WithFrame(f)
<1>1. /\ a \in named /\ a \in DOMAIN segs /\ named \subseteq DOMAIN segs
  BY DEF IInv, HandleOK, HandleTyped, FilesOK
<1>2. /\ DOMAIN frames = DOMAIN segs /\ frames[a] = Append(segs[a], f)
      /\ \A s \in DOMAIN segs : s # a => frames[s] = segs[s]
  BY <1>1 DEF WithFrame
<1>3. /\ named' = named /\ named \subseteq DOMAIN segs'
      /\ \A s \in DOMAIN segs' : segs'[s] = frames[s] /\ synced'[s] = synced[s]
  <2> HIDE DEF frames
  <2>1. CleanUp(frames)
    BY DEF frames
  <2>2. QED
    BY <1>2, <2>1, Tidied
<1> HIDE DEF a, frames
<1>4. /\ segs[a] \in Seq(Frames) /\ Len(segs[a]) \in Nat /\ synced[a] \in 0 .. Len(segs[a])
      /\ \A k \in 1 .. Len(segs[a]) : segs[a][k].seq \in Nat
  BY <1>1, FilesTyped
<1>5. /\ Len(segs'[a]) = Len(segs[a]) + 1 /\ segs'[a][Len(segs[a]) + 1] = f
      /\ \A k \in 1 .. Len(segs[a]) : segs'[a][k] = segs[a][k]
  <2>1. segs'[a] = Append(segs[a], f)
    BY <1>1, <1>2, <1>3
  <2>2. QED
    BY <1>4, <2>1, AppendFrame
<1>6. wal.durable_seq = wal.next_seq /\ wal.next_seq \in Nat /\ EndsOK /\ wal.active_bytes = Len(segs[a])
  BY DEF PublishedOK, IInv, HandleOK, HandleTyped, CountsOK, a
<1>7. EndsOK'
  <2> SUFFICES ASSUME NEW s \in DOMAIN wal.durable_ends
               PROVE  /\ s \in named /\ wal.durable_ends[s] \in 0 .. synced'[s]
                      /\ \A k \in 1 .. Len(segs'[s]) : IsMutations(segs'[s][k]) =>
                           (k <= wal.durable_ends[s] <=> segs'[s][k].seq < wal.durable_seq)
    BY <1>3 DEF EndsOK
  <2>1. s \in named /\ s \in DOMAIN segs' /\ s \in DOMAIN segs /\ synced'[s] = synced[s]
    BY <1>1, <1>3, <1>6 DEF EndsOK
  <2>2. /\ wal.durable_ends[s] \in 0 .. synced[s]
        /\ \A k \in 1 .. Len(segs[s]) : IsMutations(segs[s][k]) =>
             (k <= wal.durable_ends[s] <=> segs[s][k].seq < wal.durable_seq)
    BY <1>6 DEF EndsOK
  <2>3. CASE s # a
    BY <1>2, <1>3, <2>1, <2>2, <2>3
  <2>4. CASE s = a
    <3>1. ASSUME NEW k \in 1 .. Len(segs'[a]), IsMutations(segs'[a][k])
          PROVE  k <= wal.durable_ends[a] <=> segs'[a][k].seq < wal.durable_seq
      <4>1. CASE k \in 1 .. Len(segs[a])
        BY <1>5, <2>2, <2>4, <3>1, <4>1
      <4>2. CASE k = Len(segs[a]) + 1
        <5>1. ~(k <= wal.durable_ends[a])
          BY <1>4, <2>2, <2>4, <4>2
        <5>2. segs'[a][k] = f
          BY <1>5, <4>2
        <5>3. ~(f.seq < wal.durable_seq)
          <6>1. f.seq = wal.next_seq
            BY <3>1, <5>2
          <6>2. \A n \in Nat : ~(n < n)
            OBVIOUS
          <6>3. wal.durable_seq = wal.next_seq /\ ~(wal.next_seq < wal.next_seq)
            BY <1>6, <6>2
          <6>4. QED
            BY <6>1, <6>3
        <5>4. QED
          BY <5>1, <5>2, <5>3
      <4>3. QED
        BY <1>4, <1>5, <4>1, <4>2
    <3>2. QED
      BY <2>1, <2>2, <2>4, <3>1
  <2>5. QED
    BY <2>3, <2>4
<1>8. wal'.active_bytes = Len(segs'[wal'.active])
  BY <1>5, <1>6 DEF a
<1>9. QED
  BY <1>7, <1>8 DEF PublishedOK

(* What is synchronized is published.                                      *)
LEMMA PublishedMoves ==
  ASSUME IInv, IInv', PublishedOK, AppendSync \/ AckSync
  PROVE  PublishedOK'
<1>1. /\ IsHandle(wal) /\ wal' = Published(wal) /\ UNCHANGED <<segs, named>>
      /\ synced' = [synced EXCEPT ![wal.active] = Len(segs[wal.active])]
      /\ pc # "down" /\ pc' # "written"
      /\ pc = "written" \/ pc = "acking"
  BY DEF AppendSync, AckSync, IInv, CountsOK
<1>2. /\ wal.active_bytes = Len(segs[wal.active]) /\ EndsOK
      /\ wal.durable_seq = IF pc = "written" THEN wal.next_seq - 1 ELSE wal.next_seq
  BY <1>1 DEF PublishedOK
<1>3. /\ wal.next_seq \in Nat /\ wal.active \in Nat /\ wal.active <= wal.next_seq
      /\ pc = "written" => wal.active < wal.next_seq
  BY <1>1, FilesTyped DEF IInv, HandleOK, HandleTyped, StepsOK, CountsOK, FilesOK
<1>4. wal.durable_seq \in Nat /\ wal.active <= wal.durable_seq /\ wal.durable_seq <= wal.next_seq
  BY <1>2, <1>3
<1>5. EndsOK'
  BY <1>1, <1>2, <1>4, EndsMove
<1>6. /\ wal'.active = wal.active /\ wal'.active_bytes = wal.active_bytes
      /\ wal'.next_seq = wal.next_seq /\ wal'.durable_seq = wal.next_seq
  BY <1>1 DEF IsHandle, Published
<1>7. QED
  BY <1>1, <1>2, <1>5, <1>6 DEF PublishedOK

(* The new segment is handed out with its header alone.                    *)
LEMMA PublishedRolls ==
  ASSUME IInv, IInv', PublishedOK, RollPublish
  PROVE  PublishedOK'
<1> DEFINE b == wal.pending
<1>1. /\ UNCHANGED segs /\ pc = "rolling" /\ pc' = "logged"
      /\ synced' = [synced EXCEPT ![b] = 1] /\ named' = named \cup {b}
  BY DEF RollPublish
<1>2. /\ wal'.active = b /\ wal'.next_seq = wal.next_seq /\ wal'.active_bytes = 1
      /\ wal'.durable_seq = wal.next_seq /\ wal'.durable_ends = With(wal.durable_ends, b, 1)
  BY DEF RollPublish, IInv, CountsOK, IsHandle, Published
<1>3. /\ b \in DOMAIN segs /\ b \notin named /\ Len(segs[b]) = 1 /\ b = wal.next_seq /\ b \in Nat
      /\ DOMAIN synced = DOMAIN segs
  BY <1>1, FilesTyped DEF IInv, HandleOK, PendingOK, StepsOK, FilesOK
<1>4. \A k \in 1 .. Len(segs[b]) : ~IsMutations(segs[b][k])
  <2>1. b \in DOMAIN Files /\ Files[b] = segs[b] /\ \A k \in 1 .. Len(segs[b]) : segs[b][k].seq \in Nat
    BY <1>3, FilesTyped
  <2>2. \A k \in 1 .. Len(segs[b]) : IsMutations(segs[b][k]) => segs[b][k].seq < wal.next_seq
    BY <1>1, <2>1 DEF IInv, HandleOK, AheadOfFiles
  <2>3. \A k \in 1 .. Len(segs[b]) : IsMutations(segs[b][k]) => b <= segs[b][k].seq
    BY <2>1 DEF IInv, DiskOK, Partitioned
  <2>4. QED
    BY <1>3, <2>1, <2>2, <2>3
<1>5. EndsOK /\ wal.durable_seq = wal.next_seq
  BY <1>1 DEF PublishedOK
<1> HIDE DEF b
<1>6. /\ DOMAIN wal'.durable_ends = DOMAIN wal.durable_ends \cup {b} /\ wal'.durable_ends[b] = 1
      /\ \A s \in DOMAIN wal.durable_ends : s # b => wal'.durable_ends[s] = wal.durable_ends[s]
  BY <1>2 DEF With
<1>7. EndsOK'
  <2> SUFFICES ASSUME NEW s \in DOMAIN wal'.durable_ends
               PROVE  /\ s \in named' /\ wal'.durable_ends[s] \in 0 .. synced'[s]
                      /\ \A k \in 1 .. Len(segs[s]) : IsMutations(segs[s][k]) =>
                           (k <= wal'.durable_ends[s] <=> segs[s][k].seq < wal.durable_seq)
    BY <1>1, <1>2, <1>5 DEF EndsOK
  <2>1. CASE s = b
    <3>1. synced'[b] = 1
      BY <1>1, <1>3
    <3>2. QED
      BY <1>1, <1>4, <1>6, <2>1, <3>1
  <2>2. CASE s # b
    <3>1. /\ s \in named /\ synced'[s] = synced[s] /\ s \in DOMAIN wal.durable_ends
          /\ wal'.durable_ends[s] = wal.durable_ends[s]
      BY <1>1, <1>3, <1>5, <1>6, <2>2 DEF EndsOK
    <3>2. QED
      BY <1>1, <1>5, <3>1 DEF EndsOK
  <2>3. QED
    BY <2>1, <2>2
<1>8. QED
  BY <1>1, <1>2, <1>3, <1>7 DEF PublishedOK

(* Deleted segments are no longer handed out.                              *)
LEMMA PublishedShrinks ==
  ASSUME IInv, IInv', PublishedOK, DeleteSegments
  PROVE  PublishedOK'
<1> DEFINE kept == DOMAIN Without(segs, Pending)
<1>1. PICK seq \in Floors :
        LET gone == {s \in kept : \E t \in kept : s < t /\ t <= seq}
        IN /\ segs' = Without(Without(segs, Pending), gone)
           /\ synced' = Without(synced, gone \cup Pending)
           /\ named' = named \ (gone \cup Pending)
           /\ wal' = [wal EXCEPT !.pending = None, !.durable_ends = Without(@, gone)]
  BY DEF DeleteSegments
<1> DEFINE gone == {s \in kept : \E t \in kept : s < t /\ t <= seq}
<1>2. pc = "idle" /\ pc' = "idle"
  BY DEF DeleteSegments
<1> HIDE DEF gone, kept
<1>3. /\ wal'.active = wal.active /\ wal'.next_seq = wal.next_seq
      /\ wal'.active_bytes = wal.active_bytes /\ wal'.durable_seq = wal.durable_seq
      /\ wal'.durable_ends = Without(wal.durable_ends, gone)
  BY <1>1 DEF IInv, CountsOK, IsHandle, gone
<1>4. /\ DOMAIN wal'.durable_ends = DOMAIN wal.durable_ends \ gone
      /\ \A s \in DOMAIN wal'.durable_ends : wal'.durable_ends[s] = wal.durable_ends[s]
  BY <1>3 DEF Without
<1>5. named \cap Pending = {} /\ named \subseteq DOMAIN segs /\ DOMAIN synced = DOMAIN segs
  BY <1>2 DEF IInv, HandleOK, PendingOK, FilesOK, Pending
<1>6. \A s \in named : s \notin gone => s \in named' /\ segs'[s] = segs[s] /\ synced'[s] = synced[s]
  BY <1>1, <1>5 DEF Without, gone
<1>7. EndsOK /\ wal.durable_seq = wal.next_seq /\ wal.active_bytes = Len(segs[wal.active])
  BY <1>2 DEF PublishedOK
<1>8. EndsOK'
  <2> SUFFICES ASSUME NEW s \in DOMAIN wal'.durable_ends
               PROVE  /\ s \in named' /\ wal'.durable_ends[s] \in 0 .. synced'[s]
                      /\ \A k \in 1 .. Len(segs'[s]) : IsMutations(segs'[s][k]) =>
                           (k <= wal'.durable_ends[s] <=> segs'[s][k].seq < wal.durable_seq)
    BY <1>3 DEF EndsOK
  <2>1. s \in DOMAIN wal.durable_ends /\ s \in named /\ s \notin gone
    BY <1>4, <1>7 DEF EndsOK
  <2>2. QED
    BY <1>4, <1>6, <1>7, <2>1 DEF EndsOK
<1>9. wal.active \in named /\ wal.active \notin gone
  <2>1. wal'.active \in named' /\ wal.active \in named
    BY <1>2 DEF IInv, HandleOK, HandleTyped
  <2>2. QED
    BY <1>1, <1>3, <2>1 DEF gone
<1>10. QED
  BY <1>2, <1>3, <1>6, <1>7, <1>8, <1>9 DEF PublishedOK

(* A log that was opened is durable as it is.                              *)
LEMMA PublishedOpens ==
  ASSUME IInv, IInv', Open
  PROVE  PublishedOK'
<1> DEFINE a == Max(DOMAIN segs)
           sealed == [s \in DOMAIN segs \ {a} |-> Readable(segs[s])]
           kept == Scanned(segs[a], MaxView(sealed))
           view == ResumedView(With(sealed, a, kept))
           body == IF kept = << >> THEN <<Schema(view)>> ELSE kept
           files == With(sealed, a, body)
           next == NextSeq(files, a)
<1>1. /\ pc = "down" /\ pc' = "opened" /\ named' = DOMAIN segs
      /\ segs' = [segs EXCEPT ![a] = body]
      /\ synced' = [s \in DOMAIN segs |-> Len(segs'[s])]
      /\ wal' = [active |-> a, active_bytes |-> Len(body), next_seq |-> next,
                 durable_seq |-> next, durable_ends |-> synced',
                 last_checkpoint |-> LastCheckpoint(files),
                 bytes |-> BytesSinceCheckpoint(files), pending |-> None, view |-> view]
  BY DEF Open
<1> HIDE DEF a, next, view, body, files
<1>2. /\ wal'.active = a /\ wal'.active_bytes = Len(body) /\ wal'.next_seq = next
      /\ wal'.durable_seq = next /\ wal'.durable_ends = synced'
  BY <1>1
<1>3. a \in named'
  BY <1>1, <1>2 DEF IInv, HandleOK, HandleTyped
<1>4. segs'[a] = body /\ DOMAIN segs' = DOMAIN segs
  BY <1>1, <1>3
<1>5. \A s \in DOMAIN segs' :
        /\ s \in DOMAIN Files' /\ Files'[s] = segs'[s]
        /\ Durable'[s] = synced'[s] /\ synced'[s] = Len(segs'[s])
  BY <1>1, <1>4 DEF Files, Durable
<1>6. \A s \in DOMAIN segs' : Len(segs'[s]) \in Nat
  BY <1>5 DEF IInv, DiskOK, Typed
<1>7. \A s \in DOMAIN segs' : \A k \in 1 .. Len(segs'[s]) : IsMutations(segs'[s][k]) =>
        segs'[s][k].seq < wal'.next_seq
  BY <1>1, <1>5 DEF IInv, HandleOK, AheadOfFiles
<1>8. EndsOK'
  BY <1>1, <1>2, <1>4, <1>5, <1>6, <1>7 DEF EndsOK
<1>9. QED
  BY <1>1, <1>2, <1>4, <1>8 DEF PublishedOK

LEMMA InitPublished == Init => PublishedOK
<1> SUFFICES ASSUME Init PROVE PublishedOK
  OBVIOUS
<1>1. /\ DOMAIN segs = {0} /\ segs[0] = <<Schema(0)>> /\ synced[0] = 1 /\ named = {0}
      /\ wal.active = 0 /\ wal.active_bytes = 1 /\ wal.next_seq = 0 /\ wal.durable_seq = 0
      /\ DOMAIN wal.durable_ends = {0} /\ wal.durable_ends[0] = 1 /\ pc = "idle"
  BY DEF Init
<1>2. Len(segs[0]) = 1 /\ \A k \in 1 .. Len(segs[0]) : ~IsMutations(segs[0][k])
  <2>1. ~IsMutations(Schema(0))
    BY DEF IsMutations, Schema
  <2> HIDE DEF Schema
  <2>2. QED
    BY <1>1, <2>1
<1>3. EndsOK
  BY <1>1, <1>2 DEF EndsOK
<1>4. QED
  BY <1>1, <1>2, <1>3 DEF PublishedOK

LEMMA PublishedStep ==
  ASSUME FailedWrites \subseteq {"nothing"}, IInv, IInv', PublishedOK, [Next]_vars
  PROVE  PublishedOK'
<1> USE DEF IInv, CountsOK, IsHandle
<1>1. CASE UNCHANGED vars
  BY <1>1 DEF vars, diskVars, PublishedOK, EndsOK
<1>2. CASE \/ Bump \/ RollCreateFails \/ Apply \/ Flush \/ CheckpointFails \/ AckSyncFails \/ Recover
  BY <1>2, QuietPublished
     DEF Bump, RollCreateFails, Apply, Flush, CheckpointFails, AckSyncFails, Recover
<1>3. CASE AppendSync \/ AckSync
  BY <1>3, PublishedMoves
<1>4. CASE RollPublish
  BY <1>4, PublishedRolls
<1>5. CASE DeleteSegments
  BY <1>5, PublishedShrinks
<1>6. CASE ProcessCrash \/ PowerLoss
  BY <1>6 DEF ProcessCrash, PowerLoss, Crash, PublishedOK
<1>7. CASE Open
  BY <1>7, PublishedOpens
<1>8. CASE AppendWrite
  <2> DEFINE f == Mutations(wal.next_seq, commits + 1, world.tick, wal.view)
  <2>1. CleanUp(WithFrame(f)) /\ pc = "idle" /\ pc' = "written"
    BY <1>8 DEF AppendWrite
  <2>2. f \in Frames /\ ~IsTorn(f) /\ f.view = wal.view /\ f.seq = wal.next_seq
    BY <2>1 DEF HandleOK, HandleTyped, Frames, Mutations, IsTorn
  <2>3. /\ wal'.active = wal.active /\ wal'.active_bytes = wal.active_bytes + 1
        /\ wal'.durable_seq = wal.durable_seq /\ wal'.durable_ends = wal.durable_ends
        /\ wal'.next_seq = wal.next_seq + 1
    BY <1>8 DEF AppendWrite, Written
  <2>4. wal'.durable_seq = wal'.next_seq - 1
    BY <2>1, <2>3 DEF PublishedOK, HandleOK, HandleTyped
  <2> HIDE DEF f
  <2>5. QED
    BY <2>1, <2>2, <2>3, <2>4, PublishedGrows
<1>9. CASE AckWrite
  <2> DEFINE f == Flushed(wal.next_seq, wal.view)
  <2>1. CleanUp(WithFrame(f)) /\ pc = "flushed" /\ pc' = "acking"
    BY <1>9 DEF AckWrite
  <2>2. f \in Frames /\ ~IsTorn(f) /\ f.view = wal.view /\ ~IsMutations(f)
    BY <2>1 DEF HandleOK, HandleTyped, Frames, Flushed, IsTorn, IsMutations
  <2>3. /\ wal'.active = wal.active /\ wal'.active_bytes = wal.active_bytes + 1
        /\ wal'.durable_seq = wal.durable_seq /\ wal'.durable_ends = wal.durable_ends
        /\ wal'.next_seq = wal.next_seq
    BY <1>9 DEF AckWrite
  <2>4. wal'.durable_seq = wal'.next_seq
    BY <2>1, <2>3 DEF PublishedOK
  <2> HIDE DEF f
  <2>5. QED
    BY <2>1, <2>2, <2>3, <2>4, PublishedGrows
<1>10. CASE RollCreate
  <2>1. /\ segs' = With(segs, wal.next_seq, <<Schema(wal.view)>>)
        /\ synced' = With(synced, wal.next_seq, 0) /\ wal.next_seq \notin DOMAIN segs
        /\ named' = named /\ pc = "synced" /\ pc' = "rolling"
    BY <1>10 DEF RollCreate
  <2>2. \A s \in named : segs'[s] = segs[s] /\ synced'[s] = synced[s]
    BY <2>1 DEF FilesOK, With
  <2>3. /\ wal'.active = wal.active /\ wal'.active_bytes = wal.active_bytes
        /\ wal'.next_seq = wal.next_seq /\ wal'.durable_seq = wal.durable_seq
        /\ wal'.durable_ends = wal.durable_ends
    BY <1>10 DEF RollCreate
  <2>4. QED
    BY <2>1, <2>2, <2>3, PublishedStays
<1>11. ASSUME pc \notin {"down", "written"}, pc' # "written",
              CleanUp(segs) /\ wal' = [wal EXCEPT !.pending = None]
       PROVE  PublishedOK'
  <2>1. /\ wal'.active = wal.active /\ wal'.active_bytes = wal.active_bytes
        /\ wal'.next_seq = wal.next_seq /\ wal'.durable_seq = wal.durable_seq
        /\ wal'.durable_ends = wal.durable_ends
    BY <1>11
  <2>2. /\ named' = named /\ named \subseteq DOMAIN segs'
        /\ \A s \in DOMAIN segs' : segs'[s] = segs[s] /\ synced'[s] = synced[s]
    BY <1>11, Tidied
  <2>3. QED
    BY <1>11, <2>1, <2>2, PublishedStays
<1>12. ASSUME pc \notin {"down", "written"}, pc' # "written", CleanUpFails, UNCHANGED wal
       PROVE  PublishedOK'
  <2>1. named \cap Pending = {} /\ named \subseteq DOMAIN segs /\ DOMAIN synced = DOMAIN segs
    BY <1>12 DEF HandleOK, PendingOK, FilesOK, Pending
  <2>2. \A s \in named : s \in named' /\ segs'[s] = segs[s] /\ synced'[s] = synced[s]
    BY <1>12, <2>1 DEF CleanUpFails, diskVars, Without
  <2>3. QED
    BY <1>12, <2>2, PublishedStays
<1>13. CASE RollAbandon
  BY <1>11, <1>12, <1>13 DEF RollAbandon
<1>14. CASE CleanUpAgainFails
  BY <1>12, <1>14 DEF CleanUpAgainFails
<1>15. CASE AckWriteFails
  <2>1. pc = "flushed" /\ pc' = "idle" /\ wal' = [wal EXCEPT !.pending = None]
    BY <1>15 DEF AckWriteFails
  <2>2. PICK left \in FailedWrites :
          CleanUp(CASE left = "nothing" -> segs
                    [] left = "part" -> WithFrame(Torn)
                    [] left = "all" -> WithFrame(Flushed(wal.next_seq, wal.view)))
    BY <1>15 DEF AckWriteFails
  <2>3. CleanUp(segs)
    <3>1. left = "nothing"
      OBVIOUS
    <3>2. QED
      BY <2>2, <3>1
  <2>4. QED
    BY <1>11, <2>1, <2>3
<1>16. QED
  BY <1>1, <1>2, <1>3, <1>4, <1>5, <1>6, <1>7, <1>8, <1>9, <1>10, <1>13, <1>14, <1>15 DEF Next

(* publish_active_prefix: a reader is only ever handed what fsync covers,  *)
(* and with it exactly the records below durable_next_seq.                 *)
THEOREM PublishedIsDurable ==
  ASSUME FailedWrites \subseteq {"nothing"} PROVE Spec => []PublishedPrefixIsDurable
<1>1. "part" \notin FailedWrites
  OBVIOUS
<1>2. IInv /\ PublishedOK => PublishedPrefixIsDurable
  <2> SUFFICES ASSUME IInv, PublishedOK, pc \notin {"down", "failed"} PROVE PublishedPrefixIsDurable
    BY DEF PublishedPrefixIsDurable
  <2>1. EndsOK /\ named \subseteq DOMAIN segs
    BY DEF PublishedOK, IInv, FilesOK
  <2>2. \A s \in DOMAIN segs : DOMAIN segs[s] = 1 .. Len(segs[s])
    BY FilesTyped
  <2>3. \A s \in DOMAIN segs : synced[s] \in Nat
    BY FilesTyped
  <2>4. QED
    BY <2>1, <2>2, <2>3 DEF EndsOK, PublishedPrefixIsDurable
<1>3. Init => IInv /\ PublishedOK
  BY InitOK, InitPublished
<1>4. IInv /\ PublishedOK /\ [Next]_vars => (IInv /\ PublishedOK)'
  BY <1>1, StepOK, PublishedStep
<1>5. QED
  BY <1>2, <1>3, <1>4, PTL DEF Spec

-----------------------------------------------------------------------------
(* What the next checkpoint has to cover.  The counters of the handle are  *)
(* compared with the checkpoint frames of the files, whose place among the *)
(* records is therefore part of the invariant.                             *)

(* The number in a checkpoint frame is that of the next record: records    *)
(* before it are older, those behind it are not, and it is one past the    *)
(* record before it or, in a segment without one, the segment's name.      *)
Marked(s, fr) ==
  \A j \in 1 .. Len(fr) : IsFlushed(fr[j]) =>
    /\ \/ fr[j].seq = s
       \/ \E k \in 1 .. j - 1 : IsMutations(fr[k]) /\ fr[j].seq = fr[k].seq + 1
    /\ \A k \in 1 .. Len(fr) : IsMutations(fr[k]) => (k < j <=> fr[k].seq < fr[j].seq)

MarksOK == \A s \in DOMAIN Files : Marked(s, Files[s])

Behind(fs, seq) == {p \in MutationsIn(fs) : FrameAt(fs, p).seq >= seq}
LastMark == IF wal.last_checkpoint = None THEN 0 ELSE wal.last_checkpoint

CountOK ==
  pc # "down" => /\ wal.bytes \in Nat /\ wal.last_checkpoint \in Nat \cup {None}
                 /\ LastMark <= wal.next_seq
                 /\ Cardinality(Behind(segs, LastMark)) <= wal.bytes

(* A file is cut, or what is added to it is neither record nor checkpoint. *)
LEMMA MarkedCut ==
  ASSUME NEW s, NEW fr, NEW g, Len(g) \in Nat, NEW n \in Nat, Marked(s, fr),
         \A k \in 1 .. Len(g) : k <= n => k \in 1 .. Len(fr) /\ g[k] = fr[k],
         \A k \in 1 .. Len(g) : n < k => ~IsFlushed(g[k]) /\ ~IsMutations(g[k])
  PROVE  Marked(s, g)
<1> SUFFICES ASSUME NEW j \in 1 .. Len(g), IsFlushed(g[j])
             PROVE  /\ \/ g[j].seq = s
                       \/ \E k \in 1 .. j - 1 : IsMutations(g[k]) /\ g[j].seq = g[k].seq + 1
                    /\ \A k \in 1 .. Len(g) : IsMutations(g[k]) => (k < j <=> g[k].seq < g[j].seq)
  BY DEF Marked
<1>1. j <= n /\ j \in 1 .. Len(fr) /\ g[j] = fr[j]
  OBVIOUS
<1>2. \A k \in 1 .. j - 1 : k \in 1 .. Len(g) /\ g[k] = fr[k]
  BY <1>1
<1>3. \A k \in 1 .. Len(g) : IsMutations(g[k]) => k \in 1 .. Len(fr) /\ g[k] = fr[k]
  OBVIOUS
<1>4. QED
  BY <1>1, <1>2, <1>3 DEF Marked

(* A record is appended.                                                   *)
LEMMA MarkedRecord ==
  ASSUME NEW s, NEW fr \in Seq(Frames), NEW f \in Frames, Marked(s, fr), IsMutations(f),
         \A j \in 1 .. Len(fr) : IsFlushed(fr[j]) => fr[j].seq <= f.seq
  PROVE  Marked(s, Append(fr, f))
<1> DEFINE g == Append(fr, f)
<1>1. /\ Len(fr) \in Nat /\ Len(g) = Len(fr) + 1 /\ g[Len(fr) + 1] = f
      /\ \A k \in 1 .. Len(fr) : g[k] = fr[k] /\ fr[k].seq \in Nat
  <2>1. \A x \in Frames : x.seq \in Nat
    BY DEF Frames
  <2>2. \A k \in 1 .. Len(fr) : fr[k] \in Frames
    OBVIOUS
  <2>3. QED
    BY <2>1, <2>2, AppendFrame
<1>2. f.seq \in Nat /\ ~IsFlushed(f)
  BY DEF Frames, IsMutations, IsFlushed
<1> HIDE DEF g
<1>3. \A k \in 1 .. Len(g) : k \in 1 .. Len(fr) \/ (k = Len(fr) + 1 /\ g[k] = f)
  BY <1>1
<1> SUFFICES ASSUME NEW j \in 1 .. Len(g), IsFlushed(g[j])
             PROVE  /\ \/ g[j].seq = s
                       \/ \E k \in 1 .. j - 1 : IsMutations(g[k]) /\ g[j].seq = g[k].seq + 1
                    /\ \A k \in 1 .. Len(g) : IsMutations(g[k]) => (k < j <=> g[k].seq < g[j].seq)
  BY DEF Marked, g
<1>4. j \in 1 .. Len(fr) /\ g[j] = fr[j]
  BY <1>1, <1>2, <1>3
<1>5. \/ fr[j].seq = s
      \/ \E k \in 1 .. j - 1 : IsMutations(fr[k]) /\ fr[j].seq = fr[k].seq + 1
  BY <1>4 DEF Marked
<1>6. \A k \in 1 .. j - 1 : g[k] = fr[k]
  BY <1>1, <1>4
<1>7. ASSUME NEW k \in 1 .. Len(g), IsMutations(g[k]) PROVE k < j <=> g[k].seq < g[j].seq
  <2>1. CASE k \in 1 .. Len(fr)
    BY <1>1, <1>4, <1>7, <2>1 DEF Marked
  <2>2. CASE k = Len(fr) + 1 /\ g[k] = f
    BY <1>1, <1>2, <1>4, <2>2
  <2>3. QED
    BY <1>3, <2>1, <2>2
<1>8. QED
  BY <1>4, <1>5, <1>6, <1>7

(* A checkpoint frame is appended.                                         *)
LEMMA MarkedCheckpoint ==
  ASSUME NEW s, NEW fr \in Seq(Frames), NEW f \in Frames, Marked(s, fr), IsFlushed(f),
         \A k \in 1 .. Len(fr) : IsMutations(fr[k]) => fr[k].seq < f.seq,
         \/ f.seq = s
         \/ \E k \in 1 .. Len(fr) : IsMutations(fr[k]) /\ f.seq = fr[k].seq + 1
  PROVE  Marked(s, Append(fr, f))
<1> DEFINE g == Append(fr, f)
<1>1. /\ Len(fr) \in Nat /\ Len(g) = Len(fr) + 1 /\ g[Len(fr) + 1] = f
      /\ \A k \in 1 .. Len(fr) : g[k] = fr[k]
  BY AppendFrame
<1>2. ~IsMutations(f)
  BY DEF IsMutations, IsFlushed
<1> HIDE DEF g
<1>3. \A k \in 1 .. Len(g) : k \in 1 .. Len(fr) \/ (k = Len(fr) + 1 /\ g[k] = f)
  BY <1>1
<1> SUFFICES ASSUME NEW j \in 1 .. Len(g), IsFlushed(g[j])
             PROVE  /\ \/ g[j].seq = s
                       \/ \E k \in 1 .. j - 1 : IsMutations(g[k]) /\ g[j].seq = g[k].seq + 1
                    /\ \A k \in 1 .. Len(g) : IsMutations(g[k]) => (k < j <=> g[k].seq < g[j].seq)
  BY DEF Marked, g
<1>4. \A k \in 1 .. Len(g) : IsMutations(g[k]) => k \in 1 .. Len(fr) /\ g[k] = fr[k]
  BY <1>1, <1>2, <1>3
<1>5. CASE j \in 1 .. Len(fr)
  <2>1. /\ g[j] = fr[j] /\ \A k \in 1 .. j - 1 : g[k] = fr[k]
    BY <1>1, <1>5
  <2>2. QED
    BY <1>4, <1>5, <2>1 DEF Marked
<1>6. CASE j = Len(fr) + 1
  <2>1. g[j] = f /\ j - 1 = Len(fr)
    BY <1>1, <1>6
  <2>2. \A k \in 1 .. Len(fr) : k < j
    BY <1>1, <1>6
  <2>3. QED
    BY <1>1, <1>4, <2>1, <2>2
<1>7. QED
  BY <1>3, <1>5, <1>6

(* No checkpoint frame is ahead of the records.                            *)
LEMMA MarkBound ==
  ASSUME NEW s \in Nat, NEW fr, NEW n \in Nat, Marked(s, fr), s <= n,
         \A k \in 1 .. Len(fr) : fr[k].seq \in Nat /\ (IsMutations(fr[k]) => fr[k].seq < n),
         Len(fr) \in Nat,
         NEW j \in 1 .. Len(fr), IsFlushed(fr[j])
  PROVE  fr[j].seq <= n
<1>1. CASE fr[j].seq = s
  BY <1>1
<1>2. CASE \E k \in 1 .. j - 1 : IsMutations(fr[k]) /\ fr[j].seq = fr[k].seq + 1
  <2>1. PICK k \in 1 .. j - 1 : IsMutations(fr[k]) /\ fr[j].seq = fr[k].seq + 1
    BY <1>2
  <2>2. k \in 1 .. Len(fr)
    OBVIOUS
  <2>3. fr[k].seq \in Nat /\ fr[k].seq < n
    BY <2>1, <2>2
  <2>4. QED
    BY <2>1, <2>3
<1>3. QED
  BY <1>1, <1>2 DEF Marked

(* The next number is one past a record of the active segment, or that     *)
(* segment's name.                                                         *)
LEMMA NextFollows ==
  ASSUME IInv, pc \notin {"down", "written"}
  PROVE  \/ wal.next_seq = wal.active
         \/ \E k \in 1 .. Len(segs[wal.active]) :
              IsMutations(segs[wal.active][k]) /\ wal.next_seq = segs[wal.active][k].seq + 1
<1>1. PICK s \in named :
        \/ wal.next_seq <= s
        \/ \E k \in 1 .. synced[s] : IsMutations(segs[s][k]) /\ wal.next_seq <= segs[s][k].seq + 1
  BY DEF IInv, RecoverableOK, Reaches
<1>2. /\ s \in DOMAIN segs /\ s \in DOMAIN Files /\ Files[s] = segs[s] /\ s \in Nat
      /\ Len(segs[s]) \in Nat /\ synced[s] \in 0 .. Len(segs[s])
      /\ \A k \in 1 .. Len(segs[s]) : segs[s][k].seq \in Nat
  BY FilesTyped DEF IInv, FilesOK
<1>3. /\ wal.active \in named /\ wal.active \in DOMAIN Files /\ wal.active \in Nat
      /\ wal.next_seq \in Nat /\ wal.active <= wal.next_seq
  BY FilesTyped DEF IInv, HandleOK, HandleTyped, FilesOK, CountsOK
<1>4. s <= wal.active
  <2>1. s # wal.pending
    BY <1>2, WalAssumption DEF IInv, HandleOK, PendingOK, WalAssumption
  <2>2. QED
    BY <1>2, <2>1 DEF IInv, HandleOK, AheadOfFiles
<1>5. CASE wal.next_seq <= s
  BY <1>2, <1>3, <1>4, <1>5
<1>6. CASE \E k \in 1 .. synced[s] : IsMutations(segs[s][k]) /\ wal.next_seq <= segs[s][k].seq + 1
  <2>1. PICK k \in 1 .. synced[s] : IsMutations(segs[s][k]) /\ wal.next_seq <= segs[s][k].seq + 1
    BY <1>6
  <2>2. k \in 1 .. Len(segs[s]) /\ segs[s][k].seq \in Nat
    BY <1>2
  <2>3. segs[s][k].seq < wal.next_seq
    BY <1>2, <2>1, <2>2 DEF IInv, HandleOK, AheadOfFiles
  <2>4. wal.next_seq = segs[s][k].seq + 1
    BY <1>3, <2>1, <2>2, <2>3
  <2>5. CASE s = wal.active
    BY <2>1, <2>2, <2>4, <2>5
  <2>6. CASE s < wal.active
    <3>1. segs[s][k].seq < wal.active
      BY <1>2, <1>3, <2>1, <2>2, <2>6 DEF IInv, DiskOK, Partitioned
    <3>2. QED
      BY <1>3, <2>2, <2>4, <3>1
  <2>7. QED
    BY <1>2, <1>3, <1>4, <2>5, <2>6
<1>7. QED
  BY <1>1, <1>5, <1>6

(* Records are places with a frame of that kind.                           *)
LEMMA RecordPlaces ==
  ASSUME NEW fs, DOMAIN fs \subseteq Nat, \A s \in DOMAIN fs : fs[s] \in Seq(Frames)
  PROVE  /\ \A p \in Places(fs) :
              /\ p = <<p[1], p[2]>> /\ p[1] \in DOMAIN fs /\ p[2] \in 1 .. Len(fs[p[1]])
              /\ p[1] \in Nat /\ p[2] \in Nat /\ Len(fs[p[1]]) \in Nat
              /\ FrameAt(fs, p) = fs[p[1]][p[2]] /\ FrameAt(fs, p).seq \in Nat
         /\ \A s \in DOMAIN fs : \A k \in 1 .. Len(fs[s]) :
              <<s, k>> \in Places(fs) /\ FrameAt(fs, <<s, k>>) = fs[s][k]
<1>1. \A s \in DOMAIN fs : DOMAIN fs[s] = 1 .. Len(fs[s]) /\ Len(fs[s]) \in Nat
  OBVIOUS
<1>2. \A p \in Places(fs) :
        p = <<p[1], p[2]>> /\ p[1] \in DOMAIN fs /\ p[2] \in 1 .. Len(fs[p[1]])
  BY <1>1 DEF Places
<1>3. \A f \in Frames : f.seq \in Nat
  BY DEF Frames
<1>4. \A p \in Places(fs) : fs[p[1]][p[2]] \in Frames
  BY <1>2
<1>5. \A s \in DOMAIN fs : \A k \in 1 .. Len(fs[s]) :
        <<s, k>> \in Places(fs) /\ FrameAt(fs, <<s, k>>) = fs[s][k]
  BY <1>1 DEF Places, FrameAt
<1>6. QED
  BY <1>1, <1>2, <1>3, <1>4, <1>5 DEF FrameAt

(* Finitely many files have finitely many places.                          *)
LEMMA PlacesFinite ==
  ASSUME NEW fs, NEW N \in Nat, DOMAIN fs \subseteq 0 .. N, \A s \in DOMAIN fs : fs[s] \in Seq(Frames)
  PROVE  IsFiniteSet(Places(fs))
<1> DEFINE Up(n) == {p \in Places(fs) : p[1] < n}
           S == {n \in 0 .. N + 1 : IsFiniteSet(Up(n))}
<1>1. \A p \in Places(fs) : p = <<p[1], p[2]>> /\ p[1] \in DOMAIN fs /\ p[2] \in DOMAIN fs[p[1]]
                          /\ p[1] \in 0 .. N
  BY DEF Places
<1>2. 0 \in S
  <2>1. Up(0) = {}
    BY <1>1
  <2> HIDE DEF Up
  <2>2. QED
    BY <2>1, FS_EmptySet
<1>3. ASSUME NEW n \in 1 .. N + 1, n - 1 \in S PROVE n \in S
  <2>1. IsFiniteSet(Up(n - 1)) /\ n - 1 \in 0 .. N
    <3>1. n - 1 \in 0 .. N
      OBVIOUS
    <3> HIDE DEF Up
    <3>2. QED
      BY <1>3, <3>1
  <2>2. CASE n - 1 \in DOMAIN fs
    <3> DEFINE here == {n - 1} \X (1 .. Len(fs[n - 1]))
    <3>1. IsFiniteSet(here)
      <4>1. IsFiniteSet({n - 1})
        BY FS_Singleton
      <4>2. Len(fs[n - 1]) \in Int
        BY <2>2
      <4>3. IsFiniteSet(1 .. Len(fs[n - 1]))
        BY <4>2, FS_Interval
      <4>4. QED
        BY <4>1, <4>3, FS_Product
    <3>2. Up(n) \subseteq Up(n - 1) \cup here
      <4> SUFFICES ASSUME NEW p \in Up(n), p \notin Up(n - 1) PROVE p \in here
        OBVIOUS
      <4>1. p = <<p[1], p[2]>> /\ p[1] \in DOMAIN fs /\ p[2] \in DOMAIN fs[p[1]] /\ p[1] = n - 1
        BY <1>1
      <4>2. DOMAIN fs[n - 1] = 1 .. Len(fs[n - 1])
        BY <2>2
      <4>3. QED
        BY <4>1, <4>2
    <3> HIDE DEF here, Up
    <3>3. IsFiniteSet(Up(n - 1) \cup here)
      BY <2>1, <3>1, FS_Union
    <3>4. IsFiniteSet(Up(n))
      BY <3>2, <3>3, FS_Subset
    <3>5. QED
      BY <3>4
  <2>3. CASE n - 1 \notin DOMAIN fs
    <3>1. Up(n) = Up(n - 1)
      <4>1. \A p \in Places(fs) : p[1] \in 0 .. N /\ p[1] # n - 1
        BY <1>1, <2>3
      <4>2. \A m \in 0 .. N : m # n - 1 => (m < n <=> m < n - 1)
        BY <2>1
      <4>3. QED
        BY <4>1, <4>2
    <3> HIDE DEF Up
    <3>2. QED
      BY <2>1, <3>1
  <2>4. QED
    BY <2>2, <2>3
<1>4. N + 1 \in S
  <2> HIDE DEF S
  <2>1. N + 1 \in Nat /\ N + 1 \in 0 .. N + 1
    OBVIOUS
  <2>2. QED
    BY <1>2, <1>3, <2>1, UpTo
<1>5. Up(N + 1) = Places(fs)
  BY <1>1
<1> HIDE DEF Up
<1>6. QED
  BY <1>4, <1>5

(* What one step leaves of the records behind a number.                    *)
LEMMA BehindFinite ==
  ASSUME IInv, NEW seq
  PROVE  /\ IsFiniteSet(MutationsIn(segs)) /\ IsFiniteSet(Behind(segs, seq))
         /\ Cardinality(Behind(segs, seq)) \in Nat
<1>1. /\ commits \in Nat /\ DOMAIN segs \subseteq 0 .. commits
      /\ \A s \in DOMAIN segs : segs[s] \in Seq(Frames)
  BY FilesTyped DEF IInv, Bounded, CountsOK
<1>2. IsFiniteSet(Places(segs))
  BY <1>1, PlacesFinite
<1>3. MutationsIn(segs) \subseteq Places(segs) /\ Behind(segs, seq) \subseteq Places(segs)
  BY DEF MutationsIn, Behind
<1>4. QED
  BY <1>2, <1>3, FS_Subset, FS_CardinalityType

(* The records that are there after a step were there before it.           *)
NoNewRecords ==
  \A s \in DOMAIN segs' : \A k \in 1 .. Len(segs'[s]) : IsMutations(segs'[s][k]) =>
    s \in DOMAIN segs /\ k \in 1 .. Len(segs[s]) /\ segs'[s][k] = segs[s][k]

LEMMA FewerBehind ==
  ASSUME IInv, NoNewRecords, NEW seq,
         DOMAIN segs' \subseteq Nat, \A s \in DOMAIN segs' : segs'[s] \in Seq(Frames)
  PROVE  /\ Cardinality(Behind(segs', seq)) \in Nat
         /\ Cardinality(Behind(segs', seq)) <= Cardinality(Behind(segs, seq))
<1>1. DOMAIN segs \subseteq Nat /\ \A s \in DOMAIN segs : segs[s] \in Seq(Frames)
  BY FilesTyped
<1>2. \A p \in MutationsIn(segs') : p \in MutationsIn(segs) /\ FrameAt(segs', p) = FrameAt(segs, p)
  <2> SUFFICES ASSUME NEW p \in MutationsIn(segs')
               PROVE  p \in MutationsIn(segs) /\ FrameAt(segs', p) = FrameAt(segs, p)
    OBVIOUS
  <2>1. /\ p = <<p[1], p[2]>> /\ p[1] \in DOMAIN segs' /\ p[2] \in 1 .. Len(segs'[p[1]])
        /\ FrameAt(segs', p) = segs'[p[1]][p[2]] /\ IsMutations(segs'[p[1]][p[2]])
    BY RecordPlaces DEF MutationsIn
  <2>2. /\ p[1] \in DOMAIN segs /\ p[2] \in 1 .. Len(segs[p[1]])
        /\ segs'[p[1]][p[2]] = segs[p[1]][p[2]]
    BY <2>1 DEF NoNewRecords
  <2>3. <<p[1], p[2]>> \in Places(segs) /\ FrameAt(segs, <<p[1], p[2]>>) = segs[p[1]][p[2]]
    BY <1>1, <2>2, RecordPlaces
  <2>4. QED
    BY <2>1, <2>2, <2>3 DEF MutationsIn
<1>3. Behind(segs', seq) \subseteq Behind(segs, seq)
  BY <1>2 DEF Behind
<1>4. QED
  BY <1>3, BehindFinite, FS_Subset, FS_CardinalityType

LEMMA CountStays ==
  ASSUME IInv, IInv', CountOK, NoNewRecords, pc # "down",
         wal'.bytes = wal.bytes, wal'.last_checkpoint = wal.last_checkpoint,
         wal'.next_seq = wal.next_seq
  PROVE  CountOK'
<1>1. /\ wal.bytes \in Nat /\ wal.last_checkpoint \in Nat \cup {None} /\ LastMark <= wal.next_seq
      /\ Cardinality(Behind(segs, LastMark)) <= wal.bytes
  BY DEF CountOK
<1>2. DOMAIN segs' \subseteq Nat /\ \A s \in DOMAIN segs' : segs'[s] \in Seq(Frames)
  <2>1. Typed(Files', Durable')
    BY DEF IInv, DiskOK
  <2>2. \A s \in DOMAIN segs' : s \in DOMAIN Files' /\ Files'[s] = segs'[s]
    BY DEF Files
  <2>3. QED
    BY <2>1, <2>2 DEF Typed
<1>3. /\ Cardinality(Behind(segs', LastMark)) \in Nat
      /\ Cardinality(Behind(segs', LastMark)) <= Cardinality(Behind(segs, LastMark))
  BY <1>2, FewerBehind
<1>4. Cardinality(Behind(segs, LastMark)) \in Nat
  BY BehindFinite
<1>5. Cardinality(Behind(segs', LastMark)) <= wal.bytes
  BY <1>1, <1>3, <1>4
<1>6. LastMark' = LastMark
  BY DEF LastMark
<1>7. QED
  BY <1>1, <1>5, <1>6 DEF CountOK

(* Files are left alone, unlinked, deleted, or created with a header.      *)
LEMMA DiskKept ==
  ASSUME IInv, MarksOK,
         \A s \in DOMAIN segs' :
           \/ s \in DOMAIN segs /\ segs'[s] = segs[s]
           \/ \A k \in 1 .. Len(segs'[s]) : ~IsFlushed(segs'[s][k]) /\ ~IsMutations(segs'[s][k]),
         \A s \in DOMAIN removed' :
           \/ s \in DOMAIN removed /\ removed'[s] = removed[s]
           \/ s \in DOMAIN segs /\ removed'[s].frames = segs[s]
  PROVE  MarksOK' /\ NoNewRecords
<1>1. NoNewRecords
  BY DEF NoNewRecords
<1>2. \A s \in DOMAIN segs : Marked(s, segs[s])
  BY FilesTyped DEF MarksOK
<1>3. \A s \in DOMAIN removed : Marked(s, removed[s].frames)
  BY FilesTyped DEF MarksOK
<1>4. \A s \in DOMAIN segs' : Marked(s, segs'[s])
  <2> SUFFICES ASSUME NEW s \in DOMAIN segs' PROVE Marked(s, segs'[s])
    OBVIOUS
  <2>1. CASE s \in DOMAIN segs /\ segs'[s] = segs[s]
    BY <1>2, <2>1
  <2>2. CASE \A k \in 1 .. Len(segs'[s]) : ~IsFlushed(segs'[s][k]) /\ ~IsMutations(segs'[s][k])
    BY <2>2 DEF Marked
  <2>3. QED
    BY <2>1, <2>2
<1>5. \A s \in DOMAIN removed' : Marked(s, removed'[s].frames)
  BY <1>2, <1>3
<1>6. /\ DOMAIN Files' = DOMAIN segs' \cup DOMAIN removed'
      /\ \A s \in DOMAIN Files' : Files'[s] = IF s \in DOMAIN segs' THEN segs'[s] ELSE removed'[s].frames
  BY DEF Files
<1>7. MarksOK'
  BY <1>4, <1>5, <1>6 DEF MarksOK
<1>8. QED
  BY <1>1, <1>7

(* The active segment gets a frame.                                        *)
LEMMA MarksGrow ==
  ASSUME IInv, MarksOK, pc # "down", NEW f \in Frames, CleanUp(WithFrame(f)),
         Marked(wal.active, Append(segs[wal.active], f))
  PROVE  MarksOK'
<1> DEFINE frames == WithFrame(f)
<1>1. wal.active \in DOMAIN segs
  BY DEF IInv, HandleOK, HandleTyped, FilesOK
<1>2. /\ DOMAIN frames = DOMAIN segs /\ frames[wal.active] = Append(segs[wal.active], f)
      /\ \A s \in DOMAIN segs : s # wal.active => frames[s] = segs[s]
  BY <1>1 DEF WithFrame
<1> HIDE DEF frames
<1>3. /\ DOMAIN Files' \subseteq DOMAIN Files
      /\ \A s \in DOMAIN Files' : Files'[s] = IF s \in DOMAIN segs THEN frames[s] ELSE Files[s]
  BY <1>2, Tidied DEF frames
<1>4. \A s \in DOMAIN segs : Marked(s, frames[s])
  BY <1>2, FilesTyped DEF MarksOK
<1>5. QED
  BY <1>3, <1>4 DEF MarksOK

LEMMA ActiveSegment ==
  ASSUME IInv, MarksOK, pc # "down"
  PROVE  /\ wal.active \in DOMAIN segs /\ segs[wal.active] \in Seq(Frames)
         /\ wal.active \in Nat /\ wal.next_seq \in Nat /\ wal.active <= wal.next_seq
         /\ wal.view \in Nat /\ Marked(wal.active, segs[wal.active])
         /\ \A k \in 1 .. Len(segs[wal.active]) :
              /\ segs[wal.active][k].seq \in Nat
              /\ IsMutations(segs[wal.active][k]) => segs[wal.active][k].seq < wal.next_seq
              /\ IsFlushed(segs[wal.active][k]) => segs[wal.active][k].seq <= wal.next_seq
<1> DEFINE fr == segs[wal.active]
<1>1. wal.active \in DOMAIN segs
  BY DEF IInv, HandleOK, HandleTyped, FilesOK
<1>2. /\ fr \in Seq(Frames) /\ Len(fr) \in Nat /\ wal.active \in Nat
      /\ wal.active \in DOMAIN Files /\ Files[wal.active] = fr
      /\ \A k \in 1 .. Len(fr) : fr[k].seq \in Nat
  BY <1>1, FilesTyped
<1>3. wal.next_seq \in Nat /\ wal.active <= wal.next_seq /\ wal.view \in Nat
  BY DEF IInv, HandleOK, HandleTyped, CountsOK
<1>4. \A k \in 1 .. Len(fr) : IsMutations(fr[k]) => fr[k].seq < wal.next_seq
  BY <1>2 DEF IInv, HandleOK, AheadOfFiles
<1>5. Marked(wal.active, fr)
  BY <1>2 DEF MarksOK
<1> HIDE DEF fr
<1>6. \A k \in 1 .. Len(fr) : IsFlushed(fr[k]) => fr[k].seq <= wal.next_seq
  BY <1>2, <1>3, <1>4, <1>5, MarkBound
<1>7. QED
  BY <1>1, <1>2, <1>3, <1>4, <1>5, <1>6 DEF fr

(* append: one more record, and one more byte.                             *)
LEMMA CountAppend ==
  ASSUME IInv, IInv', MarksOK, CountOK, AppendWrite
  PROVE  MarksOK' /\ CountOK'
<1> DEFINE f == Mutations(wal.next_seq, commits + 1, world.tick, wal.view)
           a == wal.active
<1>1. pc = "idle" /\ pc' = "written" /\ CleanUp(WithFrame(f))
  BY DEF AppendWrite
<1>2. /\ wal'.bytes = wal.bytes + 1 /\ wal'.last_checkpoint = wal.last_checkpoint
      /\ wal'.next_seq = wal.next_seq + 1
  BY DEF AppendWrite, Written, IInv, CountsOK, IsHandle
<1>3. f \in Frames /\ IsMutations(f) /\ ~IsTorn(f) /\ f.view = wal.view /\ f.seq = wal.next_seq
  BY <1>1, ActiveSegment DEF Frames, Mutations, IsMutations, IsTorn, IInv, CountsOK
<1> HIDE DEF f
<1>4. MarksOK'
  <2>1. Marked(a, Append(segs[a], f))
    BY <1>1, <1>3, ActiveSegment, MarkedRecord
  <2>2. QED
    BY <1>1, <1>3, <2>1, MarksGrow
<1>5. /\ DOMAIN segs' \subseteq DOMAIN segs
      /\ \A s \in DOMAIN segs' : s # a => segs'[s] = segs[s]
      /\ a \in DOMAIN segs' /\ segs'[a] = Append(segs[a], f)
  <2> DEFINE frames == WithFrame(f)
  <2>1. a \in DOMAIN segs /\ a \in named
    BY <1>1 DEF IInv, HandleOK, HandleTyped, FilesOK
  <2>2. /\ DOMAIN frames = DOMAIN segs /\ frames[a] = Append(segs[a], f)
        /\ \A s \in DOMAIN segs : s # a => frames[s] = segs[s]
    BY <2>1 DEF WithFrame
  <2> HIDE DEF frames
  <2>3. /\ DOMAIN segs' \subseteq DOMAIN segs /\ named \subseteq DOMAIN segs'
        /\ \A s \in DOMAIN segs' : segs'[s] = frames[s]
    BY <1>1, <2>2, Tidied DEF frames
  <2>4. QED
    BY <2>1, <2>2, <2>3
<1>6. DOMAIN segs \subseteq Nat /\ \A s \in DOMAIN segs : segs[s] \in Seq(Frames)
  BY FilesTyped
<1>7. /\ a \in DOMAIN segs /\ Len(segs[a]) \in Nat /\ Len(segs'[a]) = Len(segs[a]) + 1
      /\ segs'[a][Len(segs[a]) + 1] = f
      /\ \A k \in 1 .. Len(segs[a]) : segs'[a][k] = segs[a][k]
  BY <1>3, <1>5, <1>6, AppendFrame
<1>8. DOMAIN segs' \subseteq Nat /\ \A s \in DOMAIN segs' : segs'[s] \in Seq(Frames)
  <2>1. segs'[a] \in Seq(Frames)
    BY <1>3, <1>5, <1>6, <1>7
  <2>2. QED
    BY <1>5, <1>6, <2>1
<1> DEFINE new == <<a, Len(segs[a]) + 1>>
<1>9. Behind(segs', LastMark) \subseteq Behind(segs, LastMark) \cup {new}
  <2> SUFFICES ASSUME NEW p \in Behind(segs', LastMark), p # new
               PROVE  p \in Behind(segs, LastMark)
    OBVIOUS
  <2>1. /\ p = <<p[1], p[2]>> /\ p[1] \in DOMAIN segs' /\ p[2] \in 1 .. Len(segs'[p[1]])
        /\ FrameAt(segs', p) = segs'[p[1]][p[2]] /\ IsMutations(segs'[p[1]][p[2]])
        /\ segs'[p[1]][p[2]].seq >= LastMark
    BY <1>8, RecordPlaces DEF Behind, MutationsIn
  <2>2. /\ p[1] \in DOMAIN segs /\ p[2] \in 1 .. Len(segs[p[1]])
        /\ segs'[p[1]][p[2]] = segs[p[1]][p[2]]
    <3>1. CASE p[1] # a
      BY <1>5, <2>1, <3>1
    <3>2. CASE p[1] = a
      <4>1. p[2] # Len(segs[a]) + 1
        BY <2>1, <3>2
      <4>2. p[2] \in 1 .. Len(segs[a])
        BY <1>7, <2>1, <3>2, <4>1
      <4>3. QED
        BY <1>7, <3>2, <4>2
    <3>3. QED
      BY <3>1, <3>2
  <2>3. <<p[1], p[2]>> \in Places(segs) /\ FrameAt(segs, <<p[1], p[2]>>) = segs[p[1]][p[2]]
    BY <1>6, <2>2, RecordPlaces
  <2>4. QED
    BY <2>1, <2>2, <2>3 DEF Behind, MutationsIn
<1> HIDE DEF new
<1>10. IsFiniteSet(Behind(segs, LastMark)) /\ Cardinality(Behind(segs, LastMark)) \in Nat
  BY BehindFinite
<1>11. /\ IsFiniteSet(Behind(segs, LastMark) \cup {new})
       /\ Cardinality(Behind(segs, LastMark) \cup {new}) <= Cardinality(Behind(segs, LastMark)) + 1
       /\ Cardinality(Behind(segs, LastMark) \cup {new}) \in Nat
  BY <1>10, FS_AddElement
<1>12. /\ Cardinality(Behind(segs', LastMark)) \in Nat
       /\ Cardinality(Behind(segs', LastMark)) <= Cardinality(Behind(segs, LastMark) \cup {new})
  BY <1>9, <1>11, FS_Subset, FS_CardinalityType
<1>13. /\ wal.bytes \in Nat /\ wal.last_checkpoint \in Nat \cup {None} /\ LastMark <= wal.next_seq
       /\ Cardinality(Behind(segs, LastMark)) <= wal.bytes
  BY <1>1 DEF CountOK
<1>14. LastMark' = LastMark /\ LastMark \in Nat /\ wal.next_seq \in Nat
  BY <1>1, <1>2, <1>13, ActiveSegment DEF LastMark
<1>15. LastMark <= wal.next_seq + 1 /\ Cardinality(Behind(segs', LastMark)) <= wal.bytes + 1
  BY <1>10, <1>11, <1>12, <1>13, <1>14
<1>16. CountOK'
  BY <1>2, <1>13, <1>14, <1>15 DEF CountOK
<1>17. QED
  BY <1>4, <1>16

(* acknowledge_flush: the checkpoint frame.                                *)
LEMMA CheckpointFrame ==
  ASSUME IInv, MarksOK, pc = "flushed", CleanUp(WithFrame(Flushed(wal.next_seq, wal.view)))
  PROVE  MarksOK' /\ NoNewRecords
<1> DEFINE f == Flushed(wal.next_seq, wal.view)
           a == wal.active
           frames == WithFrame(f)
<1>1. f \in Frames /\ IsFlushed(f) /\ ~IsMutations(f) /\ f.seq = wal.next_seq
  BY ActiveSegment DEF Frames, Flushed, IsFlushed, IsMutations
<1>2. CleanUp(frames) /\ a \in DOMAIN segs /\ segs[a] \in Seq(Frames)
  BY ActiveSegment
<1> HIDE DEF f
<1>3. Marked(a, Append(segs[a], f))
  <2>1. \/ f.seq = a
        \/ \E k \in 1 .. Len(segs[a]) : IsMutations(segs[a][k]) /\ f.seq = segs[a][k].seq + 1
    BY <1>1, NextFollows
  <2>2. QED
    BY <1>1, <2>1, ActiveSegment, MarkedCheckpoint
<1>4. MarksOK'
  BY <1>1, <1>2, <1>3, MarksGrow
<1>5. /\ DOMAIN frames = DOMAIN segs /\ frames[a] = Append(segs[a], f)
      /\ \A s \in DOMAIN segs : s # a => frames[s] = segs[s]
  BY <1>2 DEF WithFrame
<1> HIDE DEF frames
<1>6. DOMAIN segs' \subseteq DOMAIN segs /\ \A s \in DOMAIN segs' : segs'[s] = frames[s]
  BY <1>2, <1>5, Tidied
<1>7. /\ Len(segs[a]) \in Nat /\ Len(frames[a]) = Len(segs[a]) + 1 /\ frames[a][Len(segs[a]) + 1] = f
      /\ \A k \in 1 .. Len(segs[a]) : frames[a][k] = segs[a][k]
  BY <1>1, <1>2, <1>5, AppendFrame
<1>8. \A k \in 1 .. Len(frames[a]) : k \in 1 .. Len(segs[a]) \/ frames[a][k] = f
  BY <1>7
<1>9. NoNewRecords
  BY <1>1, <1>5, <1>6, <1>7, <1>8 DEF NoNewRecords
<1>10. QED
  BY <1>4, <1>9

LEMMA CountAck ==
  ASSUME IInv, IInv', MarksOK, AckWrite
  PROVE  MarksOK' /\ CountOK'
<1>1. /\ pc = "flushed" /\ pc' = "acking"
      /\ CleanUp(WithFrame(Flushed(wal.next_seq, wal.view)))
  BY DEF AckWrite
<1>2. wal'.bytes = 0 /\ wal'.last_checkpoint = wal.next_seq /\ wal'.next_seq = wal.next_seq
  BY DEF AckWrite, IInv, CountsOK, IsHandle
<1>3. wal.next_seq \in Nat /\ wal.next_seq # None
  BY <1>1, ActiveSegment, WalAssumption DEF WalAssumption
<1>4. LastMark' = wal.next_seq
  BY <1>2, <1>3 DEF LastMark
<1>5. /\ DOMAIN segs' \subseteq Nat
      /\ \A s \in DOMAIN segs' : /\ segs'[s] \in Seq(Frames) /\ s \in DOMAIN Files'
                                 /\ Files'[s] = segs'[s]
  BY DEF Files, IInv, DiskOK, Typed
<1>6. \A s \in DOMAIN segs' : \A k \in 1 .. Len(segs'[s]) :
        IsMutations(segs'[s][k]) => segs'[s][k].seq < wal.next_seq
  BY <1>1, <1>2, <1>5 DEF IInv, HandleOK, AheadOfFiles
<1>7. Behind(segs', wal.next_seq) = {}
  <2> SUFFICES ASSUME NEW p \in Behind(segs', wal.next_seq) PROVE FALSE
    OBVIOUS
  <2>1. /\ p[1] \in DOMAIN segs' /\ p[2] \in 1 .. Len(segs'[p[1]])
        /\ segs'[p[1]][p[2]].seq \in Nat /\ IsMutations(segs'[p[1]][p[2]])
        /\ segs'[p[1]][p[2]].seq >= wal.next_seq
    BY <1>5, RecordPlaces DEF Behind, MutationsIn
  <2>2. QED
    BY <1>3, <1>6, <2>1
<1>8. Cardinality(Behind(segs', wal.next_seq)) = 0
  BY <1>7, FS_EmptySet
<1>9. MarksOK'
  BY <1>1, CheckpointFrame
<1>10. CountOK'
  BY <1>2, <1>3, <1>4, <1>8 DEF CountOK
<1>11. QED
  BY <1>9, <1>10

(* Cleaning up removes files.                                              *)
LEMMA MarksTidy ==
  ASSUME IInv, MarksOK, CleanUp(segs) \/ CleanUpFails
  PROVE  MarksOK' /\ NoNewRecords
<1>1. CASE CleanUp(segs)
  <2>1. \A s \in DOMAIN segs' : s \in DOMAIN segs /\ segs'[s] = segs[s]
    BY <1>1 DEF CleanUp, Without
  <2>2. \A s \in DOMAIN removed' : s \in DOMAIN removed /\ removed'[s] = removed[s]
    <3>1. CASE Pending = {}
      BY <1>1, <3>1 DEF CleanUp
    <3>2. CASE Pending # {}
      <4>1. DOMAIN removed' = {}
        BY <1>1, <3>2 DEF CleanUp
      <4>2. QED
        BY <4>1
    <3>3. QED
      BY <3>1, <3>2
  <2>3. QED
    BY <2>1, <2>2, DiskKept
<1>2. CASE CleanUpFails
  <2>1. \A s \in DOMAIN segs' : s \in DOMAIN segs /\ segs'[s] = segs[s]
    BY <1>2 DEF CleanUpFails, diskVars, Without
  <2>2. CASE UNCHANGED diskVars
    BY <2>1, <2>2, DiskKept DEF diskVars
  <2>3. CASE Pending \subseteq DOMAIN segs /\ removed' = Unlinked(Pending, removed)
    <3>1. \A s \in DOMAIN removed' :
            \/ s \in DOMAIN removed /\ removed'[s] = removed[s]
            \/ s \in DOMAIN segs /\ removed'[s].frames = segs[s]
      BY <2>3 DEF Unlinked
    <3>2. QED
      BY <2>1, <3>1, DiskKept
  <2>4. QED
    BY <1>2, <2>2, <2>3 DEF CleanUpFails
<1>3. QED
  BY <1>1, <1>2

LEMMA MarksDelete ==
  ASSUME IInv, MarksOK, DeleteSegments
  PROVE  MarksOK' /\ NoNewRecords
<1>1. PICK seq \in Floors :
        LET kept == Without(segs, Pending)
            gone == {s \in DOMAIN kept : \E t \in DOMAIN kept : s < t /\ t <= seq}
        IN /\ segs' = Without(kept, gone)
           /\ removed' = Unlinked(gone, IF Pending = {} THEN removed ELSE << >>)
  BY DEF DeleteSegments
<1> DEFINE kept == Without(segs, Pending)
           gone == {s \in DOMAIN kept : \E t \in DOMAIN kept : s < t /\ t <= seq}
           others == IF Pending = {} THEN removed ELSE << >>
<1>2. DOMAIN kept \subseteq DOMAIN segs /\ \A s \in DOMAIN kept : kept[s] = segs[s]
  BY DEF Without
<1>3. segs' = Without(kept, gone) /\ removed' = Unlinked(gone, others) /\ gone \subseteq DOMAIN kept
  BY <1>1
<1>4. DOMAIN others \subseteq DOMAIN removed /\ \A s \in DOMAIN others : others[s] = removed[s]
  <2>1. CASE Pending = {}
    BY <2>1
  <2>2. CASE Pending # {}
    <3>1. DOMAIN others = {}
      BY <2>2
    <3>2. QED
      BY <3>1
  <2>3. QED
    BY <2>1, <2>2
<1> HIDE DEF kept, gone, others
<1>5. \A s \in DOMAIN segs' : s \in DOMAIN segs /\ segs'[s] = segs[s]
  BY <1>2, <1>3 DEF Without
<1>6. \A s \in DOMAIN removed' :
        \/ s \in DOMAIN removed /\ removed'[s] = removed[s]
        \/ s \in DOMAIN segs /\ removed'[s].frames = segs[s]
  BY <1>2, <1>3, <1>4 DEF Unlinked
<1>7. QED
  BY <1>5, <1>6, DiskKept

LEMMA MarksRoll ==
  ASSUME IInv, MarksOK, RollCreate
  PROVE  MarksOK' /\ NoNewRecords
<1>1. segs' = With(segs, wal.next_seq, <<Schema(wal.view)>>) /\ removed' = removed
  BY DEF RollCreate
<1>2. ~IsFlushed(Schema(wal.view)) /\ ~IsMutations(Schema(wal.view))
  BY DEF Schema, IsFlushed, IsMutations
<1>3. \A s \in DOMAIN segs' : \/ s \in DOMAIN segs /\ segs'[s] = segs[s]
                            \/ segs'[s] = <<Schema(wal.view)>>
  BY <1>1 DEF With
<1>4. \A k \in 1 .. Len(<<Schema(wal.view)>>) : <<Schema(wal.view)>>[k] = Schema(wal.view)
  <2> HIDE DEF Schema
  <2>1. QED
    OBVIOUS
<1>5. \A s \in DOMAIN segs' :
        \/ s \in DOMAIN segs /\ segs'[s] = segs[s]
        \/ \A k \in 1 .. Len(segs'[s]) : ~IsFlushed(segs'[s][k]) /\ ~IsMutations(segs'[s][k])
  BY <1>2, <1>3, <1>4
<1>6. QED
  BY <1>1, <1>5, DiskKept

(* A power loss cuts files and may leave a torn frame at the end.          *)
LEMMA MarksSurvive ==
  ASSUME IInv, MarksOK, PowerLoss
  PROVE  MarksOK'
<1>1. PICK lost \in SUBSET (DOMAIN segs \ named), back \in SUBSET (DOMAIN removed \ DOMAIN segs) :
        LET kept == DOMAIN segs \ lost
            frames(s) == IF s \in kept THEN segs[s] ELSE removed[s].frames
            durable(s) == IF s \in kept THEN synced[s] ELSE removed[s].synced
            files == kept \cup back
        IN /\ segs' \in {f \in [files -> UNION {Survivors(frames(s), durable(s)) : s \in files}] :
                             \A s \in files : f[s] \in Survivors(frames(s), durable(s))}
           /\ removed' = << >>
  BY DEF PowerLoss
<1> DEFINE files == (DOMAIN segs \ lost) \cup back
<1>2. DOMAIN segs' = files /\ DOMAIN removed' = {}
  BY <1>1
<1>3. \A s \in files : s \in DOMAIN Files /\ segs'[s] \in Survivors(Files[s], Durable[s])
  BY <1>1 DEF Files, Durable
<1> HIDE DEF files
<1>4. DOMAIN Files' = files /\ \A s \in files : Files'[s] = segs'[s]
  BY <1>2 DEF Files
<1>5. ASSUME NEW s \in files PROVE Marked(s, segs'[s])
  <2> DEFINE g == segs'[s]
  <2>1. Files[s] \in Seq(Frames) /\ Durable[s] \in 0 .. Len(Files[s]) /\ Marked(s, Files[s])
    BY <1>3, <1>5, FilesTyped DEF MarksOK
  <2>2. g \in Survivors(Files[s], Durable[s])
    BY <1>3, <1>5
  <2> HIDE DEF g
  <2>3. /\ g \in Seq(Frames)
        /\ \A k \in 1 .. Len(g) : \/ k \in 1 .. Len(Files[s]) /\ g[k] = Files[s][k]
                                  \/ g[k] = Torn /\ k = Len(g)
    BY <2>1, <2>2, SurvivorOfFile
  <2>4. ~IsFlushed(Torn) /\ ~IsMutations(Torn)
    BY DEF Torn, IsFlushed, IsMutations
  <2> HIDE DEF Torn
  <2>5. CASE \A k \in 1 .. Len(g) : k \in 1 .. Len(Files[s]) /\ g[k] = Files[s][k]
    <3>1. Len(g) \in Nat /\ \A k \in 1 .. Len(g) : ~(Len(g) < k)
      BY <2>3
    <3>2. Marked(s, g)
      BY <2>1, <2>5, <3>1, MarkedCut
    <3>3. QED
      BY <3>2 DEF g
  <2>6. CASE \E k \in 1 .. Len(g) : g[k] = Torn /\ k = Len(g)
    <3>1. Len(g) \in Nat \ {0} /\ g[Len(g)] = Torn
      BY <2>3, <2>6
    <3>2. PICK n \in Nat : Len(g) = n + 1
      <4>1. \A m \in Nat \ {0} : m - 1 \in Nat /\ m = (m - 1) + 1
        OBVIOUS
      <4>2. QED
        BY <3>1, <4>1
    <3>3. \A k \in 1 .. Len(g) : k <= n => k \in 1 .. Len(Files[s]) /\ g[k] = Files[s][k]
      <4>1. \A k \in 1 .. Len(g) : k <= n => k # Len(g)
        BY <3>2
      <4>2. QED
        BY <2>3, <4>1
    <3>4. \A k \in 1 .. Len(g) : n < k => ~IsFlushed(g[k]) /\ ~IsMutations(g[k])
      <4>1. \A k \in 1 .. Len(g) : n < k => k = Len(g)
        BY <3>2
      <4>2. QED
        BY <2>4, <3>1, <4>1
    <3>5. Marked(s, g)
      BY <2>1, <3>1, <3>3, <3>4, MarkedCut
    <3>6. QED
      BY <3>5 DEF g
  <2>7. QED
    BY <2>3, <2>5, <2>6
<1>6. QED
  BY <1>4, <1>5 DEF MarksOK

(* What a scan keeps of a file is its beginning.                           *)
LEMMA ScannedPrefix ==
  ASSUME NEW fr \in Seq(Frames), \A k \in 1 .. Len(fr) : IsTorn(fr[k]) => k = Len(fr), NEW seed
  PROVE  /\ Scanned(fr, seed) \in Seq(Frames)
         /\ \A k \in 1 .. Len(Scanned(fr, seed)) : k \in 1 .. Len(fr) /\ Scanned(fr, seed)[k] = fr[k]
<1> DEFINE whole == Readable(fr)
           fenced == {k \in DOMAIN whole : IsStale(whole, k, seed)}
<1>1. /\ whole \in Seq(Frames)
      /\ \A k \in 1 .. Len(whole) : k \in 1 .. Len(fr) /\ whole[k] = fr[k]
  BY ReadableFile
<1>2. Scanned(fr, seed) = IF fenced = {} THEN whole ELSE SubSeq(whole, 1, Min(fenced) - 1)
  BY DEF Scanned
<1>3. CASE fenced = {}
  BY <1>1, <1>2, <1>3
<1>4. CASE fenced # {}
  <2>1. fenced \subseteq 1 .. Len(whole) /\ Len(whole) \in Nat
    <3> HIDE DEF whole
    <3>1. QED
      BY <1>1
  <2> HIDE DEF fenced, whole
  <2>2. Min(fenced) \in 1 .. Len(whole)
    <3>1. fenced \subseteq Nat
      BY <2>1
    <3>2. QED
      BY <1>4, <2>1, <3>1, MinIs
  <2>3. PICK n \in 0 .. Len(whole) : n = Min(fenced) - 1
    BY <2>1, <2>2
  <2>4. /\ SubSeq(whole, 1, n) \in Seq(Frames) /\ Len(SubSeq(whole, 1, n)) = n
        /\ \A k \in 1 .. n : SubSeq(whole, 1, n)[k] = whole[k] /\ k \in 1 .. Len(whole)
    BY <1>1
  <2>5. QED
    BY <1>1, <1>2, <1>4, <2>3, <2>4
<1>5. QED
  BY <1>3, <1>4

(* A record not older than a checkpoint lies behind it.                    *)
LEMMA MarkOrder ==
  ASSUME NEW fs, NEW sy, DiskOK(fs, sy), \A s \in DOMAIN fs : Marked(s, fs[s]),
         NEW p \in MutationsIn(fs), NEW q \in FlushedIn(fs),
         FrameAt(fs, p).seq >= FrameAt(fs, q).seq
  PROVE  Before(q, p)
<1>1. DOMAIN fs \subseteq Nat /\ \A s \in DOMAIN fs : fs[s] \in Seq(Frames)
  BY DEF DiskOK, Typed
<1>2. /\ p[1] \in DOMAIN fs /\ p[2] \in 1 .. Len(fs[p[1]]) /\ p[1] \in Nat /\ p[2] \in Nat
      /\ FrameAt(fs, p) = fs[p[1]][p[2]] /\ fs[p[1]][p[2]].seq \in Nat
      /\ IsMutations(fs[p[1]][p[2]])
  BY <1>1, RecordPlaces DEF MutationsIn
<1>3. /\ q[1] \in DOMAIN fs /\ q[2] \in 1 .. Len(fs[q[1]]) /\ q[1] \in Nat /\ q[2] \in Nat
      /\ FrameAt(fs, q) = fs[q[1]][q[2]] /\ fs[q[1]][q[2]].seq \in Nat
      /\ IsFlushed(fs[q[1]][q[2]]) /\ Len(fs[q[1]]) \in Nat
  BY <1>1, RecordPlaces DEF FlushedIn
<1>4. CASE p[1] = q[1]
  <2>1. ~(p[2] < q[2])
    <3>1. p[2] < q[2] <=> fs[p[1]][p[2]].seq < fs[q[1]][q[2]].seq
      BY <1>2, <1>3, <1>4 DEF Marked
    <3>2. QED
      BY <1>2, <1>3, <3>1
  <2>2. p[2] # q[2]
    BY <1>2, <1>3, <1>4 DEF IsMutations, IsFlushed
  <2>3. QED
    BY <1>2, <1>3, <1>4, <2>1, <2>2 DEF Before
<1>5. CASE q[1] < p[1]
  BY <1>5 DEF Before
<1>6. CASE p[1] < q[1]
  <2>1. fs[p[1]][p[2]].seq < q[1]
    BY <1>2, <1>3, <1>6 DEF DiskOK, Partitioned
  <2>2. q[1] <= fs[q[1]][q[2]].seq
    <3>1. CASE fs[q[1]][q[2]].seq = q[1]
      BY <1>3, <3>1
    <3>2. CASE \E k \in 1 .. q[2] - 1 : /\ IsMutations(fs[q[1]][k])
                                     /\ fs[q[1]][q[2]].seq = fs[q[1]][k].seq + 1
      <4>1. PICK k \in 1 .. q[2] - 1 : /\ IsMutations(fs[q[1]][k])
                                       /\ fs[q[1]][q[2]].seq = fs[q[1]][k].seq + 1
        BY <3>2
      <4>2. k \in 1 .. Len(fs[q[1]])
        BY <1>3
      <4>3. fs[q[1]][k].seq \in Nat
        <5>1. fs[q[1]][k] \in Frames
          BY <1>1, <1>3, <4>2
        <5>2. QED
          BY <5>1 DEF Frames
      <4>4. q[1] <= fs[q[1]][k].seq
        BY <1>3, <4>1, <4>2 DEF DiskOK, Partitioned
      <4>5. QED
        BY <1>3, <4>1, <4>3, <4>4
    <3>3. QED
      BY <1>3, <3>1, <3>2 DEF Marked
  <2>3. QED
    BY <1>2, <1>3, <2>1, <2>2
<1>7. QED
  BY <1>2, <1>3, <1>4, <1>5, <1>6

(* A reopened log counts the records behind its last checkpoint.           *)
LEMMA RecountIs ==
  ASSUME NEW fs, NEW sy, DiskOK(fs, sy), \A s \in DOMAIN fs : Marked(s, fs[s]),
         NEW N \in Nat, DOMAIN fs \subseteq 0 .. N
  PROVE  LET found == LastCheckpoint(fs)
             last == IF found = None THEN 0 ELSE found
         IN /\ BytesSinceCheckpoint(fs) \in Nat /\ found \in Nat \cup {None}
            /\ Cardinality(Behind(fs, last)) <= BytesSinceCheckpoint(fs)
            /\ found # None => \E s \in DOMAIN fs : \E k \in 1 .. Len(fs[s]) :
                                 IsFlushed(fs[s][k]) /\ found = fs[s][k].seq
<1> DEFINE found == LastCheckpoint(fs)
           last == IF found = None THEN 0 ELSE found
<1>1. DOMAIN fs \subseteq Nat /\ \A s \in DOMAIN fs : fs[s] \in Seq(Frames) /\ s <= N
  BY DEF DiskOK, Typed
<1>2. IsFiniteSet(Uncovered(fs)) /\ IsFiniteSet(Behind(fs, last))
  <2>1. IsFiniteSet(Places(fs))
    BY <1>1, PlacesFinite
  <2>2. Uncovered(fs) \subseteq Places(fs) /\ Behind(fs, last) \subseteq Places(fs)
    BY DEF Uncovered, Behind, MutationsIn
  <2> HIDE DEF last
  <2>3. QED
    BY <2>1, <2>2, FS_Subset
<1>3. CASE FlushedIn(fs) = {}
  <2>1. found = None
    BY <1>3 DEF LastCheckpoint
  <2>2. Behind(fs, last) \subseteq Uncovered(fs)
    BY <1>3 DEF Behind, Uncovered
  <2> HIDE DEF found, last
  <2>3. QED
    BY <1>2, <2>1, <2>2, FS_Subset, FS_CardinalityType DEF BytesSinceCheckpoint, found, last
<1>4. CASE FlushedIn(fs) # {}
  <2> DEFINE q == LastOf(FlushedIn(fs))
  <2>1. FlushedIn(fs) \subseteq Places(fs)
    BY DEF FlushedIn
  <2>2. q \in FlushedIn(fs) /\ \A r \in FlushedIn(fs) : r = q \/ Before(r, q)
    <3>1. \A P : P \subseteq Places(fs) /\ P # {} =>
             LastOf(P) \in P /\ \A r \in P : r = LastOf(P) \/ Before(r, LastOf(P))
      BY <1>1, LastPlace
    <3>2. QED
      BY <1>4, <2>1, <3>1
  <2>3. found = FrameAt(fs, q).seq
    BY <1>4 DEF LastCheckpoint
  <2> HIDE DEF q
  <2>4. /\ q[1] \in DOMAIN fs /\ q[2] \in 1 .. Len(fs[q[1]]) /\ IsFlushed(fs[q[1]][q[2]])
        /\ FrameAt(fs, q) = fs[q[1]][q[2]] /\ FrameAt(fs, q).seq \in Nat
    BY <1>1, <2>2, RecordPlaces DEF FlushedIn
  <2>5. found \in Nat /\ found # None /\ last = FrameAt(fs, q).seq
    BY <2>3, <2>4, WalAssumption DEF WalAssumption
  <2> HIDE DEF found, last
  <2>6. Behind(fs, last) \subseteq Uncovered(fs)
    <3> SUFFICES ASSUME NEW p \in Behind(fs, last), NEW r \in FlushedIn(fs) PROVE Before(r, p)
      BY DEF Behind, Uncovered
    <3>1. p \in MutationsIn(fs) /\ FrameAt(fs, p).seq >= FrameAt(fs, q).seq
      BY <2>5 DEF Behind
    <3>2. Before(q, p)
      BY <2>2, <3>1, MarkOrder
    <3>3. r = q \/ Before(r, q)
      BY <2>2
    <3>4. p \in Places(fs) /\ q \in Places(fs) /\ r \in Places(fs)
      BY <2>2, <3>1 DEF MutationsIn, FlushedIn
    <3>5. /\ p[1] \in Nat /\ p[2] \in Nat /\ q[1] \in Nat /\ q[2] \in Nat /\ r[1] \in Nat /\ r[2] \in Nat
      BY <1>1, <3>4, RecordPlaces
    <3>6. QED
      BY <3>2, <3>3, <3>5 DEF Before
  <2>7. QED
    BY <1>2, <2>3, <2>4, <2>5, <2>6, FS_Subset, FS_CardinalityType
       DEF BytesSinceCheckpoint, found, last
<1>5. QED
  BY <1>3, <1>4

LEMMA CountOpen ==
  ASSUME IInv, IInv', MarksOK, Open
  PROVE  MarksOK' /\ CountOK'
<1> DEFINE a == Max(DOMAIN segs)
           sealed == [s \in DOMAIN segs \ {a} |-> Readable(segs[s])]
           kept == Scanned(segs[a], MaxView(sealed))
           view == ResumedView(With(sealed, a, kept))
           body == IF kept = << >> THEN <<Schema(view)>> ELSE kept
           files == With(sealed, a, body)
           next == NextSeq(files, a)
<1>1. /\ pc = "down" /\ pc' = "opened" /\ named' = DOMAIN segs /\ removed' = << >>
      /\ segs' = [segs EXCEPT ![a] = body]
      /\ wal' = [active |-> a, active_bytes |-> Len(body), next_seq |-> next,
                 durable_seq |-> next, durable_ends |-> synced',
                 last_checkpoint |-> LastCheckpoint(files),
                 bytes |-> BytesSinceCheckpoint(files), pending |-> None, view |-> view]
  BY DEF Open
<1>2. \A s \in DOMAIN segs : /\ s \in DOMAIN Files /\ Files[s] = segs[s] /\ segs[s] \in Seq(Frames)
                           /\ Marked(s, segs[s])
                           /\ \A k \in 1 .. Len(segs[s]) : IsTorn(segs[s][k]) => k = Len(segs[s])
  BY FilesTyped DEF MarksOK, IInv, DiskOK, TornAtEnd
<1> HIDE DEF a, next, view, sealed, files
<1>3. /\ wal'.active = a /\ wal'.last_checkpoint = LastCheckpoint(files) /\ wal'.pending = None
      /\ wal'.bytes = BytesSinceCheckpoint(files)
  BY <1>1
<1>4. a \in DOMAIN segs
  BY <1>1, <1>3 DEF IInv, HandleOK, HandleTyped
<1>5. DOMAIN segs' = DOMAIN segs /\ segs'[a] = body /\ \A s \in DOMAIN segs \ {a} : segs'[s] = segs[s]
  BY <1>1, <1>4
<1>6. DOMAIN removed' = {}
  BY <1>1
<1>7. DOMAIN Files' = DOMAIN segs' /\ \A s \in DOMAIN segs' : Files'[s] = segs'[s]
  BY <1>6 DEF Files
(* The files that are counted are those that stay.                         *)
<1>8. segs' = files
  <2>1. \A s \in DOMAIN segs \ {a} : \A k \in 1 .. Len(segs[s]) : ~IsTorn(segs[s][k])
    BY <1>1, <1>5, <1>7 DEF IInv, FilesOK
  <2>2. \A s \in DOMAIN segs \ {a} : Readable(segs[s]) = segs[s]
    BY <1>2, <2>1, ReadableFile
  <2>3. files = [s \in DOMAIN segs |-> IF s = a THEN body ELSE segs[s]]
    <3>1. DOMAIN sealed \cup {a} = DOMAIN segs /\ \A s \in DOMAIN segs \ {a} : sealed[s] = segs[s]
      BY <1>4, <2>2 DEF sealed
    <3> HIDE DEF body
    <3>2. QED
      BY <3>1 DEF files, With
  <2> HIDE DEF body
  <2>4. QED
    BY <1>1, <1>4, <2>3
<1>9. MarksOK'
  <2>1. Marked(a, body)
    <3>1. CASE kept = << >>
      <4>1. body = <<Schema(view)>> /\ ~IsFlushed(Schema(view))
        BY <3>1 DEF Schema, IsFlushed
      <4> HIDE DEF body, Schema
      <4>2. \A k \in 1 .. Len(body) : body[k] = Schema(view)
        BY <4>1
      <4>3. QED
        BY <4>1, <4>2 DEF Marked
    <3>2. CASE kept # << >>
      <4>1. /\ kept \in Seq(Frames)
            /\ \A k \in 1 .. Len(kept) : k \in 1 .. Len(segs[a]) /\ kept[k] = segs[a][k]
        BY <1>2, <1>4, ScannedPrefix
      <4>2. body = kept
        BY <3>2
      <4> HIDE DEF kept, body
      <4>3. Len(kept) \in Nat /\ \A k \in 1 .. Len(kept) : ~(Len(kept) < k)
        BY <4>1
      <4>4. Marked(a, kept)
        BY <1>2, <1>4, <4>1, <4>3, MarkedCut
      <4>5. QED
        BY <4>2, <4>4
    <3>3. QED
      BY <3>1, <3>2
  <2> HIDE DEF body
  <2>2. QED
    BY <1>2, <1>5, <1>7, <2>1 DEF MarksOK
<1> HIDE DEF body
<1>10. DiskOK(segs', Durable') /\ \A s \in DOMAIN segs' : Marked(s, segs'[s])
  <2>1. segs' = Files'
    <3>1. Files' = [s \in DOMAIN segs' |-> segs'[s]]
      BY <1>6 DEF Files
    <3>2. segs' = [s \in DOMAIN segs' |-> segs'[s]]
      BY <1>1
    <3>3. QED
      BY <3>1, <3>2
  <2>2. QED
    BY <1>9, <2>1 DEF IInv, MarksOK
<1>11. commits' \in Nat /\ DOMAIN segs' \subseteq 0 .. commits'
  <2>1. DOMAIN segs' \subseteq Nat
    BY <1>10 DEF DiskOK, Typed
  <2>2. QED
    BY <1>7, <2>1 DEF IInv, Bounded, CountsOK
<1>12. /\ wal'.bytes \in Nat /\ wal'.last_checkpoint \in Nat \cup {None}
       /\ Cardinality(Behind(segs', LastMark')) <= wal'.bytes
       /\ wal'.last_checkpoint # None => \E s \in DOMAIN segs' : \E k \in 1 .. Len(segs'[s]) :
            IsFlushed(segs'[s][k]) /\ wal'.last_checkpoint = segs'[s][k].seq
  <2>1. /\ BytesSinceCheckpoint(segs') \in Nat /\ LastCheckpoint(segs') \in Nat \cup {None}
        /\ Cardinality(Behind(segs', IF LastCheckpoint(segs') = None THEN 0 ELSE LastCheckpoint(segs')))
             <= BytesSinceCheckpoint(segs')
        /\ LastCheckpoint(segs') # None => \E s \in DOMAIN segs' : \E k \in 1 .. Len(segs'[s]) :
             IsFlushed(segs'[s][k]) /\ LastCheckpoint(segs') = segs'[s][k].seq
    BY <1>10, <1>11, RecountIs
  <2>2. LastMark' = IF LastCheckpoint(segs') = None THEN 0 ELSE LastCheckpoint(segs')
    BY <1>3, <1>8 DEF LastMark
  <2>3. wal'.bytes = BytesSinceCheckpoint(segs') /\ wal'.last_checkpoint = LastCheckpoint(segs')
    BY <1>3, <1>8
  <2>4. QED
    BY <2>1, <2>2, <2>3
<1>13. LastMark' <= wal'.next_seq
  <2>1. wal'.next_seq \in Nat /\ wal'.active <= wal'.next_seq
    BY <1>1, <1>11 DEF IInv, HandleOK, HandleTyped
  <2>2. CASE wal'.last_checkpoint = None
    BY <2>1, <2>2 DEF LastMark
  <2>3. CASE wal'.last_checkpoint # None
    <3>1. PICK s \in DOMAIN segs' : \E k \in 1 .. Len(segs'[s]) :
            IsFlushed(segs'[s][k]) /\ wal'.last_checkpoint = segs'[s][k].seq
      BY <1>12, <2>3
    <3>2. PICK k \in 1 .. Len(segs'[s]) :
            IsFlushed(segs'[s][k]) /\ wal'.last_checkpoint = segs'[s][k].seq
      BY <3>1
    <3>3. /\ s \in Nat /\ segs'[s] \in Seq(Frames) /\ Len(segs'[s]) \in Nat
          /\ \A j \in 1 .. Len(segs'[s]) : segs'[s][j] \in Frames
      BY <1>10 DEF DiskOK, Typed
    <3>4. \A f \in Frames : f.seq \in Nat
      BY DEF Frames
    <3>5. \A j \in 1 .. Len(segs'[s]) :
            /\ segs'[s][j].seq \in Nat
            /\ IsMutations(segs'[s][j]) => segs'[s][j].seq < wal'.next_seq
      BY <1>1, <1>7, <3>3, <3>4 DEF IInv, HandleOK, AheadOfFiles
    <3>6. s <= wal'.next_seq
      <4>1. s # wal'.pending
        BY <1>3, <3>3, WalAssumption DEF WalAssumption
      <4>2. s <= wal'.active /\ wal'.active \in Nat
        BY <1>1, <1>3, <1>4, <1>5, <1>7, <1>11, <4>1 DEF IInv, HandleOK, AheadOfFiles
      <4>3. QED
        BY <2>1, <3>3, <4>2
    <3>7. Marked(s, segs'[s])
      BY <1>10
    <3>8. segs'[s][k].seq <= wal'.next_seq
      BY <2>1, <3>2, <3>3, <3>5, <3>6, <3>7, MarkBound
    <3>9. QED
      BY <2>3, <3>2, <3>8 DEF LastMark
  <2>4. QED
    BY <2>2, <2>3
<1>14. CountOK'
  BY <1>12, <1>13 DEF CountOK
<1>15. QED
  BY <1>9, <1>14

LEMMA InitCount == Init => MarksOK /\ CountOK
<1> SUFFICES ASSUME Init PROVE MarksOK /\ CountOK
  OBVIOUS
<1>1. /\ DOMAIN segs = {0} /\ segs[0] = <<Schema(0)>> /\ DOMAIN removed = {}
      /\ wal.next_seq = 0 /\ wal.last_checkpoint = None /\ wal.bytes = 0
  BY DEF Init
<1>2. /\ Len(segs[0]) = 1 /\ DOMAIN segs[0] = 1 .. 1
      /\ \A k \in 1 .. Len(segs[0]) : ~IsFlushed(segs[0][k]) /\ ~IsMutations(segs[0][k])
  <2>1. ~IsMutations(Schema(0)) /\ ~IsFlushed(Schema(0))
    BY DEF IsMutations, IsFlushed, Schema
  <2> HIDE DEF Schema
  <2>2. QED
    BY <1>1, <2>1
<1>3. MarksOK
  <2>1. DOMAIN Files = {0} /\ Files[0] = segs[0]
    BY <1>1 DEF Files
  <2>2. QED
    BY <1>2, <2>1 DEF MarksOK, Marked
<1>4. Behind(segs, LastMark) = {}
  BY <1>1, <1>2 DEF Behind, MutationsIn, Places, FrameAt
<1>5. Cardinality(Behind(segs, LastMark)) = 0
  BY <1>4, FS_EmptySet
<1>6. LastMark = 0
  BY <1>1 DEF LastMark
<1>7. CountOK
  BY <1>1, <1>5, <1>6 DEF CountOK
<1>8. QED
  BY <1>3, <1>7

LEMMA CountStep ==
  ASSUME "part" \notin FailedWrites, IInv, IInv', MarksOK, CountOK, [Next]_vars
  PROVE  MarksOK' /\ CountOK'
<1> USE DEF IInv, CountsOK, IsHandle
<1>1. CASE UNCHANGED vars
  <2>1. Files' = Files /\ segs' = segs /\ wal' = wal /\ pc' = pc
    BY <1>1 DEF vars, diskVars, Files
  <2>2. LastMark' = LastMark /\ Behind(segs, LastMark)' = Behind(segs, LastMark)
    BY <2>1 DEF LastMark, Behind, MutationsIn, Places, FrameAt
  <2>3. QED
    BY <2>1, <2>2 DEF MarksOK, CountOK
<1>2. ASSUME MarksOK' /\ NoNewRecords, pc # "down",
             wal'.bytes = wal.bytes, wal'.last_checkpoint = wal.last_checkpoint,
             wal'.next_seq = wal.next_seq
      PROVE  MarksOK' /\ CountOK'
  BY <1>2, CountStays
<1>3. ASSUME UNCHANGED segs, removed' = removed \/ removed' = << >>
      PROVE  MarksOK' /\ NoNewRecords
  <2>1. \A s \in DOMAIN removed' : s \in DOMAIN removed /\ removed'[s] = removed[s]
    <3>1. CASE removed' = removed
      BY <3>1
    <3>2. CASE removed' = << >>
      <4>1. DOMAIN removed' = {}
        BY <3>2
      <4>2. QED
        BY <4>1
    <3>3. QED
      BY <1>3, <3>1, <3>2
  <2>2. QED
    BY <1>3, <2>1, DiskKept
<1>4. CASE \/ Bump \/ RollCreateFails \/ Apply \/ Flush \/ CheckpointFails \/ AckSyncFails \/ Recover
  <2>1. /\ UNCHANGED diskVars /\ pc # "down" /\ wal'.bytes = wal.bytes
        /\ wal'.last_checkpoint = wal.last_checkpoint /\ wal'.next_seq = wal.next_seq
    BY <1>4 DEF Bump, RollCreateFails, Apply, Flush, CheckpointFails, AckSyncFails, Recover
  <2>2. QED
    BY <1>2, <1>3, <2>1 DEF diskVars
<1>5. CASE AppendSync \/ AckSync \/ RollPublish
  <2>1. /\ UNCHANGED segs
        /\ removed' = removed \/ removed' = << >>
        /\ pc # "down" /\ wal'.bytes = wal.bytes
        /\ wal'.last_checkpoint = wal.last_checkpoint /\ wal'.next_seq = wal.next_seq
    BY <1>5 DEF AppendSync, AckSync, RollPublish, Published
  <2>2. QED
    BY <1>2, <1>3, <2>1
<1>6. CASE AppendWrite
  BY <1>6, CountAppend
<1>7. CASE AckWrite
  BY <1>7, CountAck
<1>8. CASE RollCreate
  <2>1. /\ pc # "down" /\ wal'.bytes = wal.bytes
        /\ wal'.last_checkpoint = wal.last_checkpoint /\ wal'.next_seq = wal.next_seq
    BY <1>8 DEF RollCreate
  <2>2. QED
    BY <1>2, <1>8, <2>1, MarksRoll
<1>9. CASE RollAbandon \/ CleanUpAgainFails
  <2>1. /\ CleanUp(segs) \/ CleanUpFails
        /\ pc # "down" /\ wal'.bytes = wal.bytes
        /\ wal'.last_checkpoint = wal.last_checkpoint /\ wal'.next_seq = wal.next_seq
    BY <1>9 DEF RollAbandon, CleanUpAgainFails
  <2>2. QED
    BY <1>2, <2>1, MarksTidy
<1>10. CASE AckWriteFails
  <2>1. /\ pc = "flushed" /\ wal'.bytes = wal.bytes
        /\ wal'.last_checkpoint = wal.last_checkpoint /\ wal'.next_seq = wal.next_seq
    BY <1>10 DEF AckWriteFails
  <2>2. PICK left \in FailedWrites :
          CleanUp(CASE left = "nothing" -> segs
                    [] left = "part" -> WithFrame(Torn)
                    [] left = "all" -> WithFrame(Flushed(wal.next_seq, wal.view)))
    BY <1>10 DEF AckWriteFails
  <2>3. left = "nothing" \/ left = "all"
    BY WalAssumption DEF WalAssumption
  <2>4. CASE left = "nothing"
    <3>1. CleanUp(segs)
      BY <2>2, <2>4
    <3>2. QED
      BY <1>2, <2>1, <3>1, MarksTidy
  <2>5. CASE left = "all"
    <3>1. CleanUp(WithFrame(Flushed(wal.next_seq, wal.view)))
      BY <2>2, <2>5
    <3>2. QED
      BY <1>2, <2>1, <3>1, CheckpointFrame
  <2>6. QED
    BY <2>3, <2>4, <2>5
<1>11. CASE DeleteSegments
  <2>1. /\ pc # "down" /\ wal'.bytes = wal.bytes
        /\ wal'.last_checkpoint = wal.last_checkpoint /\ wal'.next_seq = wal.next_seq
    BY <1>11 DEF DeleteSegments
  <2>2. QED
    BY <1>2, <1>11, <2>1, MarksDelete
<1>12. CASE ProcessCrash
  <2>1. UNCHANGED diskVars /\ pc' = "down"
    BY <1>12 DEF ProcessCrash, Crash
  <2>2. QED
    BY <1>3, <2>1 DEF diskVars, CountOK
<1>13. CASE PowerLoss
  <2>1. pc' = "down"
    BY <1>13 DEF PowerLoss, Crash
  <2>2. QED
    BY <1>13, <2>1, MarksSurvive DEF CountOK
<1>14. CASE Open
  BY <1>14, CountOpen
<1>15. QED
  BY <1>1, <1>4, <1>5, <1>6, <1>7, <1>8, <1>9, <1>10, <1>11, <1>12, <1>13, <1>14 DEF Next

(* bytes_since_checkpoint counts at least the records that the last        *)
(* checkpoint does not cover, whatever was lost, cut or deleted in the     *)
(* meantime, and no checkpoint is ahead of the log.                        *)
THEOREM NothingEscapesTheCheckpoint ==
  ASSUME "part" \notin FailedWrites PROVE Spec => []UncheckpointedIsCounted
<1>1. IInv /\ MarksOK /\ CountOK => UncheckpointedIsCounted
  BY DEF UncheckpointedIsCounted, CountOK, LastMark, Behind
<1>2. Init => IInv /\ MarksOK /\ CountOK
  BY InitOK, InitCount
<1>3. IInv /\ MarksOK /\ CountOK /\ [Next]_vars => (IInv /\ MarksOK /\ CountOK)'
  BY StepOK, CountStep
<1>4. QED
  BY <1>1, <1>2, <1>3, PTL DEF Spec
==============================================================================

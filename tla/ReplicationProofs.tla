-------------------------- MODULE ReplicationProofs --------------------------
(***************************************************************************)
(* The safety half of replication, for any number of followers, members,   *)
(* records and faults: the copies of the followers are prefixes of the     *)
(* published log and never shrink (the refinement of LogShipping without   *)
(* fairness), a journal rebuilds its follower up to a record of the log    *)
(* that does not apply, and no member's progress is ahead of what its      *)
(* follower has durably.                                                   *)
(*                                                                         *)
(* Two facts carry the argument.  A record of an answer, however late it   *)
(* is delivered, is the record of the log with its sequence number         *)
(* (Genuine); and the states a replay of the journal goes through are good *)
(* at every entry (JournalOK), so that it does not matter where a power    *)
(* loss cuts it.                                                           *)
(***************************************************************************)
EXTENDS Replication, FiniteSetsExt, WellFoundedInduction, TLAPS

-----------------------------------------------------------------------------
(* Induction on natural numbers: the set of the numbers that have a        *)
(* property takes the place of the property.                               *)

(* A set of natural numbers that is not empty has a least element.         *)
LEMMA LeastElement ==
  ASSUME NEW T, T \subseteq Nat, T # {}
  PROVE  \E n \in T : \A m \in T : n <= m
<1> DEFINE R == OpToRel(<, Nat)
<1>1. IsWellFoundedOn(R, Nat)
  BY NatLessThanWellFounded
<1>2. \A m, n \in Nat : m < n => <<m, n>> \in R
  BY DEF OpToRel
<1> HIDE DEF R
<1>3. PICK n \in T : \A m \in T : ~(<<m, n>> \in R)
  BY <1>1, WFMin
<1>4. \A m \in T : ~(m < n)
  BY <1>2, <1>3
<1>5. QED
  BY <1>4

(* A set that holds 0 and, up to N, the successor of each number in it,    *)
(* holds 0 .. N.                                                           *)
LEMMA UpTo ==
  ASSUME NEW N \in Nat, NEW S,
         0 \in S,
         \A n \in 1 .. N : n - 1 \in S => n \in S
  PROVE  \A n \in 0 .. N : n \in S
<1> SUFFICES ASSUME NEW k \in 0 .. N, k \notin S
             PROVE  FALSE
  OBVIOUS
<1> DEFINE T == {n \in 0 .. N : n \notin S}
<1>1. PICK n \in T : \A m \in T : n <= m
  <2>1. T \subseteq Nat /\ T # {}
    OBVIOUS
  <2> HIDE DEF T
  <2>2. QED
    BY <2>1, LeastElement
<1>2. n \in 1 .. N
  OBVIOUS
<1>3. n - 1 \in 0 .. N /\ n - 1 \notin T
  BY <1>1, <1>2
<1>4. QED
  BY <1>2, <1>3

(* A set of natural numbers that is not empty and is bounded has a         *)
(* greatest element.                                                       *)
LEMMA GreatestElement ==
  ASSUME NEW T, T \subseteq Nat, T # {}, NEW N \in Nat, \A m \in T : m <= N
  PROVE  \E n \in T : \A m \in T : m <= n
<1> DEFINE D == {N - m : m \in T}
<1>1. \A m \in T : m \in Nat /\ N - m \in Nat
  OBVIOUS
<1>2. D \subseteq Nat /\ D # {}
  BY <1>1
<1>3. PICK d \in D : \A e \in D : d <= e
  <2> HIDE DEF D
  <2>1. QED
    BY <1>2, LeastElement
<1>4. PICK n \in T : d = N - n
  OBVIOUS
<1>5. \A m \in T : N - n <= N - m
  BY <1>3, <1>4
<1>6. QED
  BY <1>1, <1>4, <1>5

(* What Max of the library chooses.                                       *)
LEMMA MaxIs ==
  ASSUME NEW S, S \subseteq Nat, S # {}, NEW N \in Nat, \A m \in S : m <= N
  PROVE  Max(S) \in S /\ \A m \in S : m <= Max(S)
<1>1. PICK n \in S : \A m \in S : m <= n
  BY GreatestElement
<1>2. \E x \in S : \A y \in S : x >= y
  BY <1>1
<1>3. Max(S) \in S /\ \A y \in S : Max(S) >= y
  BY <1>2 DEF Max
<1>4. QED
  BY <1>3

(* What Min of the library chooses.                                        *)
LEMMA MinIs ==
  ASSUME NEW S, S \subseteq Nat, S # {}
  PROVE  Min(S) \in S /\ \A m \in S : Min(S) <= m
<1>1. \E x \in S : \A y \in S : x <= y
  BY LeastElement
<1>2. QED
  BY <1>1 DEF Min

-----------------------------------------------------------------------------


Frames == [kind : {"schema", "mutations", "checkpoint"}, seq : Nat, tick : Nat, view : 0 .. MaxViews,
           applies : BOOLEAN]
RecordSet == [seq : Nat, tick : Nat, view : 0 .. MaxViews, applies : BOOLEAN]
Ranges == [from_seq : Nat, next_seq : Nat, seed_view : 0 .. MaxViews, frames : Seq(Frames)]

-----------------------------------------------------------------------------
(* The inductive invariant.                                                *)

(* The record of frame f is that of log l with its sequence number.        *)
Logged(l, f) == f.seq < Len(Records(l)) /\ Records(l)[f.seq + 1] = Record(f)

LogOK(l) ==
  /\ l \in Seq(Frames) /\ Len(l) >= 1 /\ IsSchema(l[1])
  /\ \A i \in 1 .. Len(l) : IsMutations(l[i]) => Logged(l, l[i])
  /\ \A s \in 0 .. Len(Records(l)) - 1 :
       \E i \in 1 .. Len(l) : IsMutations(l[i]) /\ l[i].seq = s
  /\ \A i, j \in 1 .. Len(l) :
       IsMutations(l[i]) /\ IsMutations(l[j]) /\ i < j => l[i].seq < l[j].seq

(* The records of answer r are records of log l.                           *)
Genuine(l, r) ==
  /\ r \in Ranges
  /\ \A i \in 1 .. Len(r.frames) : IsMutations(r.frames[i]) => Logged(l, r.frames[i])

SourceOK ==
  /\ source = [view |-> source.view, tick |-> source.tick]
  /\ source.view \in 0 .. MaxViews /\ source.tick \in Nat
  /\ admin \in 0 .. MaxAdmin
  /\ DOMAIN journal = Followers /\ DOMAIN follower = Followers /\ DOMAIN pump = Followers
  /\ DOMAIN sent = Followers /\ DOMAIN copy = Followers

IsState(st) ==
  /\ st = [up |-> st.up, content |-> st.content, view |-> st.view, tick |-> st.tick,
           poisoned |-> st.poisoned]
  /\ st.content \in Seq(RecordSet) /\ st.up \in BOOLEAN /\ st.poisoned \in BOOLEAN

(* The next record of log l does not apply.                                *)
AtFailure(l, st) ==
  Len(st.content) < Len(Records(l)) /\ ~Records(l)[Len(st.content) + 1].applies

(* Whichever entry the replay stops at, it has a prefix of the log and has *)
(* what it had at any entry before.  Only the last entry may fail, at a    *)
(* record that does not apply: nothing is written behind it.               *)
Healthy(l, entries) ==
  \A n \in 0 .. Len(entries) :
    /\ IsState(Replays(entries)[n])
    /\ Replays(entries)[n].up
    /\ Replays(entries)[n].poisoned => n = Len(entries) /\ AtFailure(l, Replays(entries)[n])
    /\ IsPrefix(Replays(entries)[n].content, Records(l))
Growing(entries) ==
  \A n \in 0 .. Len(entries) : \A m \in 0 .. n :
    IsPrefix(Replays(entries)[m].content, Replays(entries)[n].content)

JournalOK(f) ==
  /\ journal[f] = [entries |-> journal[f].entries, synced |-> journal[f].synced, torn |-> journal[f].torn]
  /\ journal[f].entries \in Seq(Ranges) /\ journal[f].synced \in 0 .. Len(journal[f].entries)
  /\ Healthy(log, journal[f].entries) /\ Growing(journal[f].entries)
  /\ copy[f] = Replays(journal[f].entries)[journal[f].synced].content

Pumps == {"none", "stopped", "idle", "checked", "read", "answered", "journaled"}

PumpOK(f) ==
  /\ pump[f] = [at |-> pump[f].at, member |-> pump[f].member, session |-> pump[f].session,
                answer |-> pump[f].answer]
  /\ pump[f].at \in Pumps
  /\ IsState(follower[f])
  /\ pump[f].at \notin {"none", "stopped"} =>
       /\ follower[f].up /\ ~follower[f].poisoned
       /\ pump[f].session # None /\ pump[f].session.holder = f
  /\ pump[f].at \in {"read", "answered", "journaled"} => Genuine(log, pump[f].answer)
  /\ pump[f].at = "read" => pump[f].answer.from_seq <= Len(copy[f])
  /\ \A answer \in sent[f] : Genuine(log, answer)

(* The journal is ahead of the follower by the entry under way alone.      *)
InStep(f) ==
  LET entries == journal[f].entries IN
  /\ follower[f].up /\ ~follower[f].poisoned /\ pump[f].at # "journaled" =>
       journal[f].synced = Len(entries) /\ Replays(entries)[Len(entries)] = follower[f]
  /\ pump[f].at = "journaled" =>
       /\ Len(entries) = journal[f].synced + 1 /\ entries[Len(entries)] = pump[f].answer
       /\ Replays(entries)[journal[f].synced] = follower[f]
       /\ Valid(pump[f].answer, follower[f])

FollowerOK(f) == JournalOK(f) /\ PumpOK(f) /\ InStep(f)

MemberOK(m) ==
  /\ members[m] = [session |-> members[m].session, consumed_seq |-> members[m].consumed_seq]
  /\ members[m].consumed_seq \in Nat
  /\ members[m].session = None => members[m].consumed_seq = 0
  /\ members[m].session # None =>
       /\ members[m].session.holder \in Followers
       /\ members[m].consumed_seq <= Len(copy[members[m].session.holder])

IInv ==
  /\ LogOK(log) /\ SourceOK
  /\ \A f \in Followers : FollowerOK(f)
  /\ \A m \in DOMAIN members : MemberOK(m)
-----------------------------------------------------------------------------
(* Prefixes.                                                               *)

LEMMA PrefixIs ==
  ASSUME NEW X, NEW s \in Seq(X), NEW t \in Seq(X)
  PROVE  IsPrefix(s, t) <=> Len(s) <= Len(t) /\ \A i \in 1 .. Len(s) : s[i] = t[i]
<1>1. Len(s) \in Nat /\ Len(t) \in Nat
  OBVIOUS
<1>2. SubSeq(s, 1, Len(s)) = s
  OBVIOUS
<1>3. ASSUME Len(s) <= Len(t), \A i \in 1 .. Len(s) : s[i] = t[i]
      PROVE  SubSeq(t, 1, Len(s)) = s
  BY <1>1, <1>3
<1>4. ASSUME Len(s) <= Len(t), SubSeq(t, 1, Len(s)) = s, NEW i \in 1 .. Len(s)
      PROVE  s[i] = t[i]
  <2>1. SubSeq(t, 1, Len(s))[i] = t[i]
    BY <1>1, <1>4
  <2>2. QED
    BY <1>4, <2>1
<1>5. QED
  BY <1>2, <1>3, <1>4 DEF IsPrefix

LEMMA PrefixTrans ==
  ASSUME NEW X, NEW s \in Seq(X), NEW t \in Seq(X), NEW u \in Seq(X), IsPrefix(s, t), IsPrefix(t, u)
  PROVE  IsPrefix(s, u)
<1>1. Len(s) <= Len(t) /\ \A i \in 1 .. Len(s) : s[i] = t[i]
  BY PrefixIs
<1>2. Len(t) <= Len(u) /\ \A i \in 1 .. Len(t) : t[i] = u[i]
  BY PrefixIs
<1>3. Len(s) \in Nat /\ Len(t) \in Nat /\ Len(u) \in Nat
  OBVIOUS
<1>4. Len(s) <= Len(u) /\ \A i \in 1 .. Len(s) : s[i] = u[i]
  BY <1>1, <1>2, <1>3
<1>5. QED
  BY <1>4, PrefixIs

LEMMA PrefixOfSelf == ASSUME NEW X, NEW s \in Seq(X) PROVE IsPrefix(s, s)
<1>1. Len(s) \in Nat
  OBVIOUS
<1>2. QED
  BY <1>1, PrefixIs

LEMMA AppendIs ==
  ASSUME NEW X, NEW s \in Seq(X), NEW x \in X
  PROVE  /\ Append(s, x) \in Seq(X) /\ Len(s) \in Nat /\ Len(Append(s, x)) = Len(s) + 1
         /\ \A i \in 1 .. Len(s) : Append(s, x)[i] = s[i]
         /\ Append(s, x)[Len(s) + 1] = x
  OBVIOUS

-----------------------------------------------------------------------------
(* The records of a sequence of frames.                                    *)

LEMMA RecordsInUnfolds ==
  ASSUME NEW frames, NEW from, Len(frames) \in Nat
  PROVE  /\ RecordsIn(frames, from)[0] = << >>
         /\ \A n \in 1 .. Len(frames) :
              RecordsIn(frames, from)[n] =
                IF IsMutations(frames[n]) /\ frames[n].seq >= from
                THEN Append(RecordsIn(frames, from)[n - 1], Record(frames[n]))
                ELSE RecordsIn(frames, from)[n - 1]
<1> DEFINE StepOf(v, n) == IF IsMutations(frames[n]) /\ frames[n].seq >= from
                           THEN Append(v, Record(frames[n])) ELSE v
           base == << >>
           Solves(f, k) == f = [n \in 0 .. k |-> IF n = 0 THEN base ELSE StepOf(f[n - 1], n)]
           S == {k \in 0 .. Len(frames) : \E f : Solves(f, k)}
<1>0. RecordsIn(frames, from) = CHOOSE f : f = [n \in 0 .. Len(frames) |->
             IF n = 0 THEN << >>
             ELSE IF IsMutations(frames[n]) /\ frames[n].seq >= from
                  THEN Append(f[n - 1], Record(frames[n])) ELSE f[n - 1]]
  BY DEF RecordsIn
<1>a. RecordsIn(frames, from) = CHOOSE f : Solves(f, Len(frames))
  BY <1>0
<1> HIDE DEF base, StepOf
<1>1. 0 \in S
  <2> DEFINE f0 == [n \in 0 .. 0 |-> base]
  <2>1. Solves(f0, 0)
    OBVIOUS
  <2> HIDE DEF f0, Solves
  <2>2. QED
    BY <2>1
<1>2. ASSUME NEW k \in 1 .. Len(frames), k - 1 \in S
      PROVE  k \in S
  <2>1. PICK f : Solves(f, k - 1)
    BY <1>2
  <2> DEFINE g == [n \in 0 .. k |-> IF n = k THEN StepOf(f[k - 1], k) ELSE f[n]]
  <2>2. \A n \in 0 .. k - 1 : g[n] = f[n]
    OBVIOUS
  <2>3. \A n \in 0 .. k - 1 : f[n] = IF n = 0 THEN base ELSE StepOf(f[n - 1], n)
    BY <2>1
  <2>4. \A n \in 0 .. k : g[n] = IF n = 0 THEN base ELSE StepOf(g[n - 1], n)
    <3> SUFFICES ASSUME NEW n \in 0 .. k
                 PROVE  g[n] = IF n = 0 THEN base ELSE StepOf(g[n - 1], n)
      OBVIOUS
    <3>1. CASE n = k
      <4>1. g[n] = StepOf(f[n - 1], n) /\ g[n - 1] = f[n - 1] /\ n # 0
        BY <2>2, <3>1
      <4>2. QED
        BY <4>1
    <3>2. CASE n # k
      <4>1. n \in 0 .. k - 1 /\ (n # 0 => n - 1 \in 0 .. k - 1)
        BY <3>2
      <4>2. QED
        BY <4>1, <2>2, <2>3
    <3>3. QED
      BY <3>1, <3>2
  <2>5. g = [n \in 0 .. k |-> g[n]]
    OBVIOUS
  <2> HIDE DEF g
  <2>6. Solves(g, k)
    BY <2>4, <2>5
  <2>7. QED
    BY <2>6
<1> HIDE DEF S
<1>3. Len(frames) \in S
  <2>1. \A k \in 1 .. Len(frames) : k - 1 \in S => k \in S
    BY <1>2
  <2>2. \A k \in 0 .. Len(frames) : k \in S
    BY <1>1, <2>1, UpTo
  <2>3. QED
    BY <2>2
<1>4. \E f : Solves(f, Len(frames))
  BY <1>3 DEF S
<1> DEFINE g == RecordsIn(frames, from)
<1>5. Solves(g, Len(frames))
  BY <1>a, <1>4
<1> HIDE DEF g
<1>6. g[0] = base /\ \A n \in 1 .. Len(frames) : g[n] = StepOf(g[n - 1], n)
  BY <1>5
<1>7. QED
  BY <1>6 DEF g, base, StepOf

(* They are records, each of one of the frames.                            *)
LEMMA RecordsTyped ==
  ASSUME NEW frames \in Seq(Frames), NEW from \in Nat
  PROVE  \A n \in 0 .. Len(frames) :
           /\ RecordsIn(frames, from)[n] \in Seq(RecordSet)
           /\ \A i \in 1 .. Len(RecordsIn(frames, from)[n]) : \E k \in 1 .. n :
                /\ IsMutations(frames[k])
                /\ RecordsIn(frames, from)[n][i] = Record(frames[k])
<1> DEFINE R == RecordsIn(frames, from)
           Good(n) == /\ R[n] \in Seq(RecordSet)
                      /\ \A i \in 1 .. Len(R[n]) : \E k \in 1 .. n :
                           IsMutations(frames[k]) /\ R[n][i] = Record(frames[k])
           S == {n \in 0 .. Len(frames) : Good(n)}
<1>1. Len(frames) \in Nat /\ \A k \in 1 .. Len(frames) : frames[k] \in Frames
  OBVIOUS
<1>2. /\ R[0] = << >>
      /\ \A n \in 1 .. Len(frames) :
           R[n] = IF IsMutations(frames[n]) /\ frames[n].seq >= from
                  THEN Append(R[n - 1], Record(frames[n])) ELSE R[n - 1]
  BY <1>1, RecordsInUnfolds
<1>3. \A k \in 1 .. Len(frames) : Record(frames[k]) \in RecordSet
  BY <1>1 DEF Record, RecordSet, Frames
<1> HIDE DEF R
<1>4. 0 \in S
  <2>1. R[0] \in Seq(RecordSet) /\ Len(R[0]) = 0
    BY <1>2
  <2>2. QED
    BY <2>1
<1>5. ASSUME NEW n \in 1 .. Len(frames), n - 1 \in S
      PROVE  n \in S
  <2>1. Good(n - 1)
    BY <1>5
  <2>2. CASE IsMutations(frames[n]) /\ frames[n].seq >= from
    <3>1. R[n] = Append(R[n - 1], Record(frames[n])) /\ Record(frames[n]) \in RecordSet
      BY <1>2, <1>3, <2>2
    <3>2. /\ R[n] \in Seq(RecordSet) /\ Len(R[n - 1]) \in Nat /\ Len(R[n]) = Len(R[n - 1]) + 1
          /\ \A i \in 1 .. Len(R[n - 1]) : R[n][i] = R[n - 1][i]
          /\ R[n][Len(R[n - 1]) + 1] = Record(frames[n])
      BY <2>1, <3>1, AppendIs
    <3>3. ASSUME NEW i \in 1 .. Len(R[n])
          PROVE  \E k \in 1 .. n : IsMutations(frames[k]) /\ R[n][i] = Record(frames[k])
      <4>1. CASE i \in 1 .. Len(R[n - 1])
        <5>1. PICK k \in 1 .. n - 1 : IsMutations(frames[k]) /\ R[n - 1][i] = Record(frames[k])
          BY <2>1, <4>1
        <5>2. k \in 1 .. n /\ R[n][i] = R[n - 1][i]
          BY <3>2, <4>1
        <5>3. QED
          BY <5>1, <5>2
      <4>2. CASE i = Len(R[n - 1]) + 1
        <5>1. n \in 1 .. n
          OBVIOUS
        <5>2. QED
          BY <2>2, <3>2, <4>2, <5>1
      <4>3. QED
        BY <3>2, <4>1, <4>2
    <3>4. QED
      BY <3>2, <3>3
  <2>3. CASE ~(IsMutations(frames[n]) /\ frames[n].seq >= from)
    <3>1. R[n] = R[n - 1]
      BY <1>2, <2>3
    <3>2. \A k \in 1 .. n - 1 : k \in 1 .. n
      OBVIOUS
    <3>3. QED
      BY <2>1, <3>1, <3>2
  <2>4. QED
    BY <2>2, <2>3
<1> HIDE DEF S
<1>6. \A n \in 1 .. Len(frames) : n - 1 \in S => n \in S
  BY <1>5
<1>7. \A n \in 0 .. Len(frames) : n \in S
  BY <1>1, <1>4, <1>6, UpTo
<1>8. QED
  BY <1>7 DEF S, R

(* They depend on the frames up to there alone.                            *)
LEMMA RecordsAgree ==
  ASSUME NEW frames, NEW others, Len(frames) \in Nat, Len(others) \in Nat, NEW from,
         NEW k \in 0 .. Len(frames), k <= Len(others), \A n \in 1 .. k : others[n] = frames[n]
  PROVE  \A n \in 0 .. k : RecordsIn(others, from)[n] = RecordsIn(frames, from)[n]
<1> DEFINE R == RecordsIn(frames, from)
           Q == RecordsIn(others, from)
           S == {n \in 0 .. k : Q[n] = R[n]}
<1>1. /\ R[0] = << >>
      /\ \A n \in 1 .. Len(frames) :
           R[n] = IF IsMutations(frames[n]) /\ frames[n].seq >= from
                  THEN Append(R[n - 1], Record(frames[n])) ELSE R[n - 1]
  BY RecordsInUnfolds
<1>2. /\ Q[0] = << >>
      /\ \A n \in 1 .. Len(others) :
           Q[n] = IF IsMutations(others[n]) /\ others[n].seq >= from
                  THEN Append(Q[n - 1], Record(others[n])) ELSE Q[n - 1]
  BY RecordsInUnfolds
<1> HIDE DEF R, Q
<1>3. 0 \in S
  BY <1>1, <1>2
<1>4. \A n \in 1 .. k : n - 1 \in S => n \in S
  <2> SUFFICES ASSUME NEW n \in 1 .. k, n - 1 \in S PROVE n \in S
    OBVIOUS
  <2>1. n \in 1 .. Len(frames) /\ n \in 1 .. Len(others) /\ others[n] = frames[n] /\ Q[n - 1] = R[n - 1]
    OBVIOUS
  <2>2. QED
    BY <1>1, <1>2, <2>1
<1> HIDE DEF S
<1>5. \A n \in 0 .. k : n \in S
  <2>1. k \in Nat
    OBVIOUS
  <2>2. QED
    BY <2>1, <1>3, <1>4, UpTo
<1>6. QED
  BY <1>5 DEF S, R, Q

(* One more frame is one more record, or none.                             *)
LEMMA RecordsAppend ==
  ASSUME NEW frames \in Seq(Frames), NEW f \in Frames
  PROVE  /\ Append(frames, f) \in Seq(Frames)
         /\ Records(Append(frames, f)) = IF IsMutations(f) THEN Append(Records(frames), Record(f))
                                         ELSE Records(frames)
         /\ Records(frames) \in Seq(RecordSet) /\ Record(f) \in RecordSet
<1> DEFINE more == Append(frames, f)
           N == Len(frames)
<1>1. /\ more \in Seq(Frames) /\ N \in Nat /\ Len(more) = N + 1
      /\ \A i \in 1 .. N : more[i] = frames[i]
      /\ more[N + 1] = f
  <2> HIDE DEF Frames
  <2>1. QED
    BY AppendIs
<1> HIDE DEF more, N
<1>2. RecordsIn(more, 0)[N] = RecordsIn(frames, 0)[N]
  <2>1. N \in 0 .. Len(frames) /\ N <= Len(more) /\ Len(more) \in Nat /\ Len(frames) \in Nat
    BY <1>1 DEF N
  <2>2. QED
    BY <1>1, <2>1, RecordsAgree
<1>3. RecordsIn(more, 0)[N + 1] =
        IF IsMutations(more[N + 1]) /\ more[N + 1].seq >= 0
        THEN Append(RecordsIn(more, 0)[N], Record(more[N + 1])) ELSE RecordsIn(more, 0)[N]
  <2>1. N + 1 \in 1 .. Len(more) /\ Len(more) \in Nat /\ N \in Nat
    BY <1>1
  <2> DEFINE Unfolds(n) ==
          RecordsIn(more, 0)[n] = IF IsMutations(more[n]) /\ more[n].seq >= 0
                                  THEN Append(RecordsIn(more, 0)[n - 1], Record(more[n]))
                                  ELSE RecordsIn(more, 0)[n - 1]
  <2>2. \A n \in 1 .. Len(more) : Unfolds(n)
    BY <2>1, RecordsInUnfolds
  <2> HIDE DEF Unfolds
  <2>3. PICK k : k = N + 1
    OBVIOUS
  <2>4. k - 1 = N /\ Unfolds(k)
    BY <2>1, <2>2, <2>3
  <2>5. RecordsIn(more, 0)[k] = IF IsMutations(more[k]) /\ more[k].seq >= 0
                                THEN Append(RecordsIn(more, 0)[N], Record(more[k]))
                                ELSE RecordsIn(more, 0)[N]
    BY <2>4 DEF Unfolds
  <2>6. QED
    BY <2>3, <2>5
<1>4. f.seq >= 0 /\ Record(f) \in RecordSet
  BY DEF Frames, Record, RecordSet
<1>5. Records(more) = RecordsIn(more, 0)[N + 1] /\ Records(frames) = RecordsIn(frames, 0)[N]
  BY <1>1 DEF Records, RecordsSince, N
<1>6. Records(frames) \in Seq(RecordSet)
  <2>1. N \in 0 .. Len(frames) /\ 0 \in Nat
    BY <1>1 DEF N
  <2>2. \A n \in 0 .. Len(frames) : RecordsIn(frames, 0)[n] \in Seq(RecordSet)
    <3> HIDE DEF Frames, RecordSet
    <3>1. QED
      BY <2>1, RecordsTyped
  <2>3. QED
    BY <1>5, <2>1, <2>2
<1>7. QED
  BY <1>1, <1>2, <1>3, <1>4, <1>5, <1>6 DEF more

(* The records up to a frame are the first of all of them.                 *)
LEMMA RecordsGrow ==
  ASSUME NEW frames \in Seq(Frames), NEW from \in Nat
  PROVE  \A n \in 0 .. Len(frames) : IsPrefix(RecordsIn(frames, from)[n], RecordsSince(frames, from))
<1> DEFINE R == RecordsIn(frames, from)
           N == Len(frames)
           S == {d \in 0 .. N : IsPrefix(R[N - d], R[N])}
<1>a. N \in Nat
  OBVIOUS
<1>1. N \in Nat /\ \A n \in 0 .. N : R[n] \in Seq(RecordSet)
  <2> HIDE DEF Frames, RecordSet
  <2>1. \A n \in 0 .. Len(frames) : RecordsIn(frames, from)[n] \in Seq(RecordSet)
    BY RecordsTyped
  <2>2. QED
    BY <1>a, <2>1
<1>2. \A n \in 1 .. N :
        R[n] = IF IsMutations(frames[n]) /\ frames[n].seq >= from
               THEN Append(R[n - 1], Record(frames[n])) ELSE R[n - 1]
  BY <1>1, RecordsInUnfolds
<1>3. \A n \in 1 .. N : Record(frames[n]) \in RecordSet
  <2>1. \A n \in 1 .. N : frames[n] \in Frames
    OBVIOUS
  <2>2. QED
    BY <2>1 DEF Record, RecordSet, Frames
<1> HIDE DEF R, N
<1>4. 0 \in S
  <2>1. N - 0 = N /\ N \in 0 .. N
    BY <1>1
  <2>2. QED
    BY <1>1, <2>1, PrefixOfSelf
<1>5. \A d \in 1 .. N : d - 1 \in S => d \in S
  <2> SUFFICES ASSUME NEW d \in 1 .. N, d - 1 \in S PROVE d \in S
    OBVIOUS
  <2> DEFINE n == N - d + 1
  <2>1. n \in 1 .. N /\ n - 1 = N - d /\ n = N - (d - 1) /\ n - 1 \in 0 .. N /\ N \in 0 .. N /\ n \in 0 .. N
    BY <1>1
  <2> HIDE DEF n
  <2>2. IsPrefix(R[n], R[N])
    BY <2>1
  <2>3. IsPrefix(R[n - 1], R[n])
    <3>1. CASE R[n] = R[n - 1]
      BY <1>1, <2>1, <3>1, PrefixOfSelf
    <3>2. CASE R[n] = Append(R[n - 1], Record(frames[n]))
      <4>1. R[n - 1] \in Seq(RecordSet) /\ R[n] \in Seq(RecordSet) /\ Record(frames[n]) \in RecordSet
        BY <1>1, <1>3, <2>1
      <4>2. /\ Len(R[n - 1]) \in Nat /\ Len(R[n]) = Len(R[n - 1]) + 1
            /\ \A i \in 1 .. Len(R[n - 1]) : R[n][i] = R[n - 1][i]
        BY <3>2, <4>1, AppendIs
      <4>3. Len(R[n - 1]) <= Len(R[n])
        BY <4>2
      <4>4. QED
        BY <4>1, <4>2, <4>3, PrefixIs
    <3>3. QED
      BY <1>2, <2>1, <3>1, <3>2
  <2>4. IsPrefix(R[n - 1], R[N])
    BY <1>1, <2>1, <2>2, <2>3, PrefixTrans
  <2>5. QED
    BY <2>1, <2>4
<1> HIDE DEF S
<1>6. \A d \in 0 .. N : d \in S
  BY <1>1, <1>4, <1>5, UpTo
<1>7. \A n \in 0 .. N : N - n \in 0 .. N /\ N - (N - n) = n
  BY <1>1
<1>8. \A n \in 0 .. N : IsPrefix(R[n], R[N])
  BY <1>6, <1>7 DEF S
<1>9. QED
  BY <1>8 DEF RecordsSince, R, N

(* In a range without gaps, those from a number on are numbered from it.   *)
LEMMA FreshInOrder ==
  ASSUME NEW r \in Ranges, Contiguous(r), NEW n \in Nat, r.from_seq <= n
  PROVE  /\ RecordsSince(r.frames, n) \in Seq(RecordSet)
         /\ \A i \in 1 .. Len(RecordsSince(r.frames, n)) :
              /\ RecordsSince(r.frames, n)[i].seq = n + i - 1
              /\ \E k \in 1 .. Len(r.frames) : /\ IsMutations(r.frames[k])
                                               /\ RecordsSince(r.frames, n)[i] = Record(r.frames[k])
<1> DEFINE frames == r.frames
           from == r.from_seq
           R == RecordsIn(frames, 0)
           T == RecordsIn(frames, n)
           N == Len(frames)
           Count(k) == IF Len(R[k]) >= n - from THEN Len(R[k]) - (n - from) ELSE 0
           Good(k) == Len(T[k]) = Count(k) /\ \A i \in 1 .. Len(T[k]) : T[k][i].seq = n + i - 1
           S == {k \in 0 .. N : Good(k)}
<1>1. frames \in Seq(Frames) /\ from \in Nat /\ N \in Nat
  BY DEF Ranges
<1>2. \A k \in 1 .. N : /\ Record(frames[k]) \in RecordSet /\ Record(frames[k]).seq = frames[k].seq
                        /\ frames[k].seq \in Nat
  <2>1. \A k \in 1 .. N : frames[k] \in Frames
    BY <1>1
  <2>2. QED
    BY <2>1 DEF Record, RecordSet, Frames
<1>0. \A k \in 0 .. N : R[k] \in Seq(RecordSet) /\ T[k] \in Seq(RecordSet)
  <2> HIDE DEF frames, from, Frames, RecordSet
  <2>1. 0 \in Nat
    OBVIOUS
  <2>2. \A k \in 0 .. Len(frames) : RecordsIn(frames, 0)[k] \in Seq(RecordSet)
    BY <1>1, <2>1, RecordsTyped
  <2>3. \A k \in 0 .. Len(frames) : RecordsIn(frames, n)[k] \in Seq(RecordSet)
    BY <1>1, RecordsTyped
  <2>4. QED
    BY <2>2, <2>3
<1>3. \A i \in 1 .. Len(R[N]) : R[N][i].seq = from + i - 1
  <2>0. N \in 0 .. N
    BY <1>1
  <2>1. R[N] \in Seq(RecordSet) /\ Records(frames) = R[N]
    BY <1>0, <2>0 DEF Records, RecordsSince
  <2>2. DOMAIN R[N] = 1 .. Len(R[N])
    BY <2>1
  <2>3. QED
    BY <2>1, <2>2 DEF Contiguous
<1>4. /\ R[0] = << >>
      /\ \A k \in 1 .. N :
           R[k] = IF IsMutations(frames[k]) /\ frames[k].seq >= 0
                  THEN Append(R[k - 1], Record(frames[k])) ELSE R[k - 1]
  BY <1>1, RecordsInUnfolds
<1>5. /\ T[0] = << >>
      /\ \A k \in 1 .. N :
           T[k] = IF IsMutations(frames[k]) /\ frames[k].seq >= n
                  THEN Append(T[k - 1], Record(frames[k])) ELSE T[k - 1]
  BY <1>1, RecordsInUnfolds
<1>6. \A k \in 0 .. N : R[k] \in Seq(RecordSet) /\ T[k] \in Seq(RecordSet)
  BY <1>0
<1>7. \A k \in 0 .. N : IsPrefix(R[k], R[N])
  <2> HIDE DEF frames, from, Frames
  <2>1. 0 \in Nat
    OBVIOUS
  <2>2. \A k \in 0 .. Len(frames) : IsPrefix(RecordsIn(frames, 0)[k], RecordsSince(frames, 0))
    BY <1>1, <2>1, RecordsGrow
  <2>3. QED
    BY <2>2 DEF RecordsSince
<1>8. RecordsSince(r.frames, n) = T[N]
  BY DEF RecordsSince
<1>9. \A i \in 1 .. Len(T[N]) : \E k \in 1 .. N : IsMutations(frames[k]) /\ T[N][i] = Record(frames[k])
  <2> HIDE DEF frames, from, Frames, RecordSet
  <2>1. \A m \in 0 .. Len(frames) : \A i \in 1 .. Len(RecordsIn(frames, n)[m]) : \E k \in 1 .. m :
          IsMutations(frames[k]) /\ RecordsIn(frames, n)[m][i] = Record(frames[k])
    BY <1>1, RecordsTyped
  <2>2. N \in 0 .. Len(frames)
    BY <1>1
  <2>3. QED
    BY <2>1, <2>2
<1> HIDE DEF R, T, N, frames, from
<1>10. 0 \in S
  <2>1. Len(T[0]) = 0 /\ Len(R[0]) = 0
    BY <1>4, <1>5
  <2>2. Count(0) = 0
    BY <1>1, <2>1 DEF from
  <2>3. QED
    BY <1>1, <2>1, <2>2
<1>11. \A k \in 1 .. N : k - 1 \in S => k \in S
  <2> SUFFICES ASSUME NEW k \in 1 .. N, Good(k - 1) PROVE Good(k)
    BY <1>1
  <2>1. k - 1 \in 0 .. N /\ k \in 0 .. N /\ N \in 0 .. N
    BY <1>1
  <2>2. /\ R[k - 1] \in Seq(RecordSet) /\ T[k - 1] \in Seq(RecordSet) /\ R[k] \in Seq(RecordSet)
        /\ R[N] \in Seq(RecordSet) /\ Len(R[k - 1]) \in Nat /\ Len(T[k - 1]) \in Nat
    BY <1>6, <2>1
  <2>3. CASE ~IsMutations(frames[k])
    <3>1. R[k] = R[k - 1] /\ T[k] = T[k - 1]
      BY <1>4, <1>5, <2>3
    <3>2. QED
      BY <3>1
  <2>4. CASE IsMutations(frames[k])
    <3>0. frames[k].seq >= 0
      BY <1>2
    <3>1. R[k] = Append(R[k - 1], Record(frames[k]))
      BY <1>4, <2>4, <3>0
    <3>2. Len(R[k]) = Len(R[k - 1]) + 1 /\ R[k][Len(R[k - 1]) + 1] = Record(frames[k])
      BY <1>2, <2>2, <3>1, AppendIs
    <3>3. Len(R[k]) <= Len(R[N]) /\ \A i \in 1 .. Len(R[k]) : R[k][i] = R[N][i]
      BY <1>7, <2>1, <2>2, PrefixIs
    <3>4. frames[k].seq = from + Len(R[k - 1])
      <4>1. Len(R[k - 1]) + 1 \in 1 .. Len(R[k]) /\ Len(R[N]) \in Nat
        BY <2>2, <3>2
      <4>2. Len(R[k - 1]) + 1 \in 1 .. Len(R[N])
        BY <2>2, <3>2, <3>3, <4>1
      <4>3. R[k][Len(R[k - 1]) + 1].seq = from + (Len(R[k - 1]) + 1) - 1
        BY <1>3, <3>3, <4>1, <4>2
      <4>4. QED
        BY <1>1, <1>2, <2>2, <3>2, <4>3
    <3>5. CASE frames[k].seq >= n
      <4>1. T[k] = Append(T[k - 1], Record(frames[k]))
        BY <1>5, <2>4, <3>5
      <4>2. /\ Len(T[k]) = Len(T[k - 1]) + 1
            /\ \A i \in 1 .. Len(T[k - 1]) : T[k][i] = T[k - 1][i]
            /\ T[k][Len(T[k - 1]) + 1] = Record(frames[k])
        BY <1>2, <2>2, <4>1, AppendIs
      <4>3. Len(R[k - 1]) >= n - from
        BY <1>1, <2>2, <3>4, <3>5
      <4>4. Len(T[k - 1]) = Len(R[k - 1]) - (n - from)
        BY <4>3
      <4>5. Len(T[k]) = Count(k)
        BY <1>1, <2>2, <3>2, <4>2, <4>3, <4>4
      <4>6. frames[k].seq = n + (Len(T[k - 1]) + 1) - 1
        BY <1>1, <2>2, <3>4, <4>4
      <4>7. ASSUME NEW i \in 1 .. Len(T[k]) PROVE T[k][i].seq = n + i - 1
        <5>1. CASE i \in 1 .. Len(T[k - 1])
          BY <4>2, <5>1
        <5>2. CASE i = Len(T[k - 1]) + 1
          BY <1>2, <4>2, <4>6, <5>2
        <5>3. QED
          BY <2>2, <4>2, <5>1, <5>2
      <4>8. QED
        BY <4>5, <4>7
    <3>6. CASE ~(frames[k].seq >= n)
      <4>1. T[k] = T[k - 1]
        BY <1>5, <3>6
      <4>2. ~(Len(R[k - 1]) >= n - from)
        BY <1>1, <2>2, <3>4, <3>6
      <4>3. Count(k - 1) = 0
        BY <4>2
      <4>4. Count(k) = 0
        BY <1>1, <2>2, <3>2, <4>2
      <4>5. Len(T[k]) = Count(k)
        BY <4>1, <4>3, <4>4
      <4>6. QED
        BY <4>1, <4>5
    <3>7. QED
      BY <3>5, <3>6
  <2>5. QED
    BY <2>3, <2>4
<1> HIDE DEF S
<1>12. \A k \in 0 .. N : k \in S
  BY <1>1, <1>10, <1>11, UpTo
<1>13. N \in S /\ N \in 0 .. N
  BY <1>1, <1>12
<1>14. T[N] \in Seq(RecordSet) /\ \A i \in 1 .. Len(T[N]) : T[N][i].seq = n + i - 1
  BY <1>6, <1>13 DEF S
<1>15. QED
  BY <1>8, <1>9, <1>14 DEF N, frames

(* A sequence that continues another one as a third does.                  *)
LEMMA PrefixByConcat ==
  ASSUME NEW X, NEW s \in Seq(X), NEW t \in Seq(X), NEW u \in Seq(X), IsPrefix(s, u),
         \A i \in 1 .. Len(t) : Len(s) + i <= Len(u) /\ u[Len(s) + i] = t[i]
  PROVE  s \o t \in Seq(X) /\ IsPrefix(s, s \o t) /\ IsPrefix(s \o t, u)
<1> DEFINE c == s \o t
<1>1. /\ c \in Seq(X) /\ Len(s) \in Nat /\ Len(t) \in Nat /\ Len(u) \in Nat /\ Len(c) = Len(s) + Len(t)
      /\ \A i \in 1 .. Len(s) : c[i] = s[i]
      /\ \A i \in Len(s) + 1 .. Len(c) : c[i] = t[i - Len(s)]
  OBVIOUS
<1>2. Len(s) <= Len(u) /\ \A i \in 1 .. Len(s) : s[i] = u[i]
  BY PrefixIs
<1> HIDE DEF c
<1>3. Len(s) <= Len(c) /\ \A i \in 1 .. Len(s) : s[i] = c[i]
  BY <1>1
<1>4. IsPrefix(s, c)
  BY <1>1, <1>3, PrefixIs
<1>5. Len(c) <= Len(u)
  <2>1. CASE Len(t) = 0
    BY <1>1, <1>2, <2>1
  <2>2. CASE Len(t) # 0
    <3>1. Len(t) \in 1 .. Len(t)
      BY <1>1, <2>2
    <3>2. QED
      BY <1>1, <3>1
  <2>3. QED
    BY <2>1, <2>2
<1>6. ASSUME NEW i \in 1 .. Len(c) PROVE c[i] = u[i]
  <2>1. CASE i \in 1 .. Len(s)
    BY <1>1, <1>2, <2>1
  <2>2. CASE i \in Len(s) + 1 .. Len(c)
    <3>1. i - Len(s) \in 1 .. Len(t) /\ Len(s) + (i - Len(s)) = i
      BY <1>1, <2>2
    <3>2. u[Len(s) + (i - Len(s))] = t[i - Len(s)]
      BY <3>1
    <3>3. QED
      BY <1>1, <2>2, <3>1, <3>2
  <2>3. QED
    BY <1>1, <2>1, <2>2
<1>7. IsPrefix(c, u)
  BY <1>1, <1>5, <1>6, PrefixIs
<1>8. QED
  BY <1>1, <1>4, <1>7 DEF c

-----------------------------------------------------------------------------
(* The replay of a journal.                                                *)

LEMMA ReplaysUnfolds ==
  ASSUME NEW entries, Len(entries) \in Nat
  PROVE  /\ Replays(entries)[0] = Empty
         /\ \A n \in 1 .. Len(entries) :
              Replays(entries)[n] = Interpreted(Replays(entries)[n - 1], entries[n])
<1> DEFINE StepOf(v, n) == Interpreted(v, entries[n])
           base == Empty
           Solves(f, k) == f = [n \in 0 .. k |-> IF n = 0 THEN base ELSE StepOf(f[n - 1], n)]
           S == {k \in 0 .. Len(entries) : \E f : Solves(f, k)}
<1>0. Replays(entries) = CHOOSE f : f = [n \in 0 .. Len(entries) |->
             IF n = 0 THEN Empty ELSE Interpreted(f[n - 1], entries[n])]
  BY DEF Replays
<1>a. Replays(entries) = CHOOSE f : Solves(f, Len(entries))
  BY <1>0
<1> HIDE DEF base, StepOf
<1>1. 0 \in S
  <2> DEFINE f0 == [n \in 0 .. 0 |-> base]
  <2>1. Solves(f0, 0)
    OBVIOUS
  <2> HIDE DEF f0, Solves
  <2>2. QED
    BY <2>1
<1>2. ASSUME NEW k \in 1 .. Len(entries), k - 1 \in S
      PROVE  k \in S
  <2>1. PICK f : Solves(f, k - 1)
    BY <1>2
  <2> DEFINE g == [n \in 0 .. k |-> IF n = k THEN StepOf(f[k - 1], k) ELSE f[n]]
  <2>2. \A n \in 0 .. k - 1 : g[n] = f[n]
    OBVIOUS
  <2>3. \A n \in 0 .. k - 1 : f[n] = IF n = 0 THEN base ELSE StepOf(f[n - 1], n)
    BY <2>1
  <2>4. \A n \in 0 .. k : g[n] = IF n = 0 THEN base ELSE StepOf(g[n - 1], n)
    <3> SUFFICES ASSUME NEW n \in 0 .. k
                 PROVE  g[n] = IF n = 0 THEN base ELSE StepOf(g[n - 1], n)
      OBVIOUS
    <3>1. CASE n = k
      <4>1. g[n] = StepOf(f[n - 1], n) /\ g[n - 1] = f[n - 1] /\ n # 0
        BY <2>2, <3>1
      <4>2. QED
        BY <4>1
    <3>2. CASE n # k
      <4>1. n \in 0 .. k - 1 /\ (n # 0 => n - 1 \in 0 .. k - 1)
        BY <3>2
      <4>2. QED
        BY <4>1, <2>2, <2>3
    <3>3. QED
      BY <3>1, <3>2
  <2>5. g = [n \in 0 .. k |-> g[n]]
    OBVIOUS
  <2> HIDE DEF g
  <2>6. Solves(g, k)
    BY <2>4, <2>5
  <2>7. QED
    BY <2>6
<1> HIDE DEF S
<1>3. Len(entries) \in S
  <2>1. \A k \in 1 .. Len(entries) : k - 1 \in S => k \in S
    BY <1>2
  <2>2. \A k \in 0 .. Len(entries) : k \in S
    BY <1>1, <2>1, UpTo
  <2>3. QED
    BY <2>2
<1>4. \E f : Solves(f, Len(entries))
  BY <1>3 DEF S
<1> DEFINE g == Replays(entries)
<1>5. Solves(g, Len(entries))
  BY <1>a, <1>4
<1> HIDE DEF g
<1>6. g[0] = base /\ \A n \in 1 .. Len(entries) : g[n] = StepOf(g[n - 1], n)
  BY <1>5
<1>7. QED
  BY <1>6 DEF g, base, StepOf

(* It depends on the entries up to there alone.                            *)
LEMMA ReplaysAgree ==
  ASSUME NEW entries, NEW others, Len(entries) \in Nat, Len(others) \in Nat,
         NEW k \in 0 .. Len(entries), k <= Len(others), \A n \in 1 .. k : others[n] = entries[n]
  PROVE  \A n \in 0 .. k : Replays(others)[n] = Replays(entries)[n]
<1> DEFINE R == Replays(entries)
           Q == Replays(others)
           S == {n \in 0 .. k : Q[n] = R[n]}
<1>1. R[0] = Empty /\ \A n \in 1 .. Len(entries) : R[n] = Interpreted(R[n - 1], entries[n])
  BY ReplaysUnfolds
<1>2. Q[0] = Empty /\ \A n \in 1 .. Len(others) : Q[n] = Interpreted(Q[n - 1], others[n])
  BY ReplaysUnfolds
<1> HIDE DEF R, Q
<1>3. 0 \in S
  BY <1>1, <1>2
<1>4. \A n \in 1 .. k : n - 1 \in S => n \in S
  <2> SUFFICES ASSUME NEW n \in 1 .. k, n - 1 \in S PROVE n \in S
    OBVIOUS
  <2>1. n \in 1 .. Len(entries) /\ n \in 1 .. Len(others) /\ others[n] = entries[n] /\ Q[n - 1] = R[n - 1]
    OBVIOUS
  <2>2. QED
    BY <1>1, <1>2, <2>1
<1> HIDE DEF S
<1>5. \A n \in 0 .. k : n \in S
  <2>1. k \in Nat
    OBVIOUS
  <2>2. QED
    BY <2>1, <1>3, <1>4, UpTo
<1>6. QED
  BY <1>5 DEF S, R, Q

-----------------------------------------------------------------------------
(* Ingestion: what an answer that passes the checks adds to a follower     *)
(* continues the log where the follower is, whatever the answer repeats.   *)
LEMMA ExecutedContinues ==
  ASSUME NEW l, Records(l) \in Seq(RecordSet), NEW r, Genuine(l, r),
         NEW st, IsState(st), ~st.poisoned, IsPrefix(st.content, Records(l)), Valid(r, st)
  PROVE  /\ IsState(Executed(r, st)) /\ Executed(r, st).up = st.up
         /\ Executed(r, st).poisoned => AtFailure(l, Executed(r, st))
         /\ IsPrefix(st.content, Executed(r, st).content)
         /\ IsPrefix(Executed(r, st).content, Records(l))
<1> DEFINE n == Len(st.content)
           F == RecordsSince(r.frames, n)
           k == Min(Failures(F))
           a == SubSeq(F, 1, k - 1)
           v == PlanView(r, st)
           t == TickAfter(F, st)
           new == Executed(r, st)
<1>1. n \in Nat /\ st.content \in Seq(RecordSet)
  BY DEF IsState
<1>2. r \in Ranges /\ Contiguous(r) /\ r.from_seq <= n
  BY DEF Genuine, Valid, Applied
<1>3. new = IF Failures(F) = {}
            THEN [st EXCEPT !.content = st.content \o F, !.view = v, !.tick = t]
            ELSE [st EXCEPT !.content = st.content \o a, !.poisoned = TRUE]
  BY DEF Executed, Fresh, Applied
<1> HIDE DEF n, new, v, t
<1>4. /\ F \in Seq(RecordSet)
      /\ \A i \in 1 .. Len(F) :
           /\ F[i].seq = n + i - 1
           /\ \E j \in 1 .. Len(r.frames) : IsMutations(r.frames[j]) /\ F[i] = Record(r.frames[j])
  BY <1>1, <1>2, FreshInOrder
<1> HIDE DEF F
<1>5. \A i \in 1 .. Len(F) : n + i <= Len(Records(l)) /\ Records(l)[n + i] = F[i]
  <2> SUFFICES ASSUME NEW i \in 1 .. Len(F)
               PROVE  n + i <= Len(Records(l)) /\ Records(l)[n + i] = F[i]
    OBVIOUS
  <2>1. PICK j \in 1 .. Len(r.frames) : IsMutations(r.frames[j]) /\ F[i] = Record(r.frames[j])
    BY <1>4
  <2>2. Logged(l, r.frames[j])
    BY <2>1 DEF Genuine
  <2>3. r.frames[j].seq = n + i - 1
    <3>1. F[i].seq = n + i - 1
      BY <1>4
    <3>2. QED
      BY <2>1, <3>1 DEF Record
  <2>4. Len(Records(l)) \in Nat /\ i \in Nat /\ (n + i - 1) + 1 = n + i
    BY <1>1, <1>4
  <2>5. n + i - 1 < Len(Records(l)) /\ Records(l)[n + i] = Record(r.frames[j])
    BY <2>2, <2>3, <2>4 DEF Logged
  <2>6. n + i <= Len(Records(l))
    BY <1>1, <2>4, <2>5
  <2>7. QED
    BY <2>1, <2>5, <2>6
<1>6. st = [up |-> st.up, content |-> st.content, view |-> st.view, tick |-> st.tick,
            poisoned |-> st.poisoned]
      /\ st.up \in BOOLEAN /\ st.poisoned \in BOOLEAN
  BY DEF IsState
<1>7. CASE Failures(F) = {}
  <2> DEFINE c == st.content \o F
  <2>1. c \in Seq(RecordSet) /\ IsPrefix(st.content, c) /\ IsPrefix(c, Records(l))
    BY <1>1, <1>4, <1>5, PrefixByConcat DEF n
  <2> HIDE DEF c
  <2>2. new = [up |-> st.up, content |-> c, view |-> v, tick |-> t, poisoned |-> st.poisoned]
    <3>1. new = [st EXCEPT !.content = c, !.view = v, !.tick = t]
      BY <1>3, <1>7 DEF c
    <3>2. QED
      BY <1>6, <3>1
  <2>3. QED
    BY <1>6, <2>1, <2>2 DEF IsState, new
<1>8. CASE Failures(F) # {}
  <2> DEFINE c == st.content \o a
  <2>1. k \in 1 .. Len(F) /\ ~F[k].applies
    <3>1. Failures(F) = {i \in 1 .. Len(F) : ~F[i].applies}
      <4>1. DOMAIN F = 1 .. Len(F)
        BY <1>4
      <4>2. QED
        BY <4>1 DEF Failures
    <3>2. Failures(F) \subseteq Nat
      BY <3>1
    <3>3. k \in Failures(F)
      BY <1>8, <3>2, MinIs
    <3>4. QED
      BY <3>1, <3>3
  <2> HIDE DEF k
  <2>2. a \in Seq(RecordSet) /\ Len(a) = k - 1 /\ \A i \in 1 .. k - 1 : a[i] = F[i]
    <3> HIDE DEF RecordSet
    <3>1. k - 1 \in 0 .. Len(F) /\ Len(F) \in Nat
      BY <1>4, <2>1
    <3>2. QED
      BY <1>4, <3>1
  <2> HIDE DEF a
  <2>3. \A i \in 1 .. Len(a) : n + i <= Len(Records(l)) /\ Records(l)[n + i] = a[i]
    <3>1. \A i \in 1 .. Len(a) : i \in 1 .. Len(F) /\ a[i] = F[i]
      BY <1>4, <2>1, <2>2
    <3>2. QED
      BY <1>5, <3>1
  <2>4. c \in Seq(RecordSet) /\ IsPrefix(st.content, c) /\ IsPrefix(c, Records(l))
    BY <1>1, <2>2, <2>3, PrefixByConcat DEF n
  <2>5. Len(c) + 1 = n + k
    <3>1. Len(c) = Len(st.content) + Len(a)
      <4> HIDE DEF RecordSet
      <4>1. \A s \in Seq(RecordSet), u \in Seq(RecordSet) : Len(s \o u) = Len(s) + Len(u)
        OBVIOUS
      <4>2. QED
        BY <1>1, <2>2, <4>1
    <3>2. QED
      BY <1>1, <2>1, <2>2, <3>1 DEF n
  <2> HIDE DEF c
  <2>6. Len(c) < Len(Records(l)) /\ ~Records(l)[Len(c) + 1].applies
    <3>1. n + k <= Len(Records(l)) /\ Records(l)[n + k] = F[k]
      BY <1>5, <2>1
    <3>2. Len(c) \in Nat /\ Len(Records(l)) \in Nat
      BY <2>4
    <3>3. Len(c) < Len(Records(l))
      BY <2>5, <3>1, <3>2
    <3>4. QED
      BY <2>1, <2>5, <3>1, <3>3
  <2>7. PICK yes \in BOOLEAN : yes
    OBVIOUS
  <2>8. new = [up |-> st.up, content |-> c, view |-> st.view, tick |-> st.tick, poisoned |-> yes]
    <3>1. new = [st EXCEPT !.content = c, !.poisoned = yes]
      BY <1>3, <1>8, <2>7 DEF c
    <3>2. QED
      BY <1>6, <3>1
  <2>9. IsState(new) /\ new.up = st.up /\ new.content = c
    BY <1>6, <2>4, <2>7, <2>8 DEF IsState
  <2>10. AtFailure(l, new)
    BY <2>6, <2>9 DEF AtFailure
  <2>11. QED
    BY <2>4, <2>9, <2>10 DEF new
<1>9. QED
  BY <1>7, <1>8

-----------------------------------------------------------------------------
(* The log.                                                                *)

LEMMA LogTyped ==
  ASSUME NEW l, LogOK(l)
  PROVE  Records(l) \in Seq(RecordSet) /\ Len(Records(l)) \in Nat
<1>1. l \in Seq(Frames) /\ Len(l) \in 0 .. Len(l) /\ 0 \in Nat
  BY DEF LogOK
<1>2. \A n \in 0 .. Len(l) : RecordsIn(l, 0)[n] \in Seq(RecordSet)
  <2> HIDE DEF Frames, RecordSet
  <2>1. QED
    BY <1>1, RecordsTyped
<1>3. Records(l) \in Seq(RecordSet)
  BY <1>1, <1>2 DEF Records, RecordsSince
<1>4. QED
  BY <1>3

(* An answer stays genuine while the log grows.                            *)
LEMMA GenuineStays ==
  ASSUME NEW l, NEW m, Records(l) \in Seq(RecordSet), Records(m) \in Seq(RecordSet),
         IsPrefix(Records(l), Records(m)), NEW r, Genuine(l, r)
  PROVE  Genuine(m, r)
<1>1. /\ Len(Records(l)) <= Len(Records(m))
      /\ \A i \in 1 .. Len(Records(l)) : Records(l)[i] = Records(m)[i]
  BY PrefixIs
<1>2. Len(Records(l)) \in Nat /\ Len(Records(m)) \in Nat
  OBVIOUS
<1>3. ASSUME NEW i \in 1 .. Len(r.frames), IsMutations(r.frames[i])
      PROVE  Logged(m, r.frames[i])
  <2>1. r.frames[i].seq \in Nat
    <3>1. r.frames[i] \in Frames
      BY DEF Genuine, Ranges
    <3>2. QED
      BY <3>1 DEF Frames
  <2>2. r.frames[i].seq < Len(Records(l)) /\ Records(l)[r.frames[i].seq + 1] = Record(r.frames[i])
    BY <1>3 DEF Genuine, Logged
  <2>3. r.frames[i].seq + 1 \in 1 .. Len(Records(l)) /\ r.frames[i].seq < Len(Records(m))
    BY <1>1, <1>2, <2>1, <2>2
  <2>4. QED
    BY <1>1, <2>2, <2>3 DEF Logged
<1>4. QED
  BY <1>3 DEF Genuine

(* A frame without a record leaves the records as they are.                *)
LEMMA AppendControl ==
  ASSUME NEW l, LogOK(l), NEW f \in Frames, ~IsMutations(f)
  PROVE  LogOK(Append(l, f)) /\ Records(Append(l, f)) = Records(l)
<1> DEFINE m == Append(l, f)
           N == Len(l)
<1>1. /\ m \in Seq(Frames) /\ N \in Nat /\ Len(m) = N + 1
      /\ \A i \in 1 .. N : m[i] = l[i]
      /\ m[N + 1] = f
  <2>1. l \in Seq(Frames)
    BY DEF LogOK
  <2> HIDE DEF Frames
  <2>2. QED
    BY <2>1, AppendIs
<1>2. Records(m) = Records(l)
  <2>1. l \in Seq(Frames)
    BY DEF LogOK
  <2> HIDE DEF Frames
  <2>2. QED
    BY <2>1, RecordsAppend
<1> HIDE DEF m
<1>3. \A i \in 1 .. Len(m) : IsMutations(m[i]) => i \in 1 .. N /\ m[i] = l[i]
  <2>1. \A i \in 1 .. Len(m) : i \in 1 .. N \/ i = N + 1
    BY <1>1
  <2>2. QED
    BY <1>1, <2>1
<1>4. Len(m) >= 1 /\ IsSchema(m[1])
  <2>1. 1 \in 1 .. N /\ IsSchema(l[1])
    BY <1>1 DEF LogOK
  <2>2. QED
    BY <1>1, <2>1
<1>5. \A i \in 1 .. Len(m) : IsMutations(m[i]) => Logged(m, m[i])
  BY <1>2, <1>3 DEF LogOK, Logged
<1>6. \A s \in 0 .. Len(Records(m)) - 1 : \E i \in 1 .. Len(m) : IsMutations(m[i]) /\ m[i].seq = s
  <2> SUFFICES ASSUME NEW s \in 0 .. Len(Records(l)) - 1
               PROVE  \E i \in 1 .. Len(m) : IsMutations(m[i]) /\ m[i].seq = s
    BY <1>2
  <2>1. PICK i \in 1 .. N : IsMutations(l[i]) /\ l[i].seq = s
    BY DEF LogOK
  <2>2. i \in 1 .. Len(m) /\ m[i] = l[i]
    BY <1>1
  <2>3. QED
    BY <2>1, <2>2
<1>7. \A i, j \in 1 .. Len(m) :
        IsMutations(m[i]) /\ IsMutations(m[j]) /\ i < j => m[i].seq < m[j].seq
  BY <1>3 DEF LogOK
<1>8. LogOK(m)
  BY <1>1, <1>4, <1>5, <1>6, <1>7 DEF LogOK
<1>9. QED
  BY <1>2, <1>8 DEF m

(* The next record.                                                        *)
LEMMA AppendRecord ==
  ASSUME NEW l, LogOK(l), NEW f \in Frames, IsMutations(f), f.seq = Len(Records(l))
  PROVE  LogOK(Append(l, f)) /\ Records(Append(l, f)) = Append(Records(l), Record(f))
<1> DEFINE m == Append(l, f)
           N == Len(l)
           R == Records(l)
           Q == Records(m)
<1>0. l \in Seq(Frames) /\ R \in Seq(RecordSet)
  BY LogTyped DEF LogOK
<1>1. /\ m \in Seq(Frames) /\ N \in Nat /\ Len(m) = N + 1
      /\ \A i \in 1 .. N : m[i] = l[i]
      /\ m[N + 1] = f
  <2> HIDE DEF Frames
  <2>2. QED
    BY <1>0, AppendIs
<1>2. Q = Append(R, Record(f)) /\ Record(f) \in RecordSet
  <2> HIDE DEF Frames
  <2>2. QED
    BY <1>0, RecordsAppend
<1> HIDE DEF m, R, Q
<1>3. /\ Len(R) \in Nat /\ Len(Q) = Len(R) + 1
      /\ \A i \in 1 .. Len(R) : Q[i] = R[i]
      /\ Q[Len(R) + 1] = Record(f)
  BY <1>0, <1>2, AppendIs
<1>4. \A i \in 1 .. Len(m) : (i \in 1 .. N /\ m[i] = l[i]) \/ (i = N + 1 /\ m[i] = f)
  BY <1>1
<1>5. Len(m) >= 1 /\ IsSchema(m[1])
  <2>1. 1 \in 1 .. N /\ IsSchema(l[1])
    BY <1>1 DEF LogOK
  <2>2. QED
    BY <1>1, <2>1
<1>6. \A i \in 1 .. N : IsMutations(l[i]) =>
        l[i].seq \in Nat /\ l[i].seq < Len(R) /\ R[l[i].seq + 1] = Record(l[i])
  <2>1. \A i \in 1 .. N : l[i].seq \in Nat
    <3>1. \A i \in 1 .. N : l[i] \in Frames
      BY <1>0
    <3>2. QED
      BY <3>1 DEF Frames
  <2>2. QED
    BY <2>1 DEF LogOK, Logged, R
<1>7. ASSUME NEW i \in 1 .. Len(m), IsMutations(m[i])
      PROVE  m[i].seq < Len(Q) /\ Q[m[i].seq + 1] = Record(m[i])
  <2>1. CASE i \in 1 .. N /\ m[i] = l[i]
    <3>1. m[i].seq + 1 \in 1 .. Len(R) /\ m[i].seq < Len(Q)
      BY <1>3, <1>6, <1>7, <2>1
    <3>2. QED
      BY <1>3, <1>6, <1>7, <2>1, <3>1
  <2>2. CASE i = N + 1 /\ m[i] = f
    <3>1. m[i].seq = Len(R)
      BY <2>2 DEF R
    <3>2. QED
      BY <1>3, <2>2, <3>1
  <2>3. QED
    BY <1>4, <2>1, <2>2
<1>8. \A i \in 1 .. Len(m) : IsMutations(m[i]) => Logged(m, m[i])
  BY <1>7 DEF Logged, Q
<1>9. ASSUME NEW s \in 0 .. Len(Q) - 1
      PROVE  \E i \in 1 .. Len(m) : IsMutations(m[i]) /\ m[i].seq = s
  <2>1. CASE s \in 0 .. Len(R) - 1
    <3>1. PICK i \in 1 .. N : IsMutations(l[i]) /\ l[i].seq = s
      BY <2>1 DEF LogOK, R
    <3>2. i \in 1 .. Len(m) /\ m[i] = l[i]
      BY <1>1
    <3>3. QED
      BY <3>1, <3>2
  <2>2. CASE s = Len(R)
    <3>1. N + 1 \in 1 .. Len(m) /\ IsMutations(m[N + 1]) /\ m[N + 1].seq = s
      BY <1>1, <2>2 DEF R
    <3>2. QED
      BY <3>1
  <2>3. QED
    BY <1>3, <2>1, <2>2
<1>10. ASSUME NEW i \in 1 .. Len(m), NEW j \in 1 .. Len(m), IsMutations(m[i]), IsMutations(m[j]), i < j
       PROVE  m[i].seq < m[j].seq
  <2>1. i \in 1 .. N /\ m[i] = l[i]
    BY <1>1, <1>4, <1>10
  <2>2. CASE j \in 1 .. N /\ m[j] = l[j]
    BY <1>10, <2>1, <2>2 DEF LogOK
  <2>3. CASE m[j] = f
    BY <1>6, <1>10, <2>1, <2>3 DEF R
  <2>4. QED
    BY <1>4, <2>2, <2>3
<1>11. LogOK(m)
  BY <1>1, <1>5, <1>8, <1>9, <1>10 DEF LogOK, Q
<1>12. QED
  BY <1>2, <1>11 DEF m, Q, R

-----------------------------------------------------------------------------
(* What the source reads for a follower.                                   *)

LEMMA MaxViewTyped ==
  ASSUME NEW l \in Seq(Frames), NEW n \in 0 .. Len(l)
  PROVE  MaxView(l, n, 0) \in 0 .. MaxViews
<1> DEFINE V == {l[i].view : i \in 1 .. n} \cup {0}
<1>1. MaxViews \in Nat
  BY ReplicationAssumption
<1>2. \A i \in 1 .. n : l[i].view \in 0 .. MaxViews
  <2>1. \A i \in 1 .. n : l[i] \in Frames
    OBVIOUS
  <2>2. QED
    BY <2>1 DEF Frames
<1>3. V \subseteq 0 .. MaxViews /\ V # {}
  BY <1>1, <1>2
<1> HIDE DEF V
<1>4. V \subseteq Nat /\ \A v \in V : v <= MaxViews
  BY <1>1, <1>3
<1>5. Max(V) \in V
  BY <1>1, <1>3, <1>4, MaxIs
<1>6. QED
  BY <1>3, <1>5 DEF MaxView, V

(* A range of records is made of frames of the log.                        *)
LEMMA RangeIsGenuine ==
  ASSUME LogOK(log), NEW from \in Nat, from < DurableSeq,
         Fits(Copied(Position(from), Position(from)))
  PROVE  Genuine(log, RangeFrom(from)) /\ RangeFrom(from).from_seq = from
<1> DEFINE D == Len(Records(log))
           N == Len(log)
           slots == Min({DurableSeq - from, MaxRecords})
           first == Position(from)
           end == Position(from + slots - 1)
           last == Max(StopsAt(first, end))
           frames == Copied(first, last)
<1>1. log \in Seq(Frames) /\ N \in Nat /\ D \in Nat /\ from < D /\ DurableSeq = D /\ DOMAIN log = 1 .. N
  BY LogTyped DEF LogOK, DurableSeq
<1>2. \A s \in 0 .. D - 1 : /\ Position(s) \in 1 .. N
                            /\ IsMutations(log[Position(s)]) /\ log[Position(s)].seq = s
  <2> SUFFICES ASSUME NEW s \in 0 .. D - 1
               PROVE  /\ Position(s) \in 1 .. N
                      /\ IsMutations(log[Position(s)]) /\ log[Position(s)].seq = s
    OBVIOUS
  <2>1. \E i \in DOMAIN log : IsMutations(log[i]) /\ log[i].seq = s
    BY <1>1 DEF LogOK
  <2>2. QED
    BY <1>1, <2>1 DEF Position
<1>3. slots \in Nat /\ slots >= 1 /\ slots <= D - from
  <2> DEFINE S == {D - from, MaxRecords}
  <2>1. D - from \in Nat \ {0} /\ MaxRecords \in Nat \ {0}
    BY <1>1, ReplicationAssumption
  <2>2. S \subseteq Nat /\ S # {} /\ D - from \in S /\ 0 \notin S
    BY <2>1
  <2> HIDE DEF S
  <2>3. Min(S) \in S /\ \A m \in S : Min(S) <= m
    BY <2>2, MinIs
  <2>4. Min(S) \in Nat /\ Min(S) >= 1 /\ Min(S) <= D - from
    <3>1. \A x \in S : x \in Nat /\ x >= 1
      BY <2>2
    <3>2. QED
      BY <2>2, <2>3, <3>1
  <2>5. slots = Min(S)
    BY <1>1 DEF S
  <2>6. QED
    BY <2>4, <2>5
<1> HIDE DEF slots, D, N
<1>a. N \in Nat
  BY <1>1
<1>4. from \in 0 .. D - 1 /\ from + slots - 1 \in 0 .. D - 1 /\ from + slots - 1 \in Nat
  BY <1>1, <1>3
<1>5. first \in 1 .. N /\ IsMutations(log[first]) /\ log[first].seq = from
  BY <1>2, <1>4
<1>6. end \in 1 .. N /\ IsMutations(log[end]) /\ log[end].seq = from + slots - 1
  BY <1>2, <1>4
<1> HIDE DEF first, end
<1>7. first <= end
  <2>1. \A i, j \in 1 .. N : IsMutations(log[i]) /\ IsMutations(log[j]) /\ i < j => log[i].seq < log[j].seq
    BY DEF LogOK, N
  <2>2. CASE end < first
    <3>1. from + slots - 1 < from
      BY <1>5, <1>6, <2>1, <2>2
    <3>2. QED
      BY <1>3, <3>1
  <2>3. QED
    BY <1>5, <1>6, <2>2
<1>8. first >= 2
  <2>1. ~IsMutations(log[1])
    BY DEF LogOK, IsSchema, IsMutations
  <2>2. QED
    BY <1>5, <2>1
<1>9. last \in first .. end
  <2> DEFINE S == StopsAt(first, end)
  <2>1. first \in S
    <3>1. ~IsSchema(log[first])
      BY <1>5 DEF IsSchema, IsMutations
    <3>2. Fits(Copied(first, first))
      BY DEF first
    <3>3. first \in first .. end
      BY <1>5, <1>6, <1>7
    <3>4. QED
      BY <3>1, <3>2, <3>3 DEF StopsAt
  <2>2. S \subseteq first .. end
    BY DEF StopsAt
  <2> HIDE DEF S
  <2>3. S \subseteq Nat /\ S # {} /\ end \in Nat /\ \A m \in S : m <= end
    BY <1>5, <1>6, <2>1, <2>2
  <2>4. Max(S) \in S
    BY <2>3, MaxIs
  <2>5. QED
    BY <2>2, <2>4 DEF S
<1> HIDE DEF last
<1>10. /\ frames \in Seq(Frames)
       /\ \A i \in 1 .. Len(frames) : \E k \in 1 .. N : frames[i] = log[k]
  <2>1. CASE IsSchema(log[first - 1])
    <3>1. frames = SubSeq(log, first - 1, last)
      BY <2>1 DEF Copied
    <3>2. first - 1 \in 1 .. N /\ last \in 1 .. N /\ first - 1 <= last
      BY <1>a, <1>5, <1>6, <1>8, <1>9
    <3>4. /\ frames \in Seq(Frames)
          /\ Len(frames) = last - (first - 1) + 1
          /\ \A i \in 1 .. Len(frames) : frames[i] = log[(first - 1) + i - 1]
      <4> HIDE DEF frames, Frames
      <4>1. QED
        BY <1>1, <3>1, <3>2 DEF N
    <3> HIDE DEF frames
    <3>5. \A i \in 1 .. Len(frames) : (first - 1) + i - 1 \in 1 .. N
      BY <1>a, <3>2, <3>4
    <3>6. QED
      BY <3>4, <3>5
  <2>2. CASE ~IsSchema(log[first - 1])
    <3> DEFINE head == SchemaOf(first)
               tail == SubSeq(log, first, last)
    <3>1. frames = <<log[head]>> \o tail
      BY <2>2 DEF Copied
    <3>2. head \in 1 .. N
      <4> DEFINE S == {j \in 1 .. first : IsSchema(log[j])}
      <4>1. 1 \in S /\ S \subseteq 1 .. first
        BY <1>5 DEF LogOK
      <4> HIDE DEF S
      <4>2. S \subseteq Nat /\ S # {} /\ first \in Nat /\ \A m \in S : m <= first
        BY <1>5, <4>1
      <4>3. Max(S) \in S
        BY <4>2, MaxIs
      <4>4. QED
        <5>0. \A x \in 1 .. first : x \in 1 .. N
          BY <1>a, <1>5
        <5>1. Max(S) \in 1 .. N
          BY <4>1, <4>3, <5>0
        <5>2. QED
          BY <5>1 DEF SchemaOf, S
    <3>3. first \in 1 .. N /\ last \in 1 .. N /\ first <= last
      BY <1>a, <1>5, <1>6, <1>9
    <3> HIDE DEF head
    <3>4. /\ tail \in Seq(Frames)
          /\ Len(tail) = last - first + 1
          /\ \A i \in 1 .. Len(tail) : tail[i] = log[first + i - 1]
      <4> HIDE DEF Frames
      <4>1. QED
        BY <1>1, <3>3 DEF N
    <3> HIDE DEF tail
    <3>5. /\ frames \in Seq(Frames)
          /\ Len(tail) \in Nat /\ Len(frames) = 1 + Len(tail)
          /\ frames[1] = log[head]
          /\ \A i \in 2 .. Len(frames) : frames[i] = tail[i - 1]
      <4>1. log[head] \in Frames
        BY <1>1, <3>2 DEF N
      <4> HIDE DEF frames, Frames
      <4>2. QED
        BY <3>1, <3>4, <4>1
    <3> HIDE DEF frames
    <3>6. ASSUME NEW i \in 1 .. Len(frames) PROVE \E k \in 1 .. N : frames[i] = log[k]
      <4>1. CASE i = 1
        BY <3>2, <3>5, <4>1
      <4>2. CASE i # 1
        <5>1. i \in 2 .. Len(frames) /\ i - 1 \in 1 .. Len(tail)
          BY <3>5, <4>2
        <5>2. frames[i] = log[first + (i - 1) - 1]
          BY <3>4, <3>5, <5>1
        <5>3. first + (i - 1) - 1 \in 1 .. N
          BY <1>a, <3>3, <3>4, <5>1
        <5>4. QED
          BY <5>2, <5>3
      <4>3. QED
        BY <4>1, <4>2
    <3>7. QED
      BY <3>5, <3>6
  <2>3. QED
    BY <2>1, <2>2
<1> DEFINE next == from + Len(Records(frames))
           seed == MaxView(log, first - 1, 0)
<1>11. RangeFrom(from) = [from_seq |-> from, next_seq |-> next, seed_view |-> seed, frames |-> frames]
  BY DEF RangeFrom, first, end, last, slots
<1> HIDE DEF frames
<1>12. next \in Nat
  <2>1. 0 \in Nat /\ Len(frames) \in 0 .. Len(frames)
    BY <1>10
  <2>2. \A m \in 0 .. Len(frames) : RecordsIn(frames, 0)[m] \in Seq(RecordSet)
    <3> HIDE DEF Frames, RecordSet
    <3>1. QED
      BY <1>10, <2>1, RecordsTyped
  <2>3. Records(frames) \in Seq(RecordSet)
    BY <2>1, <2>2 DEF Records, RecordsSince
  <2>4. QED
    BY <2>3
<1>13. seed \in 0 .. MaxViews
  <2>1. first - 1 \in 0 .. Len(log)
    BY <1>1, <1>5 DEF N
  <2>2. QED
    BY <1>1, <2>1, MaxViewTyped
<1> HIDE DEF next, seed
<1>14. RangeFrom(from) \in Ranges
  BY <1>10, <1>11, <1>12, <1>13 DEF Ranges
<1>15. \A i \in 1 .. Len(frames) : IsMutations(frames[i]) => Logged(log, frames[i])
  BY <1>10 DEF LogOK, N
<1>16. QED
  BY <1>11, <1>14, <1>15 DEF Genuine

LEMMA AnswersAreGenuine ==
  ASSUME LogOK(log), NEW from \in Nat, RecordsFrom(from) # None
  PROVE  Genuine(log, RecordsFrom(from)) /\ RecordsFrom(from).from_seq = from
<1>1. log \in Seq(Frames) /\ Len(log) \in 0 .. Len(log) /\ DurableSeq \in Nat
  BY LogTyped DEF LogOK, DurableSeq
<1>2. from <= DurableSeq /\ Resolved(Len(log))
  <2>1. ~(from > DurableSeq \/ ~Resolved(Len(log)))
    BY DEF RecordsFrom
  <2>2. QED
    BY <1>1, <2>1
<1>3. CASE from = DurableSeq
  <2> DEFINE seed == MaxView(log, Len(log), 0)
  <2>1. RecordsFrom(from) = EmptyRange(from)
    BY <1>1, <1>2, <1>3 DEF RecordsFrom
  <2>2. RecordsFrom(from) = [from_seq |-> from, next_seq |-> from, seed_view |-> seed, frames |-> << >>]
    BY <2>1 DEF EmptyRange
  <2>3. seed \in 0 .. MaxViews
    BY <1>1, MaxViewTyped
  <2> HIDE DEF seed
  <2>4. << >> \in Seq(Frames) /\ Len(<< >>) = 0
    OBVIOUS
  <2>5. RecordsFrom(from) \in Ranges
    BY <2>2, <2>3, <2>4 DEF Ranges
  <2>6. QED
    BY <2>2, <2>4, <2>5 DEF Genuine
<1>4. CASE from # DurableSeq
  <2>1. from < DurableSeq /\ ~(from > DurableSeq)
    BY <1>1, <1>2, <1>4
  <2>2. RecordsFrom(from) = IF Fits(Copied(Position(from), Position(from))) THEN RangeFrom(from) ELSE None
    BY <1>2, <1>4, <2>1 DEF RecordsFrom
  <2>3. QED
    BY <2>1, <2>2, RangeIsGenuine
<1>5. QED
  BY <1>3, <1>4

-----------------------------------------------------------------------------
(* Journals whose replay is healthy.                                       *)

LEMMA FailureStays ==
  ASSUME NEW l, NEW m, Records(l) \in Seq(RecordSet), Records(m) \in Seq(RecordSet),
         IsPrefix(Records(l), Records(m)), NEW st, st.content \in Seq(RecordSet), AtFailure(l, st)
  PROVE  AtFailure(m, st)
<1> DEFINE n == Len(st.content)
<1>1. n \in Nat /\ n < Len(Records(l)) /\ ~Records(l)[n + 1].applies
  BY DEF AtFailure
<1>2. /\ Len(Records(l)) <= Len(Records(m)) /\ Len(Records(l)) \in Nat /\ Len(Records(m)) \in Nat
      /\ \A i \in 1 .. Len(Records(l)) : Records(l)[i] = Records(m)[i]
  BY PrefixIs
<1>3. n + 1 \in 1 .. Len(Records(l)) /\ n < Len(Records(m))
  BY <1>1, <1>2
<1>4. Records(m)[n + 1] = Records(l)[n + 1]
  BY <1>2, <1>3
<1>5. QED
  BY <1>1, <1>3, <1>4 DEF AtFailure

LEMMA HealthyStays ==
  ASSUME NEW l, NEW m, Records(l) \in Seq(RecordSet), Records(m) \in Seq(RecordSet),
         IsPrefix(Records(l), Records(m)), NEW entries, Healthy(l, entries)
  PROVE  Healthy(m, entries)
<1> SUFFICES ASSUME NEW n \in 0 .. Len(entries)
             PROVE  /\ IsState(Replays(entries)[n])
                    /\ Replays(entries)[n].up
                    /\ Replays(entries)[n].poisoned =>
                         n = Len(entries) /\ AtFailure(m, Replays(entries)[n])
                    /\ IsPrefix(Replays(entries)[n].content, Records(m))
  BY DEF Healthy
<1> DEFINE st == Replays(entries)[n]
<1>1. /\ IsState(st) /\ st.up /\ IsPrefix(st.content, Records(l))
      /\ st.poisoned => n = Len(entries) /\ AtFailure(l, st)
  BY DEF Healthy
<1> HIDE DEF st
<1>2. st.content \in Seq(RecordSet)
  BY <1>1 DEF IsState
<1>3. IsPrefix(st.content, Records(m))
  BY <1>1, <1>2, PrefixTrans
<1>4. ASSUME AtFailure(l, st) PROVE AtFailure(m, st)
  BY <1>2, <1>4, FailureStays
<1>5. QED
  BY <1>1, <1>3, <1>4 DEF st

(* A journal that is cut is healthy.                                       *)
LEMMA CutIsHealthy ==
  ASSUME NEW l, NEW entries \in Seq(Ranges), Healthy(l, entries), Growing(entries),
         NEW k \in 0 .. Len(entries)
  PROVE  /\ SubSeq(entries, 1, k) \in Seq(Ranges) /\ Len(SubSeq(entries, 1, k)) = k
         /\ Healthy(l, SubSeq(entries, 1, k)) /\ Growing(SubSeq(entries, 1, k))
         /\ \A n \in 0 .. k : Replays(SubSeq(entries, 1, k))[n] = Replays(entries)[n]
<1> DEFINE cut == SubSeq(entries, 1, k)
<1>1. cut \in Seq(Ranges) /\ Len(cut) = k /\ Len(entries) \in Nat /\ \A n \in 1 .. k : cut[n] = entries[n]
  <2> HIDE DEF Ranges
  <2>1. QED
    OBVIOUS
<1> HIDE DEF cut
<1>2. k \in Nat /\ k <= Len(cut)
  BY <1>1
<1>3. \A n \in 0 .. k : Replays(cut)[n] = Replays(entries)[n]
  BY <1>1, <1>2, ReplaysAgree
<1>4. \A n \in 0 .. k : n \in 0 .. Len(entries) /\ \A m \in 0 .. n : m \in 0 .. k
  BY <1>1
<1>5. Healthy(l, cut)
  <2> SUFFICES ASSUME NEW n \in 0 .. k
               PROVE  /\ IsState(Replays(cut)[n]) /\ Replays(cut)[n].up
                      /\ Replays(cut)[n].poisoned => n = k /\ AtFailure(l, Replays(cut)[n])
                      /\ IsPrefix(Replays(cut)[n].content, Records(l))
    BY <1>1 DEF Healthy
  <2>1. Replays(cut)[n] = Replays(entries)[n] /\ n \in 0 .. Len(entries)
    BY <1>3, <1>4
  <2>2. n = Len(entries) => n = k
    BY <1>1
  <2>3. QED
    BY <2>1, <2>2 DEF Healthy
<1>6. Growing(cut)
  <2> SUFFICES ASSUME NEW n \in 0 .. k, NEW m \in 0 .. n
               PROVE  IsPrefix(Replays(cut)[m].content, Replays(cut)[n].content)
    BY <1>1 DEF Growing
  <2>1. Replays(cut)[m] = Replays(entries)[m] /\ Replays(cut)[n] = Replays(entries)[n]
    BY <1>3, <1>4
  <2>2. IsPrefix(Replays(entries)[m].content, Replays(entries)[n].content)
    BY <1>4 DEF Growing
  <2>3. QED
    BY <2>1, <2>2
<1>7. QED
  BY <1>1, <1>3, <1>5, <1>6 DEF cut

(* So is one without a failure that gets an answer which passes the checks. *)
LEMMA WriteIsHealthy ==
  ASSUME NEW l, Records(l) \in Seq(RecordSet), NEW entries \in Seq(Ranges),
         Healthy(l, entries), Growing(entries), ~Replays(entries)[Len(entries)].poisoned,
         NEW r, Genuine(l, r), Valid(r, Replays(entries)[Len(entries)])
  PROVE  /\ Append(entries, r) \in Seq(Ranges) /\ Len(Append(entries, r)) = Len(entries) + 1
         /\ Append(entries, r)[Len(entries) + 1] = r
         /\ Healthy(l, Append(entries, r)) /\ Growing(Append(entries, r))
         /\ \A n \in 0 .. Len(entries) : Replays(Append(entries, r))[n] = Replays(entries)[n]
<1> DEFINE more == Append(entries, r)
           N == Len(entries)
           R == Replays(entries)
           Q == Replays(more)
<1>1. /\ more \in Seq(Ranges) /\ N \in Nat /\ Len(more) = N + 1
      /\ \A n \in 1 .. N : more[n] = entries[n]
      /\ more[N + 1] = r
  <2>1. r \in Ranges
    BY DEF Genuine
  <2> HIDE DEF Ranges
  <2>2. QED
    BY <2>1, AppendIs
<1> HIDE DEF more
<1>2. N \in 0 .. Len(entries) /\ N <= Len(more) /\ Len(more) \in Nat /\ Len(entries) \in Nat
  BY <1>1
<1>3. \A n \in 0 .. N : Q[n] = R[n]
  BY <1>1, <1>2, ReplaysAgree
<1>4. Q[N + 1] = Interpreted(R[N], r)
  <2>1. \A n \in 1 .. Len(more) : Q[n] = Interpreted(Q[n - 1], more[n])
    BY <1>2, ReplaysUnfolds
  <2>2. PICK k : k = N + 1
    OBVIOUS
  <2>3. k \in 1 .. Len(more) /\ k - 1 = N
    BY <1>1, <2>2
  <2>4. Q[k] = Interpreted(Q[N], more[k])
    BY <2>1, <2>3
  <2>5. QED
    BY <1>1, <1>2, <1>3, <2>2, <2>4
<1> DEFINE st == R[N]
           new == Executed(r, st)
<1>5. IsState(st) /\ st.up /\ ~st.poisoned /\ IsPrefix(st.content, Records(l))
  BY <1>2 DEF Healthy
<1>6. Valid(r, st)
  OBVIOUS
<1>7. Q[N + 1] = new
  BY <1>4, <1>5, <1>6 DEF Interpreted
<1> HIDE DEF st, new, R, Q, N
<1>8. /\ IsState(new) /\ new.up = st.up /\ (new.poisoned => AtFailure(l, new))
      /\ IsPrefix(st.content, new.content) /\ IsPrefix(new.content, Records(l))
  <2>1. Genuine(l, r) /\ Records(l) \in Seq(RecordSet)
    OBVIOUS
  <2>2. /\ IsState(Executed(r, st))
        /\ Executed(r, st).up = st.up
        /\ Executed(r, st).poisoned => AtFailure(l, Executed(r, st))
        /\ IsPrefix(st.content, Executed(r, st).content)
        /\ IsPrefix(Executed(r, st).content, Records(l))
    BY <1>5, <1>6, <2>1, ExecutedContinues
  <2>3. QED
    BY <2>2 DEF new
<1>9. \A n \in 0 .. N + 1 : n \in 0 .. N \/ n = N + 1
  BY <1>1
<1>10. \A n \in 0 .. N : IsState(R[n]) /\ R[n].up /\ ~R[n].poisoned /\ IsPrefix(R[n].content, Records(l))
  BY <1>5 DEF Healthy, R, N, st
<1>11. Healthy(l, more)
  <2>1. ASSUME NEW n \in 0 .. N + 1
        PROVE  /\ IsState(Q[n]) /\ Q[n].up /\ IsPrefix(Q[n].content, Records(l))
               /\ Q[n].poisoned => n = N + 1 /\ AtFailure(l, Q[n])
    <3>1. CASE n \in 0 .. N
      BY <1>3, <1>10, <3>1
    <3>2. CASE n = N + 1
      BY <1>5, <1>7, <1>8, <3>2
    <3>3. QED
      BY <1>9, <3>1, <3>2
  <2>2. QED
    BY <1>1, <2>1 DEF Healthy, Q
<1>12. Growing(more)
  <2>1. ASSUME NEW n \in 0 .. N + 1, NEW m \in 0 .. n
        PROVE  IsPrefix(Q[m].content, Q[n].content)
    <3>1. CASE n \in 0 .. N
      <4>1. m \in 0 .. N
        BY <1>1, <3>1
      <4>2. IsPrefix(R[m].content, R[n].content)
        BY <3>1 DEF Growing, R, N
      <4>3. QED
        BY <1>3, <3>1, <4>1, <4>2
    <3>2. CASE n = N + 1
      <4>1. CASE m = N + 1
        <5>1. new.content \in Seq(RecordSet) /\ Q[m] = new /\ Q[n] = new
          BY <1>7, <1>8, <3>2, <4>1 DEF IsState
        <5>2. QED
          BY <5>1, PrefixOfSelf
      <4>2. CASE m # N + 1
        <5>1. m \in 0 .. N /\ N \in 0 .. N
          BY <1>1, <1>9, <3>2, <4>2
        <5>2. IsPrefix(R[m].content, st.content)
          BY <5>1 DEF Growing, R, N, st
        <5>3. R[m].content \in Seq(RecordSet) /\ st.content \in Seq(RecordSet) /\ new.content \in Seq(RecordSet)
          BY <1>5, <1>8, <1>10, <5>1 DEF IsState
        <5>4. IsPrefix(R[m].content, new.content)
          BY <1>8, <5>2, <5>3, PrefixTrans
        <5>5. QED
          BY <1>3, <1>7, <3>2, <5>1, <5>4
      <4>3. QED
        BY <4>1, <4>2
    <3>3. QED
      BY <1>9, <3>1, <3>2
  <2>2. QED
    BY <1>1, <2>1 DEF Growing, Q
<1>13. QED
  BY <1>1, <1>3, <1>11, <1>12 DEF more, N, Q, R

-----------------------------------------------------------------------------
(* What a step leaves alone.                                               *)

LEMMA JournalKeeps ==
  ASSUME NEW f, JournalOK(f), Records(log) \in Seq(RecordSet), Records(log') \in Seq(RecordSet),
         IsPrefix(Records(log), Records(log')), journal'[f] = journal[f], copy'[f] = copy[f]
  PROVE  JournalOK(f)'
<1>1. Healthy(log', journal[f].entries)
  BY HealthyStays DEF JournalOK
<1>2. QED
  BY <1>1 DEF JournalOK

LEMMA PumpKeeps ==
  ASSUME NEW f, PumpOK(f), Records(log) \in Seq(RecordSet), Records(log') \in Seq(RecordSet),
         IsPrefix(Records(log), Records(log')),
         follower'[f] = follower[f], pump'[f] = pump[f], sent'[f] = sent[f], copy'[f] = copy[f]
  PROVE  PumpOK(f)'
<1>1. pump[f].at \in {"read", "answered", "journaled"} => Genuine(log', pump[f].answer)
  BY GenuineStays DEF PumpOK
<1>2. \A answer \in sent[f] : Genuine(log', answer)
  BY GenuineStays DEF PumpOK
<1>3. QED
  BY <1>1, <1>2 DEF PumpOK

LEMMA FollowerKeeps ==
  ASSUME NEW f, FollowerOK(f), Records(log) \in Seq(RecordSet), Records(log') \in Seq(RecordSet),
         IsPrefix(Records(log), Records(log')), journal'[f] = journal[f],
         follower'[f] = follower[f], pump'[f] = pump[f], sent'[f] = sent[f], copy'[f] = copy[f]
  PROVE  FollowerOK(f)'
<1>1. JournalOK(f)'
  BY JournalKeeps DEF FollowerOK
<1>2. PumpOK(f)'
  BY PumpKeeps DEF FollowerOK
<1>3. InStep(f)'
  BY DEF FollowerOK, InStep
<1>4. QED
  BY <1>1, <1>2, <1>3 DEF FollowerOK

(* A step of follower g, its pump or its link.                             *)
OnlyFor(g) ==
  /\ log' = log /\ source' = source /\ admin' \in 0 .. MaxAdmin
  /\ DOMAIN journal' = Followers /\ DOMAIN follower' = Followers /\ DOMAIN pump' = Followers
  /\ DOMAIN sent' = Followers /\ DOMAIN copy' = Followers
  /\ \A f \in Followers \ {g} :
       /\ journal'[f] = journal[f] /\ follower'[f] = follower[f] /\ pump'[f] = pump[f]
       /\ sent'[f] = sent[f] /\ copy'[f] = copy[f]

LEMMA OthersKeep ==
  ASSUME IInv, NEW g \in Followers, OnlyFor(g), FollowerOK(g)',
         \A m \in DOMAIN members' : MemberOK(m)'
  PROVE  IInv'
<1>1. LogOK(log') /\ log' = log /\ Records(log) \in Seq(RecordSet)
  BY LogTyped DEF IInv, OnlyFor
<1>2. SourceOK'
  BY DEF IInv, SourceOK, OnlyFor
<1>3. IsPrefix(Records(log), Records(log'))
  BY <1>1, PrefixOfSelf
<1>4. ASSUME NEW f \in Followers PROVE FollowerOK(f)'
  <2>1. CASE f = g
    BY <2>1
  <2>2. CASE f # g
    <3>1. FollowerOK(f)
      BY DEF IInv
    <3>2. /\ journal'[f] = journal[f] /\ follower'[f] = follower[f] /\ pump'[f] = pump[f]
          /\ sent'[f] = sent[f] /\ copy'[f] = copy[f] /\ Records(log') \in Seq(RecordSet)
      BY <1>1, <2>2 DEF OnlyFor
    <3>3. QED
      BY <1>1, <1>3, <3>1, <3>2, FollowerKeeps
  <2>3. QED
    BY <2>1, <2>2
<1>5. QED
  BY <1>1, <1>2, <1>4 DEF IInv

(* Members and copies.                                                     *)
LEMMA CopyTyped ==
  ASSUME NEW f, JournalOK(f)
  PROVE  copy[f] \in Seq(RecordSet) /\ Len(copy[f]) \in Nat
<1>1. copy[f] \in Seq(RecordSet)
  BY DEF JournalOK, Healthy, IsState
<1>2. QED
  BY <1>1

LEMMA MembersKeep ==
  ASSUME IInv, members' = members,
         \A f \in Followers : Len(copy[f]) <= Len(copy'[f]) /\ Len(copy'[f]) \in Nat
  PROVE  \A m \in DOMAIN members' : MemberOK(m)'
<1>1. \A f \in Followers : Len(copy[f]) \in Nat
  BY CopyTyped DEF IInv, FollowerOK
<1>2. ASSUME NEW m \in DOMAIN members PROVE MemberOK(m)'
  <2>1. MemberOK(m)
    BY DEF IInv
  <2>2. CASE members[m].session = None
    BY <2>1, <2>2 DEF MemberOK
  <2>3. CASE members[m].session # None
    <3>1. /\ members[m].session.holder \in Followers /\ members[m].consumed_seq \in Nat
          /\ members[m].consumed_seq <= Len(copy[members[m].session.holder])
      BY <2>1, <2>3 DEF MemberOK
    <3>2. members[m].consumed_seq <= Len(copy'[members[m].session.holder])
      BY <1>1, <3>1
    <3>3. QED
      BY <2>1, <2>3, <3>1, <3>2 DEF MemberOK
  <2>4. QED
    BY <2>2, <2>3
<1>3. QED
  BY <1>2

LEMMA SameCopies ==
  ASSUME IInv, copy' = copy
  PROVE  \A f \in Followers : Len(copy[f]) <= Len(copy'[f]) /\ Len(copy'[f]) \in Nat
<1>1. \A f \in Followers : Len(copy[f]) \in Nat
  BY CopyTyped DEF IInv, FollowerOK
<1>2. QED
  BY <1>1

(* The pump of a follower that is in step moves.                           *)
LEMMA PumpMoves ==
  ASSUME IInv, NEW g \in Followers, OnlyFor(g), journal' = journal, follower' = follower, copy' = copy,
         pump[g].at # "journaled", pump'[g].at # "journaled", PumpOK(g)'
  PROVE  FollowerOK(g)'
<1>0. FollowerOK(g) /\ log' = log /\ Records(log) \in Seq(RecordSet)
  BY LogTyped DEF IInv, OnlyFor
<1>1. JournalOK(g)'
  BY <1>0 DEF JournalOK, FollowerOK
<1>2. InStep(g)'
  BY <1>0 DEF FollowerOK, InStep
<1>3. QED
  BY <1>1, <1>2 DEF FollowerOK

(* A follower that no longer answers has its journal alone.                *)
LEMMA Ends ==
  ASSUME IInv, NEW g \in Followers, OnlyFor(g), JournalOK(g)', IsState(follower'[g]),
         ~follower'[g].up \/ follower'[g].poisoned,
         pump'[g] = [at |-> pump'[g].at, member |-> pump'[g].member,
                     session |-> pump'[g].session, answer |-> pump'[g].answer],
         pump'[g].at \in {"none", "stopped"}, sent'[g] \subseteq sent[g]
  PROVE  FollowerOK(g)'
<1>0. FollowerOK(g) /\ log' = log
  BY DEF IInv, OnlyFor
<1>1. PumpOK(g)'
  BY <1>0 DEF FollowerOK, PumpOK, Pumps
<1>2. InStep(g)'
  BY DEF InStep
<1>3. QED
  BY <1>1, <1>2 DEF FollowerOK

-----------------------------------------------------------------------------
(* The steps of the source.                                                *)

(* The log grows, and followers and members see nothing of it yet.         *)
LEMMA LogGrows ==
  ASSUME IInv, LogOK(log'), IsPrefix(Records(log), Records(log')), SourceOK',
         UNCHANGED <<members, journal, follower, pump, sent, copy>>
  PROVE  IInv'
<1>1. Records(log) \in Seq(RecordSet) /\ Records(log') \in Seq(RecordSet)
  <2>1. LogOK(log)
    BY DEF IInv
  <2>2. QED
    BY <2>1, LogTyped
<1>2. \A f \in Followers : FollowerOK(f)'
  <2> SUFFICES ASSUME NEW f \in Followers PROVE FollowerOK(f)'
    OBVIOUS
  <2>1. FollowerOK(f)
    BY DEF IInv
  <2>2. QED
    BY <1>1, <2>1, FollowerKeeps
<1>3. \A m \in DOMAIN members' : MemberOK(m)'
  <2>1. members' = members /\ copy' = copy
    OBVIOUS
  <2>2. QED
    BY <2>1, SameCopies, MembersKeep
<1>4. QED
  BY <1>2, <1>3 DEF IInv

LEMMA CommitStep ==
  ASSUME IInv, Commit
  PROVE  /\ IInv' /\ copy' = copy /\ IsPrefix(Records(log), Records(log'))
         /\ Len(Records(log')) = Len(Records(log)) + 1
<1>0. PICK applies \in BOOLEAN :
        log' = Rolled(Append(log, Mutations(DurableSeq, source.tick, source.view, applies)))
  BY DEF Commit
<1> DEFINE f == Mutations(DurableSeq, source.tick, source.view, applies)
           l == Append(log, f)
           R == Records(log)
<1>1. LogOK(log) /\ R \in Seq(RecordSet) /\ DurableSeq = Len(R) /\ DurableSeq \in Nat
  BY LogTyped DEF IInv, DurableSeq
<1>2. source.view \in 0 .. MaxViews /\ source.tick \in Nat /\ MaxViews \in Nat
  BY ReplicationAssumption DEF IInv, SourceOK
<1>3. f \in Frames /\ IsMutations(f) /\ f.seq = Len(R)
  BY <1>1, <1>2 DEF Frames, Mutations, IsMutations
<1> HIDE DEF f
<1>4. LogOK(l) /\ Records(l) = Append(R, Record(f))
  BY <1>1, <1>3, AppendRecord
<1>5. log' = Rolled(l)
  BY <1>0 DEF f
<1> HIDE DEF l
<1>6. LogOK(log') /\ Records(log') = Records(l)
  <2> DEFINE c == Schema(Len(Records(l)), source.view)
  <2>1. Len(Records(l)) \in Nat
    BY <1>4, LogTyped
  <2>2. c \in Frames /\ ~IsMutations(c)
    BY <1>2, <2>1 DEF Frames, Schema, Control, IsMutations
  <2>3. log' = l \/ log' = Append(l, c)
    BY <1>5 DEF Rolled
  <2> HIDE DEF c
  <2>4. LogOK(Append(l, c)) /\ Records(Append(l, c)) = Records(l)
    BY <1>4, <2>2, AppendControl
  <2>5. QED
    BY <1>4, <2>3, <2>4
<1>7. IsPrefix(R, Records(log')) /\ Len(Records(log')) = Len(R) + 1
  <2>1. Record(f) \in RecordSet
    BY <1>3 DEF Record, RecordSet, Frames
  <2>2. /\ Append(R, Record(f)) \in Seq(RecordSet) /\ Len(R) \in Nat
        /\ Len(Append(R, Record(f))) = Len(R) + 1
        /\ \A i \in 1 .. Len(R) : Append(R, Record(f))[i] = R[i]
    BY <1>1, <2>1, AppendIs
  <2>3. Len(R) <= Len(Append(R, Record(f)))
    BY <2>2
  <2>4. IsPrefix(R, Append(R, Record(f)))
    BY <1>1, <2>2, <2>3, PrefixIs
  <2>5. QED
    BY <1>4, <1>6, <2>2, <2>4
<1>8. SourceOK'
  <2>1. source' = [source EXCEPT !.tick = source.tick + 1] /\ admin' = admin
    BY DEF Commit, countVars
  <2>2. source = [view |-> source.view, tick |-> source.tick]
    BY DEF IInv, SourceOK
  <2>3. source' = [view |-> source.view, tick |-> source.tick + 1]
    BY <2>1, <2>2
  <2>4. QED
    BY <1>2, <2>1, <2>3 DEF IInv, SourceOK, Commit
<1>9. IInv'
  <2>1. UNCHANGED <<members, journal, follower, pump, sent, copy>>
    BY DEF Commit
  <2>2. QED
    BY <1>6, <1>7, <1>8, <2>1, LogGrows DEF R
<1>10. QED
  BY <1>7, <1>9 DEF Commit

LEMMA CheckpointStep ==
  ASSUME IInv, Checkpoint
  PROVE  IInv' /\ copy' = copy /\ Records(log') = Records(log)
<1> DEFINE c == Flushed(source.view)
<1>1. LogOK(log) /\ Records(log) \in Seq(RecordSet)
  BY LogTyped DEF IInv
<1>2. c \in Frames /\ ~IsMutations(c)
  BY DEF IInv, SourceOK, Frames, Flushed, Control, IsMutations
<1>3. log' = Append(log, c)
  BY DEF Checkpoint
<1> HIDE DEF c
<1>4. LogOK(log') /\ Records(log') = Records(log)
  BY <1>1, <1>2, <1>3, AppendControl
<1>5. IsPrefix(Records(log), Records(log'))
  BY <1>1, <1>4, PrefixOfSelf
<1>6. SourceOK'
  BY DEF IInv, SourceOK, Checkpoint, countVars
<1>7. UNCHANGED <<members, journal, follower, pump, sent, copy>>
  BY DEF Checkpoint
<1>8. QED
  BY <1>4, <1>5, <1>6, <1>7, LogGrows DEF Checkpoint

LEMMA BumpStep == ASSUME IInv, Bump PROVE IInv' /\ log' = log
<1>1. LogOK(log) /\ Records(log) \in Seq(RecordSet) /\ log' = log
  BY LogTyped DEF IInv, Bump
<1>2. IsPrefix(Records(log), Records(log'))
  BY <1>1, PrefixOfSelf
<1>3. SourceOK'
  <2>1. source' = [source EXCEPT !.view = source.view + 1] /\ admin' = admin
    BY DEF Bump, countVars
  <2>2. source = [view |-> source.view, tick |-> source.tick] /\ source.view \in 0 .. MaxViews
    BY DEF IInv, SourceOK
  <2>3. source' = [view |-> source.view + 1, tick |-> source.tick]
    BY <2>1, <2>2
  <2>4. source.view + 1 \in 0 .. MaxViews
    BY <2>2, ReplicationAssumption DEF Bump
  <2>5. QED
    BY <2>1, <2>3, <2>4 DEF IInv, SourceOK, Bump
<1>4. UNCHANGED <<members, journal, follower, pump, sent, copy>>
  BY DEF Bump
<1>5. LogOK(log')
  BY <1>1
<1>6. QED
  BY <1>1, <1>2, <1>3, <1>4, <1>5, LogGrows

(* Members come and go; a member without a session has consumed nothing.   *)
LEMMA MembershipStep ==
  ASSUME IInv, UNCHANGED <<log, journal, follower, pump, sent, copy>>, SourceOK',
         \A m \in DOMAIN members' :
           \/ members'[m] = [session |-> None, consumed_seq |-> 0]
           \/ m \in DOMAIN members /\ members'[m] = members[m]
  PROVE  IInv'
<1>1. LogOK(log') /\ log' = log /\ Records(log) \in Seq(RecordSet)
  BY LogTyped DEF IInv
<1>2. \A f \in Followers : FollowerOK(f)'
  <2> SUFFICES ASSUME NEW f \in Followers PROVE FollowerOK(f)'
    OBVIOUS
  <2>1. FollowerOK(f)
    BY DEF IInv
  <2>2. IsPrefix(Records(log), Records(log')) /\ Records(log') \in Seq(RecordSet)
    BY <1>1, PrefixOfSelf
  <2>3. QED
    BY <1>1, <2>1, <2>2, FollowerKeeps
<1>3. ASSUME NEW m \in DOMAIN members' PROVE MemberOK(m)'
  <2>1. CASE members'[m] = [session |-> None, consumed_seq |-> 0]
    BY <2>1 DEF MemberOK
  <2>2. CASE m \in DOMAIN members /\ members'[m] = members[m]
    <3>1. MemberOK(m)
      BY <2>2 DEF IInv
    <3>2. QED
      BY <2>2, <3>1 DEF MemberOK
  <2>3. QED
    BY <2>1, <2>2
<1>4. QED
  BY <1>1, <1>2, <1>3 DEF IInv

LEMMA SourceRestartStep == ASSUME IInv, SourceRestart PROVE IInv' /\ log' = log
<1>1. log \in Seq(Frames) /\ Len(log) \in 0 .. Len(log)
  BY DEF IInv, LogOK
<1>2. MaxView(log, Len(log), 0) \in 0 .. MaxViews
  BY <1>1, MaxViewTyped
<1>3. PICK tick \in {source.tick, 0} : source' = [view |-> MaxView(log, Len(log), 0), tick |-> tick]
  BY DEF SourceRestart
<1>4. tick \in Nat
  BY DEF IInv, SourceOK
<1>5. SourceOK'
  BY <1>2, <1>3, <1>4 DEF IInv, SourceOK, SourceRestart, Fault
<1>6. \A m \in DOMAIN members' : members'[m] = [session |-> None, consumed_seq |-> 0]
  BY DEF SourceRestart
<1>7. UNCHANGED <<log, journal, follower, pump, sent, copy>>
  BY DEF SourceRestart
<1>8. QED
  BY <1>5, <1>6, <1>7, MembershipStep

LEMMA AdministerTyped == ASSUME admin \in 0 .. MaxAdmin, Administer PROVE admin' \in 0 .. MaxAdmin
  BY ReplicationAssumption DEF Administer

LEMMA AddMemberStep == ASSUME IInv, NEW m, AddMember(m) PROVE IInv' /\ log' = log
<1>1. SourceOK'
  BY AdministerTyped DEF IInv, SourceOK, AddMember, sourceVars
<1>2. \A n \in DOMAIN members' :
        \/ members'[n] = [session |-> None, consumed_seq |-> 0]
        \/ n \in DOMAIN members /\ members'[n] = members[n]
  BY DEF AddMember
<1>3. UNCHANGED <<log, journal, follower, pump, sent, copy>>
  BY DEF AddMember, sourceVars
<1>4. QED
  BY <1>1, <1>2, <1>3, MembershipStep

LEMMA RemoveMemberStep == ASSUME IInv, NEW m, RemoveMember(m) PROVE IInv' /\ log' = log
<1>1. SourceOK'
  BY AdministerTyped DEF IInv, SourceOK, RemoveMember, sourceVars
<1>2. \A n \in DOMAIN members' : n \in DOMAIN members /\ members'[n] = members[n]
  BY DEF RemoveMember
<1>3. UNCHANGED <<log, journal, follower, pump, sent, copy>>
  BY DEF RemoveMember, sourceVars
<1>4. QED
  BY <1>1, <1>2, <1>3, MembershipStep

-----------------------------------------------------------------------------
(* The steps of a follower, its pump and its link.                         *)

LEMMA StepsAreLocal ==
  ASSUME IInv, NEW g \in Followers,
         \/ Pumping(g) \/ Failing(g) \/ IntoParts(g) \/ DropPoisoned(g) \/ Open(g) \/ OpenRefused(g)
           \/ \E m \in Members : Join(g, m)
  PROVE  OnlyFor(g)
<1> USE DEF OnlyFor, sourceVars, countVars
<1>0. /\ DOMAIN journal = Followers /\ DOMAIN follower = Followers /\ DOMAIN pump = Followers
      /\ DOMAIN sent = Followers /\ DOMAIN copy = Followers /\ admin \in 0 .. MaxAdmin
  BY DEF IInv, SourceOK
<1>1. CASE FetchCheck(g)
  BY <1>0, <1>1 DEF FetchCheck, Stopped
<1>2. CASE FetchRead(g)
  BY <1>0, <1>2 DEF FetchRead, Stopped
<1>3. CASE FetchConfirm(g)
  BY <1>0, <1>3 DEF FetchConfirm, Stopped
<1>4. CASE IngestRefused(g)
  BY <1>0, <1>4 DEF IngestRefused, Stopped, Poisoned
<1>5. CASE IngestNothing(g)
  BY <1>0, <1>5 DEF IngestNothing
<1>6. CASE IngestWrite(g)
  BY <1>0, <1>6 DEF IngestWrite
<1>7. CASE IngestSync(g)
  BY <1>0, <1>7 DEF IngestSync, Stopped
<1>8. CASE Lost(g)
  BY <1>0, <1>8 DEF Lost, Fault
<1>9. CASE DeliverLate(g)
  BY <1>0, <1>9 DEF DeliverLate, Fault
<1>10. CASE HistoryMismatch(g)
  BY <1>0, <1>10 DEF HistoryMismatch, Stopped, Poisoned, Fault
<1>11. CASE IngestWriteFails(g)
  BY <1>0, <1>11 DEF IngestWriteFails, Stopped, Poisoned, Fault
<1>12. CASE IngestSyncFails(g)
  BY <1>0, <1>12 DEF IngestSyncFails, Stopped, Poisoned, Fault
<1>13. CASE FollowerCrash(g)
  BY <1>0, <1>13 DEF FollowerCrash, Unlinked, Fault
<1>14. CASE PowerLoss(g)
  BY <1>0, <1>14 DEF PowerLoss, Unlinked, Fault
<1>15. CASE IntoParts(g)
  BY <1>0, <1>15 DEF IntoParts, Unlinked
<1>16. CASE DropPoisoned(g)
  BY <1>0, <1>16 DEF DropPoisoned, Unlinked
<1>17. CASE Open(g)
  BY <1>0, <1>17 DEF Open
<1>18. ASSUME NEW m \in Members, Join(g, m) PROVE OnlyFor(g)
  <2>1. admin' \in 0 .. MaxAdmin
    BY <1>0, <1>18, AdministerTyped DEF Join
  <2>2. QED
    BY <1>0, <1>18, <2>1 DEF Join
<1>19. CASE OpenRefused(g)
  BY <1>0, <1>19 DEF OpenRefused
<1>20. QED
  BY <1>1, <1>2, <1>3, <1>4, <1>5, <1>6, <1>7, <1>8, <1>9, <1>10, <1>11, <1>12, <1>13, <1>14, <1>15,
     <1>16, <1>17, <1>18, <1>19 DEF Pumping, Failing

(* Steps that change neither members nor copies.                           *)
LEMMA QuietStep ==
  ASSUME IInv, NEW g \in Followers, OnlyFor(g), FollowerOK(g)', members' = members, copy' = copy
  PROVE  IInv'
<1>1. \A m \in DOMAIN members' : MemberOK(m)'
  BY SameCopies, MembersKeep
<1>2. QED
  BY <1>1, OthersKeep

(* What a pump that is under way can rely on.                              *)
LEMMA UnderWay ==
  ASSUME IInv, NEW g \in Followers, pump[g].at \notin {"none", "stopped", "journaled"}
  PROVE  /\ follower[g].up /\ ~follower[g].poisoned
         /\ journal[g].synced = Len(journal[g].entries)
         /\ Replays(journal[g].entries)[Len(journal[g].entries)] = follower[g]
         /\ copy[g] = follower[g].content
<1>1. FollowerOK(g)
  BY DEF IInv
<1>2. follower[g].up /\ ~follower[g].poisoned
  BY <1>1 DEF FollowerOK, PumpOK
<1>3. journal[g].synced = Len(journal[g].entries) /\ Replays(journal[g].entries)[Len(journal[g].entries)] = follower[g]
  BY <1>1, <1>2 DEF FollowerOK, InStep
<1>4. QED
  BY <1>1, <1>2, <1>3 DEF FollowerOK, JournalOK

LEMMA StoppedIs ==
  ASSUME NEW g \in Followers, DOMAIN pump = Followers, pump' = Stopped(g)
  PROVE  /\ pump'[g] = [at |-> pump'[g].at, member |-> pump'[g].member,
                        session |-> pump'[g].session, answer |-> pump'[g].answer]
         /\ pump'[g].at = "stopped"
  BY DEF Stopped, NoPump

LEMMA PumpRecord ==
  ASSUME IInv, NEW g \in Followers
  PROVE  /\ pump[g] = [at |-> pump[g].at, member |-> pump[g].member, session |-> pump[g].session,
                       answer |-> pump[g].answer]
         /\ DOMAIN pump = Followers /\ PumpOK(g)
  BY DEF IInv, FollowerOK, PumpOK, SourceOK

LEMMA FetchCheckStep == ASSUME IInv, NEW g \in Followers, FetchCheck(g) PROVE IInv'
<1>0. /\ pump[g] = [at |-> pump[g].at, member |-> pump[g].member, session |-> pump[g].session,
                     answer |-> pump[g].answer]
      /\ DOMAIN pump = Followers /\ PumpOK(g)
  BY PumpRecord
<1>1. OnlyFor(g) /\ log' = log
  BY StepsAreLocal DEF Pumping, OnlyFor
<1>2. /\ pump[g].at = "idle" /\ journal' = journal /\ follower' = follower /\ copy' = copy
      /\ members' = members /\ sent' = sent
  BY DEF FetchCheck
<1>3. PumpOK(g)' /\ pump'[g].at # "journaled"
  <2>1. CASE pump' = [pump EXCEPT ![g].at = "checked"]
    <3>1. pump'[g] = [at |-> "checked", member |-> pump[g].member, session |-> pump[g].session,
                      answer |-> pump[g].answer]
      BY <2>1, <1>0
    <3>2. QED
      BY <1>1, <1>2, <3>1, <1>0 DEF PumpOK, Pumps
  <2>2. CASE pump' = Stopped(g)
    BY <1>1, <1>2, <2>2, <1>0, StoppedIs DEF PumpOK, Pumps
  <2>3. QED
    BY <2>1, <2>2 DEF FetchCheck
<1>4. FollowerOK(g)'
  BY <1>1, <1>2, <1>3, PumpMoves
<1>5. QED
  BY <1>1, <1>2, <1>4, QuietStep

LEMMA FetchReadStep == ASSUME IInv, NEW g \in Followers, FetchRead(g) PROVE IInv'
<1> DEFINE from == Applied(follower[g])
           range == RecordsFrom(from)
<1>0. /\ pump[g] = [at |-> pump[g].at, member |-> pump[g].member, session |-> pump[g].session,
                     answer |-> pump[g].answer]
      /\ DOMAIN pump = Followers /\ PumpOK(g)
  BY PumpRecord
<1>1. OnlyFor(g) /\ log' = log
  BY StepsAreLocal DEF Pumping, OnlyFor
<1>2. /\ pump[g].at = "checked" /\ journal' = journal /\ follower' = follower /\ copy' = copy
      /\ members' = members /\ sent' = sent
  BY DEF FetchRead
<1>3. pump' = IF range = None THEN Stopped(g) ELSE [pump EXCEPT ![g].at = "read", ![g].answer = range]
  BY DEF FetchRead
<1>4. from = Len(copy[g]) /\ from \in Nat
  <2>1. JournalOK(g) /\ copy[g] = follower[g].content
    BY <1>2, UnderWay DEF IInv, FollowerOK
  <2>2. QED
    BY <2>1, CopyTyped DEF Applied
<1> HIDE DEF from
<1>5. range # None => Genuine(log, range) /\ range.from_seq = from
  BY <1>4, AnswersAreGenuine DEF IInv
<1> HIDE DEF range
<1>6. PumpOK(g)' /\ pump'[g].at # "journaled"
  <2>1. CASE range # None
    <3>1. pump'[g] = [at |-> "read", member |-> pump[g].member, session |-> pump[g].session,
                      answer |-> range]
      BY <1>3, <2>1, <1>0
    <3>2. range.from_seq <= Len(copy[g])
      BY <1>4, <1>5, <2>1
    <3>3. QED
      BY <1>1, <1>2, <1>5, <2>1, <3>1, <3>2, <1>0 DEF PumpOK, Pumps
  <2>2. CASE range = None
    <3>1. pump' = Stopped(g)
      BY <1>3, <2>2
    <3>2. QED
      BY <1>1, <1>2, <3>1, <1>0, StoppedIs DEF PumpOK, Pumps
  <2>3. QED
    BY <2>1, <2>2
<1>7. FollowerOK(g)'
  BY <1>1, <1>2, <1>6, PumpMoves
<1>8. QED
  BY <1>1, <1>2, <1>7, QuietStep

LEMMA FetchConfirmStep == ASSUME IInv, NEW g \in Followers, FetchConfirm(g) PROVE IInv'
<1>0. /\ pump[g] = [at |-> pump[g].at, member |-> pump[g].member, session |-> pump[g].session,
                     answer |-> pump[g].answer]
      /\ DOMAIN pump = Followers /\ PumpOK(g)
  BY PumpRecord
<1>1. OnlyFor(g) /\ log' = log
  BY StepsAreLocal DEF Pumping, OnlyFor
<1>2. pump[g].at = "read" /\ journal' = journal /\ follower' = follower /\ copy' = copy
  BY DEF FetchConfirm
<1>3. CASE ~IsCurrent(pump[g].member, pump[g].session)
  <2>1. pump' = Stopped(g) /\ members' = members /\ sent' = sent
    BY <1>3 DEF FetchConfirm
  <2>2. PumpOK(g)' /\ pump'[g].at # "journaled"
    BY <1>1, <1>2, <2>1, <1>0, StoppedIs DEF PumpOK, Pumps
  <2>3. FollowerOK(g)'
    BY <1>1, <1>2, <2>2, PumpMoves
  <2>4. QED
    BY <1>1, <1>2, <2>1, <2>3, QuietStep
<1>4. CASE IsCurrent(pump[g].member, pump[g].session)
  <2> DEFINE m == pump[g].member
             reported == pump[g].answer.from_seq
             consumed == Max({members[m].consumed_seq, reported})
  <2>1. /\ members' = [members EXCEPT ![m].consumed_seq = consumed]
        /\ sent' = [sent EXCEPT ![g] = sent[g] \cup {pump[g].answer}]
        /\ pump' = [pump EXCEPT ![g].at = "answered"]
    BY <1>4 DEF FetchConfirm
  <2>2. Genuine(log, pump[g].answer) /\ reported <= Len(copy[g]) /\ pump[g].session # None
        /\ pump[g].session.holder = g
    BY <1>2, <1>0 DEF PumpOK
  <2>3. reported \in Nat /\ Len(copy[g]) \in Nat
    BY <2>2, CopyTyped DEF Genuine, Ranges, IInv, FollowerOK
  <2>4. m \in DOMAIN members /\ members[m].session = pump[g].session
    BY <1>4 DEF IsCurrent
  <2>5. MemberOK(m)
    BY <2>4 DEF IInv
  <2>6. members[m].consumed_seq \in Nat /\ members[m].consumed_seq <= Len(copy[g])
    BY <2>2, <2>4, <2>5 DEF MemberOK
  <2>7. consumed \in Nat /\ consumed <= Len(copy[g])
    <3> DEFINE S == {members[m].consumed_seq, reported}
    <3>1. S \subseteq Nat /\ S # {} /\ \A x \in S : x <= Len(copy[g])
      BY <2>2, <2>3, <2>6
    <3> HIDE DEF S
    <3>2. Max(S) \in S
      BY <2>3, <3>1, MaxIs
    <3>3. QED
      BY <3>1, <3>2 DEF S
  <2> HIDE DEF consumed
  <2>8. ASSUME NEW n \in DOMAIN members' PROVE MemberOK(n)'
    <3>1. n \in DOMAIN members /\ MemberOK(n)
      BY <2>1 DEF IInv
    <3>2. CASE n = m
      <4>1. members'[n] = [session |-> pump[g].session, consumed_seq |-> consumed]
        BY <2>1, <2>4, <2>5, <3>2 DEF MemberOK
      <4>2. QED
        BY <1>2, <2>2, <2>7, <4>1 DEF MemberOK
    <3>3. CASE n # m
      <4>1. members'[n] = members[n]
        BY <2>1, <3>1, <3>3
      <4>2. QED
        BY <1>2, <3>1, <4>1 DEF MemberOK
    <3>4. QED
      BY <3>2, <3>3
  <2>9. PumpOK(g)' /\ pump'[g].at # "journaled"
    <3>1. pump'[g] = [at |-> "answered", member |-> m, session |-> pump[g].session, answer |-> pump[g].answer]
      BY <2>1, <1>0
    <3>2. sent'[g] = sent[g] \cup {pump[g].answer}
      BY <2>1 DEF IInv, SourceOK
    <3>3. QED
      BY <1>1, <1>2, <2>2, <3>1, <3>2, <1>0 DEF PumpOK, Pumps
  <2>10. FollowerOK(g)'
    BY <1>1, <1>2, <2>9, PumpMoves
  <2>11. QED
    BY <1>1, <2>8, <2>10, OthersKeep
<1>5. QED
  BY <1>3, <1>4

(* The fetch is over, or starts again, with another answer or with none.   *)
LEMMA LinkStep ==
  ASSUME IInv, NEW g \in Followers, Lost(g) \/ DeliverLate(g) \/ IngestNothing(g)
  PROVE  IInv'
<1>0. /\ pump[g] = [at |-> pump[g].at, member |-> pump[g].member, session |-> pump[g].session,
                     answer |-> pump[g].answer]
      /\ DOMAIN pump = Followers /\ PumpOK(g)
  BY PumpRecord
<1>1. OnlyFor(g) /\ log' = log
  BY StepsAreLocal DEF Pumping, Failing, OnlyFor
<1>2. /\ pump[g].at \in {"checked", "read", "answered"} /\ journal' = journal /\ follower' = follower
      /\ copy' = copy /\ members' = members /\ sent' = sent
  BY DEF Lost, DeliverLate, IngestNothing
<1>3. PumpOK(g)' /\ pump'[g].at # "journaled"
  <2>1. CASE pump' = [pump EXCEPT ![g].at = "idle", ![g].answer = None]
    <3>1. pump'[g] = [at |-> "idle", member |-> pump[g].member, session |-> pump[g].session,
                      answer |-> None]
      BY <2>1, <1>0
    <3>2. QED
      BY <1>1, <1>2, <3>1, <1>0 DEF PumpOK, Pumps
  <2>2. CASE DeliverLate(g)
    <3>1. PICK late \in sent[g] : pump' = [pump EXCEPT ![g].answer = late]
      BY <2>2 DEF DeliverLate
    <3>2. pump[g].at = "answered"
      BY <2>2 DEF DeliverLate
    <3>3. pump'[g] = [at |-> "answered", member |-> pump[g].member, session |-> pump[g].session,
                      answer |-> late]
      BY <3>1, <3>2, <1>0
    <3>4. Genuine(log, late)
      BY <1>0 DEF PumpOK
    <3>5. QED
      BY <1>1, <1>2, <3>3, <3>4, <1>0 DEF PumpOK, Pumps
  <2>3. QED
    BY <2>1, <2>2 DEF Lost, IngestNothing
<1>4. FollowerOK(g)'
  BY <1>1, <1>2, <1>3, PumpMoves
<1>5. QED
  BY <1>1, <1>2, <1>4, QuietStep

LEMMA IntoPartsStep == ASSUME IInv, NEW g \in Followers, IntoParts(g) PROVE IInv'
<1>0. /\ pump[g] = [at |-> pump[g].at, member |-> pump[g].member, session |-> pump[g].session,
                     answer |-> pump[g].answer]
      /\ DOMAIN pump = Followers /\ PumpOK(g)
  BY PumpRecord
<1>1. OnlyFor(g) /\ log' = log
  BY StepsAreLocal DEF OnlyFor
<1>2. /\ pump[g].at \in {"idle", "stopped"} /\ journal' = journal /\ follower' = follower
      /\ copy' = copy /\ members' = members
  BY DEF IntoParts
<1>3. pump'[g] = NoPump /\ sent'[g] = {}
  BY <1>0 DEF IntoParts, Unlinked, IInv, SourceOK
<1>4. PumpOK(g)' /\ pump'[g].at # "journaled"
  BY <1>0, <1>1, <1>2, <1>3 DEF PumpOK, Pumps, NoPump
<1>5. FollowerOK(g)'
  BY <1>1, <1>2, <1>4, PumpMoves
<1>6. QED
  BY <1>1, <1>2, <1>5, QuietStep

LEMMA JoinStep == ASSUME IInv, NEW g \in Followers, NEW m, Join(g, m), OnlyFor(g) PROVE IInv'
<1>0. /\ pump[g] = [at |-> pump[g].at, member |-> pump[g].member, session |-> pump[g].session,
                     answer |-> pump[g].answer]
      /\ DOMAIN pump = Followers /\ PumpOK(g)
  BY PumpRecord
<1>1. log' = log
  BY DEF OnlyFor
<1>2. /\ follower[g].up /\ pump[g].at = "none" /\ journal' = journal /\ sent' = sent /\ copy' = copy
  BY DEF Join
<1>3. FollowerOK(g) /\ DOMAIN follower = Followers
  BY DEF IInv, SourceOK
<1>4. CASE Joinable(g) /\ m \in DOMAIN members
  <2> DEFINE session == [holder |-> g, id |-> admin]
             n == Applied(follower[g])
  <2>1. /\ members' = [members EXCEPT ![m] = [session |-> session, consumed_seq |-> n]]
        /\ pump' = [pump EXCEPT ![g] = [NoPump EXCEPT !.at = "idle", !.member = m, !.session = session]]
        /\ follower' = follower
    BY <1>4 DEF Join
  <2>2. session # None /\ session.holder = g
    BY ReplicationAssumption DEF IInv, SourceOK
  <2>3. ~follower[g].poisoned
    BY <1>4 DEF Joinable
  <2>4. copy[g] = follower[g].content
    BY <1>2, <1>3, <2>3 DEF FollowerOK, InStep, JournalOK
  <2>5. n = Len(copy[g]) /\ n \in Nat
    BY <1>3, <2>4, CopyTyped DEF FollowerOK, Applied
  <2> HIDE DEF session, n
  <2>6. ASSUME NEW x \in DOMAIN members' PROVE MemberOK(x)'
    <3>1. x \in DOMAIN members /\ MemberOK(x)
      BY <2>1 DEF IInv
    <3>2. CASE x = m
      <4>1. members'[x] = [session |-> session, consumed_seq |-> n] /\ n <= Len(copy[g])
        BY <1>4, <2>1, <2>5, <3>2
      <4>2. QED
        BY <1>2, <2>2, <2>5, <4>1 DEF MemberOK
    <3>3. CASE x # m
      <4>1. members'[x] = members[x]
        BY <2>1, <3>1, <3>3
      <4>2. QED
        BY <1>2, <3>1, <4>1 DEF MemberOK
    <3>4. QED
      BY <3>2, <3>3
  <2>7. PumpOK(g)' /\ pump'[g].at # "journaled"
    <3>1. pump'[g] = [at |-> "idle", member |-> m, session |-> session, answer |-> None]
      BY <1>0, <2>1 DEF NoPump
    <3>2. QED
      BY <1>0, <1>1, <1>2, <2>1, <2>2, <2>3, <3>1 DEF PumpOK, Pumps
  <2>8. FollowerOK(g)'
    BY <1>2, <2>1, <2>7, PumpMoves
  <2>9. QED
    BY <2>6, <2>8, OthersKeep
<1>5. CASE ~(Joinable(g) /\ m \in DOMAIN members)
  <2>1. follower' = [follower EXCEPT ![g] = Down] /\ members' = members /\ pump' = pump
    BY <1>5 DEF Join
  <2>2. follower'[g] = Down
    BY <1>3, <2>1
  <2>3. IsState(Down) /\ ~Down.up
    BY DEF Down, IsState
  <2>4. JournalOK(g)'
    BY <1>1, <1>2, <1>3 DEF FollowerOK, JournalOK
  <2>5. /\ pump'[g] = [at |-> pump'[g].at, member |-> pump'[g].member,
                       session |-> pump'[g].session, answer |-> pump'[g].answer]
        /\ pump'[g].at \in {"none", "stopped"} /\ sent'[g] \subseteq sent[g]
    BY <1>0, <1>2, <2>1
  <2>6. IsState(follower'[g]) /\ ~follower'[g].up
    BY <2>2, <2>3
  <2>7. FollowerOK(g)'
    BY <2>4, <2>5, <2>6, Ends
  <2>8. QED
    BY <1>2, <2>1, <2>7, QuietStep
<1>6. QED
  BY <1>4, <1>5

(* The follower refuses an answer, or an error poisons it.                 *)
LEMMA PoisonStep ==
  ASSUME IInv, NEW g \in Followers,
         IngestRefused(g) \/ HistoryMismatch(g) \/ IngestWriteFails(g) \/ IngestSyncFails(g)
  PROVE  IInv'
<1>0. /\ pump[g] = [at |-> pump[g].at, member |-> pump[g].member, session |-> pump[g].session,
                     answer |-> pump[g].answer]
      /\ DOMAIN pump = Followers /\ PumpOK(g)
  BY PumpRecord
<1>1. OnlyFor(g) /\ log' = log
  BY StepsAreLocal DEF Pumping, Failing, OnlyFor
<1>2. /\ follower' = [follower EXCEPT ![g].poisoned = TRUE] /\ pump' = Stopped(g)
      /\ copy' = copy /\ members' = members /\ sent' = sent
  BY DEF IngestRefused, HistoryMismatch, IngestWriteFails, IngestSyncFails, Poisoned
<1>3. FollowerOK(g) /\ DOMAIN follower = Followers /\ DOMAIN journal = Followers
  BY DEF IInv, SourceOK
<1>4. JournalOK(g)'
  <2>1. CASE journal' = journal
    BY <1>1, <1>2, <1>3, <2>1 DEF FollowerOK, JournalOK
  <2>2. CASE IngestWriteFails(g)
    <3>1. PICK torn \in BOOLEAN : journal' = [journal EXCEPT ![g].torn = torn]
      BY <2>2 DEF IngestWriteFails
    <3>2. journal[g] = [entries |-> journal[g].entries, synced |-> journal[g].synced, torn |-> journal[g].torn]
      BY <1>3 DEF FollowerOK, JournalOK
    <3>3. journal'[g] = [entries |-> journal[g].entries, synced |-> journal[g].synced, torn |-> torn]
      BY <1>3, <3>1, <3>2
    <3>4. QED
      BY <1>1, <1>2, <1>3, <3>3 DEF FollowerOK, JournalOK
  <2>3. QED
    BY <2>1, <2>2 DEF IngestRefused, HistoryMismatch, IngestSyncFails
<1>5. IsState(follower'[g]) /\ follower'[g].poisoned
  <2>1. follower[g] = [up |-> follower[g].up, content |-> follower[g].content, view |-> follower[g].view,
                       tick |-> follower[g].tick, poisoned |-> follower[g].poisoned]
        /\ follower[g].content \in Seq(RecordSet) /\ follower[g].up \in BOOLEAN
    BY <1>0 DEF PumpOK, IsState
  <2>2. PICK yes \in BOOLEAN : yes
    OBVIOUS
  <2>3. follower'[g] = [up |-> follower[g].up, content |-> follower[g].content, view |-> follower[g].view,
                        tick |-> follower[g].tick, poisoned |-> yes]
    BY <1>2, <1>3, <2>1, <2>2
  <2>4. QED
    BY <2>1, <2>2, <2>3 DEF IsState
<1>6. /\ pump'[g] = [at |-> pump'[g].at, member |-> pump'[g].member,
                     session |-> pump'[g].session, answer |-> pump'[g].answer]
      /\ pump'[g].at \in {"none", "stopped"} /\ sent'[g] \subseteq sent[g]
  BY <1>0, <1>2, StoppedIs
<1>7. FollowerOK(g)'
  BY <1>1, <1>4, <1>5, <1>6, Ends
<1>8. QED
  BY <1>1, <1>2, <1>7, QuietStep

(* The process or its machine ends, or the handle is dropped.              *)
LEMMA CrashStep ==
  ASSUME IInv, NEW g \in Followers, FollowerCrash(g) \/ PowerLoss(g) \/ DropPoisoned(g)
  PROVE  IInv'
<1>0. /\ pump[g] = [at |-> pump[g].at, member |-> pump[g].member, session |-> pump[g].session,
                     answer |-> pump[g].answer]
      /\ DOMAIN pump = Followers /\ PumpOK(g)
  BY PumpRecord
<1>1. OnlyFor(g) /\ log' = log
  BY StepsAreLocal DEF Failing, OnlyFor
<1>2. /\ follower' = [follower EXCEPT ![g] = Down] /\ pump' = [pump EXCEPT ![g] = NoPump]
      /\ sent' = [sent EXCEPT ![g] = {}] /\ copy' = copy /\ members' = members
  BY DEF FollowerCrash, PowerLoss, DropPoisoned, Unlinked
<1>3. /\ FollowerOK(g) /\ DOMAIN follower = Followers /\ DOMAIN journal = Followers
      /\ DOMAIN sent = Followers
  BY DEF IInv, SourceOK
<1>4. JournalOK(g)'
  <2>1. CASE journal' = journal
    BY <1>1, <1>2, <1>3, <2>1 DEF FollowerOK, JournalOK
  <2>2. CASE PowerLoss(g)
    <3> DEFINE entries == journal[g].entries
               synced == journal[g].synced
    <3>1. PICK kept \in synced .. Len(entries), torn \in BOOLEAN :
            journal' = [journal EXCEPT ![g].entries = SubSeq(entries, 1, kept), ![g].torn = torn]
      BY <2>2 DEF PowerLoss
    <3>2. /\ journal[g] = [entries |-> entries, synced |-> synced, torn |-> journal[g].torn]
          /\ entries \in Seq(Ranges) /\ synced \in 0 .. Len(entries)
          /\ Healthy(log, entries) /\ Growing(entries) /\ copy[g] = Replays(entries)[synced].content
      BY <1>3 DEF FollowerOK, JournalOK
    <3> DEFINE cut == SubSeq(entries, 1, kept)
    <3>3. journal'[g] = [entries |-> cut, synced |-> synced, torn |-> torn]
      BY <1>3, <3>1, <3>2
    <3>4. kept \in 0 .. Len(entries) /\ synced \in 0 .. kept
      BY <3>2
    <3> HIDE DEF entries, synced
    <3>5. /\ cut \in Seq(Ranges) /\ Len(cut) = kept /\ Healthy(log, cut) /\ Growing(cut)
          /\ \A n \in 0 .. kept : Replays(cut)[n] = Replays(entries)[n]
      BY <3>2, <3>4, CutIsHealthy
    <3> HIDE DEF cut
    <3>6. copy'[g] = Replays(cut)[synced].content
      BY <1>2, <3>2, <3>4, <3>5
    <3>7. QED
      BY <1>1, <3>3, <3>4, <3>5, <3>6 DEF JournalOK
  <2>3. QED
    BY <2>1, <2>2 DEF FollowerCrash, DropPoisoned
<1>5. IsState(follower'[g]) /\ ~follower'[g].up
  <2>1. follower'[g] = Down
    BY <1>2, <1>3
  <2>2. IsState(Down) /\ ~Down.up
    BY DEF Down, IsState
  <2>3. QED
    BY <2>1, <2>2
<1>6. /\ pump'[g] = [at |-> pump'[g].at, member |-> pump'[g].member,
                     session |-> pump'[g].session, answer |-> pump'[g].answer]
      /\ pump'[g].at \in {"none", "stopped"} /\ sent'[g] \subseteq sent[g]
  BY <1>0, <1>2, <1>3 DEF NoPump
<1>7. FollowerOK(g)'
  BY <1>1, <1>4, <1>5, <1>6, Ends
<1>8. QED
  BY <1>1, <1>2, <1>7, QuietStep

(* An answer is written to the journal.                                    *)
LEMMA IngestWriteStep == ASSUME IInv, NEW g \in Followers, IngestWrite(g) PROVE IInv'
<1>0. /\ pump[g] = [at |-> pump[g].at, member |-> pump[g].member, session |-> pump[g].session,
                     answer |-> pump[g].answer]
      /\ DOMAIN pump = Followers /\ PumpOK(g)
  BY PumpRecord
<1>1. OnlyFor(g) /\ log' = log
  BY StepsAreLocal DEF Pumping, OnlyFor
<1> DEFINE entries == journal[g].entries
           synced == journal[g].synced
           r == pump[g].answer
           more == Append(entries, r)
<1>2. /\ pump[g].at = "answered" /\ Valid(r, follower[g]) /\ follower' = follower /\ sent' = sent
      /\ copy' = copy /\ members' = members
      /\ journal' = [journal EXCEPT ![g].entries = more] /\ pump' = [pump EXCEPT ![g].at = "journaled"]
  BY DEF IngestWrite, Journals, Answer
<1>3. FollowerOK(g) /\ DOMAIN journal = Followers /\ LogOK(log)
  BY DEF IInv, SourceOK
<1>4. /\ journal[g] = [entries |-> entries, synced |-> synced, torn |-> journal[g].torn]
      /\ entries \in Seq(Ranges) /\ synced \in 0 .. Len(entries)
      /\ Healthy(log, entries) /\ Growing(entries) /\ copy[g] = Replays(entries)[synced].content
  BY <1>3 DEF FollowerOK, JournalOK
<1>5. Genuine(log, r) /\ Records(log) \in Seq(RecordSet)
  BY <1>0, <1>2, <1>3, LogTyped DEF PumpOK
<1>6. synced = Len(entries) /\ Replays(entries)[Len(entries)] = follower[g]
  BY <1>2, UnderWay
<1>7. journal'[g] = [entries |-> more, synced |-> synced, torn |-> journal[g].torn]
  BY <1>2, <1>3, <1>4
<1>8. pump'[g] = [at |-> "journaled", member |-> pump[g].member, session |-> pump[g].session, answer |-> r]
  BY <1>0, <1>2
<1> HIDE DEF entries, synced, r
<1>9. Valid(r, Replays(entries)[Len(entries)]) /\ ~Replays(entries)[Len(entries)].poisoned
  BY <1>2, <1>6, UnderWay
<1>10. /\ more \in Seq(Ranges) /\ Len(more) = Len(entries) + 1
       /\ more[Len(entries) + 1] = r /\ Healthy(log, more) /\ Growing(more)
       /\ \A n \in 0 .. Len(entries) : Replays(more)[n] = Replays(entries)[n]
  BY <1>4, <1>5, <1>9, WriteIsHealthy
<1> HIDE DEF more
<1>11. Len(entries) \in Nat /\ Len(entries) \in 0 .. Len(entries) /\ synced \in 0 .. Len(more)
  BY <1>4, <1>6, <1>10
<1>12. JournalOK(g)'
  <2>1. copy'[g] = Replays(more)[synced].content
    BY <1>2, <1>4, <1>6, <1>10, <1>11
  <2>2. QED
    BY <1>1, <1>7, <1>10, <1>11, <2>1 DEF JournalOK
<1>13. PumpOK(g)'
  BY <1>0, <1>1, <1>2, <1>5, <1>8 DEF PumpOK, Pumps
<1>14. InStep(g)'
  <2>1. Replays(more)[synced] = follower[g]
    BY <1>6, <1>10, <1>11
  <2>2. Len(more) = synced + 1 /\ more[Len(more)] = r
    BY <1>6, <1>10
  <2>3. QED
    BY <1>2, <1>7, <1>8, <2>1, <2>2 DEF InStep
<1>15. FollowerOK(g)'
  BY <1>12, <1>13, <1>14 DEF FollowerOK
<1>16. QED
  BY <1>1, <1>2, <1>15, QuietStep

(* The copy of follower g may grow, and no other copy changes.             *)
LEMMA CopyGrows ==
  ASSUME IInv, NEW g \in Followers, OnlyFor(g), FollowerOK(g)', members' = members,
         IsPrefix(copy[g], copy'[g])
  PROVE  IInv' /\ \A f \in Followers : IsPrefix(copy[f], copy'[f])
<1>1. \A f \in Followers : copy[f] \in Seq(RecordSet)
  BY CopyTyped DEF IInv, FollowerOK
<1>2. copy'[g] \in Seq(RecordSet)
  BY DEF FollowerOK, JournalOK, Healthy, IsState
<1>3. ASSUME NEW f \in Followers
      PROVE  IsPrefix(copy[f], copy'[f]) /\ Len(copy[f]) <= Len(copy'[f]) /\ Len(copy'[f]) \in Nat
  <2>1. CASE f = g
    <3>1. Len(copy[g]) <= Len(copy'[g])
      BY <1>1, <1>2, PrefixIs
    <3>2. QED
      BY <1>2, <2>1, <3>1
  <2>2. CASE f # g
    <3>1. copy'[f] = copy[f]
      BY <2>2 DEF OnlyFor
    <3>2. IsPrefix(copy[f], copy[f]) /\ Len(copy[f]) \in Nat
      BY <1>1, PrefixOfSelf
    <3>3. QED
      BY <3>1, <3>2
  <2>3. QED
    BY <2>1, <2>2
<1>4. \A m \in DOMAIN members' : MemberOK(m)'
  BY <1>3, MembersKeep
<1>5. IInv'
  BY <1>4, OthersKeep
<1>6. QED
  BY <1>3, <1>5

(* The entry under way is made durable and applied.                        *)
LEMMA IngestSyncStep ==
  ASSUME IInv, NEW g \in Followers, IngestSync(g)
  PROVE  IInv' /\ \A f \in Followers : IsPrefix(copy[f], copy'[f])
<1>0. /\ pump[g] = [at |-> pump[g].at, member |-> pump[g].member, session |-> pump[g].session,
                     answer |-> pump[g].answer]
      /\ DOMAIN pump = Followers /\ PumpOK(g)
  BY PumpRecord
<1>1. OnlyFor(g) /\ log' = log
  BY StepsAreLocal DEF Pumping, OnlyFor
<1> DEFINE entries == journal[g].entries
           synced == journal[g].synced
           r == pump[g].answer
           st == follower[g]
           N == Len(entries)
<1>2. /\ pump[g].at = "journaled" /\ sent' = sent /\ members' = members
      /\ journal' = [journal EXCEPT ![g].synced = N]
      /\ follower' = [follower EXCEPT ![g] = Executed(r, st)]
      /\ copy' = [copy EXCEPT ![g] = Executed(r, st).content]
      /\ pump' = IF Executed(r, st).poisoned THEN Stopped(g)
                 ELSE [pump EXCEPT ![g].at = "idle", ![g].answer = None]
  BY DEF IngestSync, Answer
<1>3. /\ FollowerOK(g) /\ DOMAIN journal = Followers /\ DOMAIN follower = Followers
      /\ DOMAIN copy = Followers
  BY DEF IInv, SourceOK
<1>4. /\ journal[g] = [entries |-> entries, synced |-> synced, torn |-> journal[g].torn]
      /\ entries \in Seq(Ranges) /\ synced \in 0 .. N
      /\ Healthy(log, entries) /\ Growing(entries) /\ copy[g] = Replays(entries)[synced].content
  BY <1>3 DEF FollowerOK, JournalOK
<1>5. /\ N = synced + 1 /\ entries[N] = r /\ Replays(entries)[synced] = st /\ Valid(r, st)
      /\ st.up /\ ~st.poisoned
  BY <1>0, <1>2, <1>3 DEF FollowerOK, InStep, PumpOK
<1>6. journal'[g] = [entries |-> entries, synced |-> N, torn |-> journal[g].torn]
  BY <1>2, <1>3, <1>4
<1>7. ~Executed(r, st).poisoned =>
        pump'[g] = [at |-> "idle", member |-> pump[g].member, session |-> pump[g].session, answer |-> None]
  BY <1>0, <1>2
<1>8. follower'[g] = Executed(r, st) /\ copy'[g] = Executed(r, st).content
  BY <1>2, <1>3
<1> HIDE DEF entries, synced, r, st, N
<1>9. N \in Nat /\ N \in 0 .. N /\ synced \in 0 .. N /\ N \in 1 .. N /\ N - 1 = synced
  BY <1>4, <1>5 DEF N
<1>10. Replays(entries)[N] = Executed(r, st)
  <2>1. \A n \in 1 .. N : Replays(entries)[n] = Interpreted(Replays(entries)[n - 1], entries[n])
    BY <1>9, ReplaysUnfolds DEF N
  <2>2. Replays(entries)[N] = Interpreted(st, r)
    BY <1>5, <1>9, <2>1
  <2>3. QED
    BY <1>5, <2>2 DEF Interpreted
<1>11. IsState(Executed(r, st)) /\ Executed(r, st).up
  BY <1>4, <1>9, <1>10 DEF Healthy, N
<1>12. IsPrefix(copy[g], copy'[g])
  BY <1>4, <1>8, <1>9, <1>10 DEF Growing, N
<1>13. JournalOK(g)'
  BY <1>1, <1>4, <1>6, <1>8, <1>9, <1>10 DEF JournalOK, N
<1>14. ASSUME ~Executed(r, st).poisoned PROVE FollowerOK(g)'
  <2>1. PumpOK(g)'
    <3>1. pump[g].session # None /\ pump[g].session.holder = g /\ \A answer \in sent[g] : Genuine(log, answer)
      BY <1>0, <1>2 DEF PumpOK
    <3>2. QED
      BY <1>1, <1>2, <1>7, <1>8, <1>11, <1>14, <3>1 DEF PumpOK, Pumps
  <2>2. InStep(g)'
    BY <1>6, <1>7, <1>8, <1>10, <1>14 DEF InStep, N
  <2>3. QED
    BY <1>13, <2>1, <2>2 DEF FollowerOK
<1>15. ASSUME Executed(r, st).poisoned PROVE FollowerOK(g)'
  <2>1. pump' = Stopped(g)
    BY <1>2, <1>15
  <2>2. /\ pump'[g] = [at |-> pump'[g].at, member |-> pump'[g].member,
                       session |-> pump'[g].session, answer |-> pump'[g].answer]
        /\ pump'[g].at = "stopped"
    BY <1>0, <2>1, StoppedIs
  <2>3. IsState(follower'[g]) /\ follower'[g].poisoned
    BY <1>8, <1>11, <1>15
  <2>4. QED
    BY <1>1, <1>2, <1>13, <2>2, <2>3, Ends
<1>16. FollowerOK(g)'
  BY <1>14, <1>15
<1>17. QED
  BY <1>1, <1>2, <1>12, <1>16, CopyGrows

(* A journal is opened: what is in the file is synchronized and replayed.  *)
LEMMA OpenStep ==
  ASSUME IInv, NEW g \in Followers, Open(g)
  PROVE  IInv' /\ \A f \in Followers : IsPrefix(copy[f], copy'[f])
<1>0. /\ pump[g] = [at |-> pump[g].at, member |-> pump[g].member, session |-> pump[g].session,
                     answer |-> pump[g].answer]
      /\ DOMAIN pump = Followers /\ PumpOK(g)
  BY PumpRecord
<1>1. OnlyFor(g) /\ log' = log
  BY StepsAreLocal DEF OnlyFor
<1> DEFINE entries == journal[g].entries
           synced == journal[g].synced
           N == Len(entries)
           st == Replays(entries)[N]
<1>2. /\ ~follower[g].up /\ ~st.poisoned /\ sent' = sent /\ members' = members /\ pump' = pump
      /\ journal' = [journal EXCEPT ![g].synced = N, ![g].torn = FALSE]
      /\ follower' = [follower EXCEPT ![g] = st]
      /\ copy' = [copy EXCEPT ![g] = st.content]
  BY DEF Open, Replayed
<1>3. /\ FollowerOK(g) /\ DOMAIN journal = Followers /\ DOMAIN follower = Followers
      /\ DOMAIN copy = Followers
  BY DEF IInv, SourceOK
<1>4. /\ journal[g] = [entries |-> entries, synced |-> synced, torn |-> journal[g].torn]
      /\ entries \in Seq(Ranges) /\ synced \in 0 .. N
      /\ Healthy(log, entries) /\ Growing(entries) /\ copy[g] = Replays(entries)[synced].content
  BY <1>3 DEF FollowerOK, JournalOK
<1>5. PICK no : journal'[g] = [entries |-> entries, synced |-> N, torn |-> no]
  BY <1>2, <1>3, <1>4
<1>6. follower'[g] = st /\ copy'[g] = st.content
  BY <1>2, <1>3
<1>7. pump[g].at \in {"none", "stopped"}
  BY <1>0, <1>2 DEF PumpOK
<1>8. N \in Nat /\ N \in 0 .. N
  BY <1>4
<1>9. IsState(st) /\ st.up /\ ~st.poisoned /\ IsPrefix(copy[g], st.content)
  BY <1>2, <1>4, <1>8 DEF Healthy, Growing
<1> HIDE DEF st
<1>10. JournalOK(g)'
  <2>1. copy'[g] = Replays(entries)[N].content
    BY <1>6 DEF st
  <2> HIDE DEF entries
  <2>2. QED
    BY <1>1, <1>4, <1>5, <1>8, <2>1 DEF JournalOK
<1>11. PumpOK(g)'
  BY <1>0, <1>1, <1>2, <1>6, <1>7, <1>9 DEF PumpOK
<1>12. InStep(g)'
  <2>1. Replays(entries)[N] = follower'[g] /\ pump'[g].at # "journaled"
    BY <1>2, <1>6, <1>7 DEF st
  <2> HIDE DEF entries
  <2>2. QED
    BY <1>5, <2>1 DEF InStep
<1>13. FollowerOK(g)'
  BY <1>10, <1>11, <1>12 DEF FollowerOK
<1>14. IsPrefix(copy[g], copy'[g])
  BY <1>6, <1>9
<1>15. QED
  BY <1>1, <1>2, <1>13, <1>14, CopyGrows

(* A journal refuses to open: what is in the file is synchronized.         *)
LEMMA OpenRefusedStep ==
  ASSUME IInv, NEW g \in Followers, OpenRefused(g)
  PROVE  IInv' /\ \A f \in Followers : IsPrefix(copy[f], copy'[f])
<1>0. /\ pump[g] = [at |-> pump[g].at, member |-> pump[g].member, session |-> pump[g].session,
                     answer |-> pump[g].answer]
      /\ DOMAIN pump = Followers /\ PumpOK(g)
  BY PumpRecord
<1>1. OnlyFor(g) /\ log' = log
  BY StepsAreLocal DEF OnlyFor
<1> DEFINE entries == journal[g].entries
           synced == journal[g].synced
           N == Len(entries)
           st == Replays(entries)[N]
<1>2. /\ ~follower[g].up /\ sent' = sent /\ members' = members /\ pump' = pump /\ follower' = follower
      /\ journal' = [journal EXCEPT ![g].synced = N]
      /\ copy' = [copy EXCEPT ![g] = st.content]
  BY DEF OpenRefused, Replayed
<1>3. FollowerOK(g) /\ DOMAIN journal = Followers /\ DOMAIN copy = Followers
  BY DEF IInv, SourceOK
<1>4. /\ journal[g] = [entries |-> entries, synced |-> synced, torn |-> journal[g].torn]
      /\ entries \in Seq(Ranges) /\ synced \in 0 .. N
      /\ Healthy(log, entries) /\ Growing(entries) /\ copy[g] = Replays(entries)[synced].content
  BY <1>3 DEF FollowerOK, JournalOK
<1>5. journal'[g] = [entries |-> entries, synced |-> N, torn |-> journal[g].torn]
  BY <1>2, <1>3, <1>4
<1>6. copy'[g] = st.content
  BY <1>2, <1>3
<1>7. pump[g].at \in {"none", "stopped"}
  BY <1>0, <1>2 DEF PumpOK
<1>8. N \in Nat /\ N \in 0 .. N
  BY <1>4
<1>9. IsPrefix(copy[g], copy'[g])
  BY <1>4, <1>6, <1>8 DEF Growing
<1> HIDE DEF st
<1>10. JournalOK(g)'
  <2>1. copy'[g] = Replays(entries)[N].content
    BY <1>6 DEF st
  <2> HIDE DEF entries
  <2>2. QED
    BY <1>1, <1>4, <1>5, <1>8, <2>1 DEF JournalOK
<1>11. FollowerOK(g)'
  <2>1. IsState(follower'[g]) /\ ~follower'[g].up
    BY <1>0, <1>2 DEF PumpOK
  <2>2. QED
    BY <1>0, <1>1, <1>2, <1>7, <1>10, <2>1, Ends
<1>12. QED
  BY <1>1, <1>2, <1>9, <1>11, CopyGrows

-----------------------------------------------------------------------------
(* All steps.                                                              *)

LEMMA EmptyIs == IsState(Empty) /\ Empty.up /\ ~Empty.poisoned /\ Empty.content = << >>
<1>1. PICK yes \in BOOLEAN, no \in BOOLEAN : yes /\ ~no
  OBVIOUS
<1>2. Empty = [up |-> yes, content |-> << >>, view |-> 0, tick |-> 0, poisoned |-> no]
  <2>1. Down = [up |-> no, content |-> << >>, view |-> 0, tick |-> 0, poisoned |-> no]
    BY <1>1 DEF Down
  <2>2. Empty = [Down EXCEPT !.up = yes]
    BY <1>1 DEF Empty
  <2>3. QED
    BY <2>1, <2>2
<1>3. << >> \in Seq(RecordSet)
  OBVIOUS
<1>4. QED
  BY <1>1, <1>2, <1>3 DEF IsState

LEMMA EmptyJournal ==
  ASSUME NEW l, Records(l) \in Seq(RecordSet)
  PROVE  Healthy(l, << >>) /\ Growing(<< >>) /\ Replays(<< >>)[0] = Empty
<1>1. Len(<< >>) = 0 /\ 0 .. 0 = {0}
  OBVIOUS
<1>2. Replays(<< >>)[0] = Empty
  BY <1>1, ReplaysUnfolds
<1>3. IsState(Empty) /\ Empty.up /\ ~Empty.poisoned /\ Empty.content = << >>
  BY EmptyIs
<1>4. << >> \in Seq(RecordSet) /\ IsPrefix(<< >>, Records(l)) /\ IsPrefix(<< >>, << >>)
  <2>1. << >> \in Seq(RecordSet) /\ Len(Records(l)) \in Nat
    OBVIOUS
  <2>2. Len(<< >>) <= Len(Records(l)) /\ \A i \in 1 .. Len(<< >>) : << >>[i] = Records(l)[i]
    BY <1>1, <2>1
  <2>3. QED
    BY <2>1, <2>2, PrefixIs, PrefixOfSelf
<1>5. Healthy(l, << >>)
  BY <1>1, <1>2, <1>3, <1>4 DEF Healthy
<1>6. Growing(<< >>)
  BY <1>1, <1>2, <1>3, <1>4 DEF Growing
<1>7. QED
  BY <1>2, <1>5, <1>6

LEMMA InitialRecords == Records(<<Schema(0, 0)>>) = << >> /\ LogOK(<<Schema(0, 0)>>)
<1> DEFINE c == Schema(0, 0)
           l == <<c>>
<1>1. c \in Frames /\ ~IsMutations(c) /\ IsSchema(c)
  BY ReplicationAssumption DEF Schema, Control, Frames, IsMutations, IsSchema
<1> HIDE DEF c
<1>2. l \in Seq(Frames) /\ Len(l) = 1 /\ l[1] = c
  BY <1>1
<1> HIDE DEF l
<1>3. Records(l) = << >>
  <2>1. Len(l) \in Nat /\ 1 \in 1 .. Len(l) /\ 1 - 1 = 0
    BY <1>2
  <2>2. RecordsIn(l, 0)[0] = << >>
    BY <2>1, RecordsInUnfolds
  <2>3. \A n \in 1 .. Len(l) : ~IsMutations(l[n]) => RecordsIn(l, 0)[n] = RecordsIn(l, 0)[n - 1]
    BY <2>1, RecordsInUnfolds
  <2>4. RecordsIn(l, 0)[1] = << >>
    BY <1>1, <1>2, <2>1, <2>2, <2>3
  <2>5. QED
    BY <1>2, <2>4 DEF Records, RecordsSince
<1>4. LogOK(l)
  <2>1. \A i \in 1 .. Len(l) : ~IsMutations(l[i])
    BY <1>1, <1>2
  <2>2. Len(Records(l)) = 0
    BY <1>3
  <2>3. QED
    BY <1>1, <1>2, <2>1, <2>2 DEF LogOK
<1>5. QED
  BY <1>3, <1>4 DEF l, c

LEMMA InitIInv == Init => IInv
<1> SUFFICES ASSUME Init PROVE IInv
  OBVIOUS
<1>1. LogOK(log) /\ Records(log) \in Seq(RecordSet)
  BY InitialRecords, LogTyped DEF Init
<1>2. SourceOK
  BY ReplicationAssumption DEF Init, SourceOK
<1>3. ASSUME NEW f \in Followers PROVE FollowerOK(f)
  <2>1. /\ journal[f].entries = << >> /\ journal[f].synced = 0 /\ follower[f] = Empty
        /\ pump[f] = NoPump /\ sent[f] = {} /\ copy[f] = << >>
        /\ journal[f] = [entries |-> journal[f].entries, synced |-> journal[f].synced, torn |-> journal[f].torn]
    BY DEF Init
  <2>2. Healthy(log, << >>) /\ Growing(<< >>) /\ Replays(<< >>)[0] = Empty
    BY <1>1, EmptyJournal
  <2>3. IsState(Empty) /\ Empty.content = << >>
    BY EmptyIs
  <2>4. << >> \in Seq(Ranges) /\ Len(<< >>) = 0 /\ 0 \in 0 .. 0
    OBVIOUS
  <2>5. JournalOK(f)
    BY <2>1, <2>2, <2>3, <2>4 DEF JournalOK
  <2>6. PumpOK(f)
    BY <2>1, <2>3 DEF PumpOK, Pumps, NoPump
  <2>7. InStep(f)
    BY <2>1, <2>2, <2>4 DEF InStep, NoPump
  <2>8. QED
    BY <2>5, <2>6, <2>7 DEF FollowerOK
<1>4. \A m \in DOMAIN members : MemberOK(m)
  BY DEF Init, MemberOK
<1>5. QED
  BY <1>1, <1>2, <1>3, <1>4 DEF IInv

(* The steps by what they do to the published records and the copies.      *)
LEMMA StepIInv ==
  ASSUME IInv, [Next]_vars
  PROVE  /\ IInv'
         /\ \/ /\ copy' = copy /\ IsPrefix(Records(log), Records(log'))
               /\ Len(Records(log')) = Len(Records(log)) + 1
            \/ copy' = copy /\ Records(log') = Records(log)
            \/ Records(log') = Records(log) /\ \A f \in Followers : IsPrefix(copy[f], copy'[f])
<1>1. CASE UNCHANGED vars
  <2>1. /\ UNCHANGED <<log, source, members, journal, follower, pump, sent, copy, admin, faults>>
    BY <1>1 DEF vars, sourceVars, countVars
  <2>2. SourceOK'
    BY <2>1 DEF IInv, SourceOK
  <2>3. IInv'
    BY <2>1, <2>2, MembershipStep
  <2>4. QED
    BY <2>1, <2>3
<1>2. CASE Commit
  BY <1>2, CommitStep
<1>3. CASE Checkpoint
  BY <1>3, CheckpointStep
<1>4. CASE Bump
  BY <1>4, BumpStep DEF Bump
<1>5. CASE SourceRestart
  BY <1>5, SourceRestartStep DEF SourceRestart
<1>6. ASSUME NEW m \in Members, AddMember(m) \/ RemoveMember(m)
      PROVE  IInv' /\ copy' = copy /\ Records(log') = Records(log)
  BY <1>6, AddMemberStep, RemoveMemberStep DEF AddMember, RemoveMember
<1>7. ASSUME NEW f \in Followers, NEW m \in Members, Join(f, m)
      PROVE  IInv' /\ copy' = copy /\ Records(log') = Records(log)
  <2>1. OnlyFor(f)
    BY <1>7, StepsAreLocal
  <2>2. QED
    BY <1>7, <2>1, JoinStep DEF Join, OnlyFor
<1>8. ASSUME NEW f \in Followers, IngestSync(f)
      PROVE  IInv' /\ Records(log') = Records(log) /\ \A g \in Followers : IsPrefix(copy[g], copy'[g])
  BY <1>8, IngestSyncStep DEF IngestSync, sourceVars
<1>9. ASSUME NEW f \in Followers, Open(f)
      PROVE  IInv' /\ Records(log') = Records(log) /\ \A g \in Followers : IsPrefix(copy[g], copy'[g])
  BY <1>9, OpenStep DEF Open, sourceVars
<1>10. ASSUME NEW f \in Followers, FetchCheck(f) \/ FetchRead(f) \/ FetchConfirm(f)
       PROVE  IInv' /\ copy' = copy /\ Records(log') = Records(log)
  BY <1>10, FetchCheckStep, FetchReadStep, FetchConfirmStep DEF FetchCheck, FetchRead, FetchConfirm, sourceVars
<1>11. ASSUME NEW f \in Followers, Lost(f) \/ DeliverLate(f) \/ IngestNothing(f)
       PROVE  IInv' /\ copy' = copy /\ Records(log') = Records(log)
  BY <1>11, LinkStep DEF Lost, DeliverLate, IngestNothing, sourceVars
<1>12. ASSUME NEW f \in Followers,
              IngestRefused(f) \/ HistoryMismatch(f) \/ IngestWriteFails(f) \/ IngestSyncFails(f)
       PROVE  IInv' /\ copy' = copy /\ Records(log') = Records(log)
  BY <1>12, PoisonStep DEF IngestRefused, HistoryMismatch, IngestWriteFails, IngestSyncFails, sourceVars
<1>13. ASSUME NEW f \in Followers, FollowerCrash(f) \/ PowerLoss(f) \/ DropPoisoned(f)
       PROVE  IInv' /\ copy' = copy /\ Records(log') = Records(log)
  BY <1>13, CrashStep DEF FollowerCrash, PowerLoss, DropPoisoned, sourceVars
<1>14. ASSUME NEW f \in Followers, IntoParts(f) \/ IngestWrite(f)
       PROVE  IInv' /\ copy' = copy /\ Records(log') = Records(log)
  BY <1>14, IntoPartsStep, IngestWriteStep DEF IntoParts, IngestWrite, sourceVars
<1>15. ASSUME NEW f \in Followers, OpenRefused(f)
       PROVE  IInv' /\ Records(log') = Records(log) /\ \A g \in Followers : IsPrefix(copy[g], copy'[g])
  BY <1>15, OpenRefusedStep DEF OpenRefused, sourceVars
<1>16. QED
  BY <1>1, <1>2, <1>3, <1>4, <1>5, <1>6, <1>7, <1>8, <1>9, <1>10, <1>11, <1>12, <1>13, <1>14, <1>15
  DEF Next, Pumping, Failing

-----------------------------------------------------------------------------
(* The source's log, every journal, every pump and every member's progress *)
(* stay consistent with each other through losses, late answers, crashes   *)
(* and rejoins.                                                            *)
THEOREM Invariance == Spec => []IInv
<1>1. QED
  BY InitIInv, StepIInv, PTL DEF Spec

(* Every step of replication is a step of LogShipping: the source          *)
(* publishes a record behind the others, or copies grow by whole records   *)
(* of the log, or neither changes.  Late and repeated answers, power       *)
(* losses, failed writes and rejoins never shorten a copy and never put    *)
(* anything into it that is not the next record of the log.                *)
THEOREM Refinement == Spec => ImplementsLogShipping
<1>1. Init => Shipping!Init
  BY InitialRecords DEF Init, Shipping!Init
<1>2. ASSUME IInv, [Next]_vars
      PROVE  [Shipping!Next]_<<Records(log), copy>>
  <2>1. IInv' /\ LogOK(log) /\ LogOK(log')
    BY <1>2, StepIInv DEF IInv
  <2>2. Records(log) \in Seq(RecordSet) /\ Records(log') \in Seq(RecordSet)
    BY <2>1, LogTyped
  <2>3. CASE /\ copy' = copy /\ IsPrefix(Records(log), Records(log'))
             /\ Len(Records(log')) = Len(Records(log)) + 1
    <3>1. SubSeq(Records(log), 1, Len(Records(log))) = Records(log)
      BY <2>2
    <3>2. SubSeq(Records(log'), 1, Len(Records(log))) = Records(log)
      BY <2>3, <3>1 DEF IsPrefix
    <3>3. QED
      BY <2>3, <3>2 DEF Shipping!Next, Shipping!Publish
  <2>4. CASE copy' = copy /\ Records(log') = Records(log)
    BY <2>4
  <2>5. CASE Records(log') = Records(log) /\ \A f \in Followers : IsPrefix(copy[f], copy'[f])
    <3>1. \A f \in Followers : IsPrefix(copy'[f], Records(log'))
      BY <2>1 DEF IInv, FollowerOK, JournalOK, Healthy
    <3>2. \A f \in Followers : IsPrefix(copy[f], copy'[f]) /\ IsPrefix(copy'[f], Records(log))
      BY <2>5, <3>1
    <3>3. \A s, t : IsPrefix(s, t) = Shipping!IsPrefix(s, t)
      BY DEF IsPrefix, Shipping!IsPrefix
    <3>4. Shipping!Ship
      BY <2>5, <3>2, <3>3 DEF Shipping!Ship
    <3>5. QED
      BY <3>4 DEF Shipping!Next
  <2>6. QED
    BY <1>2, <2>3, <2>4, <2>5, StepIInv
<1>3. QED
  BY <1>1, <1>2, Invariance, PTL DEF Spec, ImplementsLogShipping, Shipping!Spec

(* The progress a member has reported, and with it the cutoff retention    *)
(* works with, is never beyond the records its follower keeps through a    *)
(* power loss.                                                             *)
THEOREM ConsumedStaysDurable == Spec => []ConsumedIsDurable
<1>1. IInv => ConsumedIsDurable
  <2> SUFFICES ASSUME IInv, NEW m \in DOMAIN members
               PROVE  /\ members[m].session = None => members[m].consumed_seq = 0
                      /\ members[m].session # None =>
                           /\ members[m].consumed_seq <= Len(copy[members[m].session.holder])
                           /\ CandidateCutoff(DurableSeq) <= Len(copy[members[m].session.holder])
    BY DEF ConsumedIsDurable
  <2>1. MemberOK(m)
    BY DEF IInv
  <2>2. CASE members[m].session = None
    BY <2>1, <2>2 DEF MemberOK
  <2>3. CASE members[m].session # None
    <3> DEFINE h == members[m].session.holder
               S == {DurableSeq, DurableSeq} \cup {members[n].consumed_seq : n \in DOMAIN members}
    <3>1. h \in Followers /\ members[m].consumed_seq \in Nat /\ members[m].consumed_seq <= Len(copy[h])
      BY <2>1, <2>3 DEF MemberOK
    <3>2. Len(copy[h]) \in Nat
      BY <3>1, CopyTyped DEF IInv, FollowerOK
    <3>3. S \subseteq Nat /\ S # {} /\ members[m].consumed_seq \in S
      <4>1. DurableSeq \in Nat
        BY LogTyped DEF IInv, DurableSeq
      <4>2. \A n \in DOMAIN members : members[n].consumed_seq \in Nat
        BY DEF IInv, MemberOK
      <4>3. QED
        BY <4>1, <4>2
    <3> HIDE DEF S
    <3>4. Min(S) \in Nat /\ Min(S) <= members[m].consumed_seq
      BY <3>3, MinIs
    <3>5. CandidateCutoff(DurableSeq) = Min(S)
      BY DEF CandidateCutoff, S
    <3>6. CandidateCutoff(DurableSeq) <= Len(copy[h])
      BY <3>1, <3>2, <3>4, <3>5
    <3>7. QED
      BY <2>3, <3>1, <3>6
  <2>4. QED
    BY <2>2, <2>3
<1>2. QED
  BY <1>1, Invariance, PTL

(* Whenever its process or machine ends, a journal refuses to open at a    *)
(* record of the source's log that does not apply, with all records before *)
(* it replayed, and for no other reason.  It keeps all that read_at ever   *)
(* showed, and between two ingestions it gives back the state of a healthy *)
(* follower.                                                               *)
THEOREM JournalIsTheFollower == Spec => []JournalRebuildsFollower
<1>1. IInv => JournalRebuildsFollower
  <2> SUFFICES ASSUME IInv, NEW f \in Followers
               PROVE  /\ Replayed(journal[f].entries).poisoned =>
                           /\ Applied(Replayed(journal[f].entries)) < DurableSeq
                           /\ ~Records(log)[Applied(Replayed(journal[f].entries)) + 1].applies
                      /\ Durably(f).content = copy[f]
                      /\ \A seq \in 0 .. MaxCommits : CanReadAt(f, seq) =>
                           /\ seq < Len(copy[f])
                           /\ follower[f].content[seq + 1] = copy[f][seq + 1]
                      /\ follower[f].up =>
                           \/ follower[f].poisoned
                           \/ pump[f].at = "journaled"
                           \/ Replayed(journal[f].entries) = follower[f]
    BY DEF JournalRebuildsFollower
  <2> DEFINE entries == journal[f].entries
             synced == journal[f].synced
             cut == SubSeq(entries, 1, synced)
  <2>1. FollowerOK(f)
    BY DEF IInv
  <2>2. /\ entries \in Seq(Ranges) /\ synced \in 0 .. Len(entries)
        /\ Healthy(log, entries) /\ Growing(entries) /\ copy[f] = Replays(entries)[synced].content
    BY <2>1 DEF FollowerOK, JournalOK
  <2>3. /\ (follower[f].up /\ ~follower[f].poisoned /\ pump[f].at # "journaled" =>
             synced = Len(entries) /\ Replays(entries)[Len(entries)] = follower[f])
        /\ (pump[f].at = "journaled" => Replays(entries)[synced] = follower[f])
    BY <2>1 DEF FollowerOK, InStep
  <2>4. Durably(f) = Replays(cut)[Len(cut)]
    BY DEF Durably, Replayed
  <2> HIDE DEF entries, synced
  <2>5. Len(cut) = synced /\ \A n \in 0 .. synced : Replays(cut)[n] = Replays(entries)[n]
    BY <2>2, CutIsHealthy
  <2>6. Len(entries) \in 0 .. Len(entries) /\ synced \in 0 .. synced
    BY <2>2
  <2>7. Durably(f).content = copy[f]
    BY <2>2, <2>4, <2>5, <2>6
  <2>8. Replayed(entries).poisoned =>
          /\ Applied(Replayed(entries)) < DurableSeq
          /\ ~Records(log)[Applied(Replayed(entries)) + 1].applies
    BY <2>2, <2>6 DEF Healthy, AtFailure, Replayed, Applied, DurableSeq
  <2>9. CASE follower[f].up /\ ~follower[f].poisoned
    <3>1. follower[f].content = copy[f]
      BY <2>2, <2>3, <2>9
    <3>2. \A seq \in 0 .. MaxCommits : CanReadAt(f, seq) =>
            seq < Len(copy[f]) /\ follower[f].content[seq + 1] = copy[f][seq + 1]
      BY <3>1 DEF CanReadAt, Applied
    <3>3. pump[f].at = "journaled" \/ Replayed(entries) = follower[f]
      BY <2>3, <2>9 DEF Replayed
    <3>4. QED
      BY <2>7, <2>8, <3>2, <3>3 DEF entries
  <2>10. CASE ~(follower[f].up /\ ~follower[f].poisoned)
    BY <2>7, <2>8, <2>10 DEF CanReadAt, entries
  <2>11. QED
    BY <2>9, <2>10
<1>2. QED
  BY <1>1, Invariance, PTL
==============================================================================

----------------------------- MODULE LogShipping -----------------------------
(***************************************************************************)
(* What replication promises (docs of replication.rs, replicated.rs and    *)
(* wal/ingest.rs): a source publishes records one after the other, every   *)
(* follower keeps a copy that is a prefix of what was published, and a     *)
(* copy never shrinks.                                                     *)
(***************************************************************************)
EXTENDS Naturals, SequencesExt

CONSTANT Followers

VARIABLES
  published,  \* the records the source has published, in order
  copy        \* copy[f]: the records follower f has durably, in order

Init ==
  /\ published = << >>
  /\ copy = [f \in Followers |-> << >>]

Publish ==
  /\ Len(published') = Len(published) + 1
  /\ SubSeq(published', 1, Len(published)) = published
  /\ UNCHANGED copy

(* Copies grow, by whole records that are published.                       *)
Ship ==
  /\ \A f \in Followers :
       IsPrefix(copy[f], copy'[f]) /\ IsPrefix(copy'[f], published)
  /\ UNCHANGED published

Next == Publish \/ Ship

Spec == Init /\ [][Next]_<<published, copy>>
=============================================================================

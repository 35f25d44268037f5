----------------------------- MODULE MCSlabPool -----------------------------
(***************************************************************************)
(* Two pools for model checking.  In one, chunks of two slots serve a      *)
(* class with two blocks a chunk and one with a single block, and the      *)
(* window ends in less than a chunk.  In the other, chunks and units are   *)
(* single slots, so that runs and chunks compete for a window of a few     *)
(* units.                                                                  *)
(***************************************************************************)
EXTENDS SlabPool

TwoClasses == <<1, 2>>
OneClass == <<1>>
ThreadSymmetry == Permutations(Threads)
=============================================================================

----------------------------- MODULE MCLsmStore -----------------------------
(***************************************************************************)
(* Archetypes of one and two components.                                   *)
(***************************************************************************)
EXTENDS LsmStore

CONSTANTS a, b

OneAndBoth == <<{a}, {a, b}>>
TwoSingles == <<{a}, {b}, {a, b}>>
=============================================================================

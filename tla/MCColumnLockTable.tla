-------------------------- MODULE MCColumnLockTable --------------------------
(* Three transactions over two components and two archetypes: shared and    *)
(* exclusive holders meet, a request spans archetypes, and a rollback has   *)
(* something to give back.                                                  *)
EXTENDS ColumnLockTable
CONSTANTS t1, t2, t3, a1, a2, c1, c2

MCTxs == {t1, t2, t3}
MCArchetypes == {a1, a2}
MCComponents == {c1, c2}
MCAccessSets ==
  { [reads |-> {c1}, writes |-> {}],
    [reads |-> {c1, c2}, writes |-> {}],
    [reads |-> {c1}, writes |-> {c1}],
    [reads |-> {c1}, writes |-> {c2}] }
=============================================================================

--------------------------- MODULE MCTransactions ---------------------------
(* Two transactions, each begun by either strategy, over one entity.       *)
(* Transactions are interchangeable, and so are the values.                 *)
EXTENDS Transactions, TLC
CONSTANTS t1, t2, e1, c1, c2, v1, v2

MCTxs == {t1, t2}
MCEntities == {e1}
MCComponents == {c1, c2}
MCSymmetry == 
  {f @@ g : f \in Permutations({t1, t2}), g \in Permutations({v1, v2})}
MCBundles == {{c1}, {c1, c2}}
MCRemovable == {c2}
MCFirst == {c1}
MCValues == {v1, v2}
MCAccessSets ==
  { [reads |-> {}, writes |-> {c1}, despawns |-> FALSE],
    [reads |-> {c1}, writes |-> {c2}, despawns |-> FALSE],
    [reads |-> {}, writes |-> {}, despawns |-> TRUE] }
=============================================================================

------------------------- MODULE MCChangeDetection -------------------------
(* Two slots of two generations, the key with two values and a tag, which  *)
(* the plans' bundles use as a reference to an entity.                     *)
EXTENDS ChangeDetection, TLC
CONSTANTS T, U, S

MCComponents == {T, U}
Tagged == {T :> 1, U :> 1, (T :> 1) @@ (U :> 1)}
References == {U :> [idx |-> s, gen |-> 0] : s \in Slots}
Referring == {T :> 1} \cup References \cup {(T :> 1) @@ r : r \in References}

MCMaxCalls == [query |-> 5, writer |-> 4, index |-> 5, sparse |-> 4, plan |-> 4]

Scan(required) == [required |-> required, changed |-> {}, preds |-> << >>, joins |-> << >>,
                   er |-> << >>, indexes |-> {}]
Pred(kind, vals, sel) == [comp |-> T, kind |-> kind, vals |-> vals, sel |-> sel]
Join(kind, required, changed) == [kind |-> kind, required |-> required, changed |-> changed]
Through(kind, required, changed) ==
  [kind |-> kind, comp |-> U, required |-> required, changed |-> changed]

ChangedKey == [Scan({T}) EXCEPT !.changed = {T}]

MCPlans ==
  {Scan({}),
   \* drivers: an equality; a range a hash index cannot answer; the better of two
   [Scan({T}) EXCEPT !.preds = <<Pred("eq", {1}, 1)>>, !.indexes = {"btree"}],
   [Scan({T}) EXCEPT !.preds = <<Pred("range", {1, 2}, 1)>>, !.indexes = {"hash"}],
   [ChangedKey EXCEPT !.preds = <<Pred("eq", {2}, 2), Pred("range", {1, 2}, 1)>>,
                      !.indexes = {"hash", "btree"}],
   \* filters: columns only, and mixed
   [Scan({}) EXCEPT !.preds = <<Pred("column", {2}, 1)>>,
                    !.joins = <<Join("inner", {U}, {})>>],
   [Scan({T}) EXCEPT !.preds = <<Pred("column", {1}, 1), Pred("custom", {1, 2}, 1)>>],
   \* joins on the entity itself
   [Scan({U}) EXCEPT !.joins = <<Join("left", {T}, {}), Join("inner", {U}, {U})>>],
   [Scan({}) EXCEPT !.preds = <<Pred("eq", {1}, 1)>>, !.indexes = {"hash"},
                    !.joins = <<Join("inner", {U}, {T})>>],
   \* joins through the reference
   [Scan({U}) EXCEPT !.er = <<Through("inner", {T}, {})>>],
   [ChangedKey EXCEPT !.preds = <<Pred("eq", {1}, 1)>>, !.indexes = {"btree"},
                      !.er = <<Through("inner", {T}, {T})>>],
   [Scan({T}) EXCEPT !.er = <<Through("left", {U}, {}), Through("inner", {U}, {})>>]}

SlotSymmetry == Permutations(Slots)
=============================================================================

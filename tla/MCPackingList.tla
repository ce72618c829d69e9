--------------------------- MODULE MCPackingList ---------------------------
(* A purchase order of two items, one of them renamed and given codes while *)
(* a list is imported: it has a row that is ambiguous as long as the item   *)
(* has its old name, one without a quantity, and one whose code contradicts *)
(* its name.                                                                *)
EXTENDS PackingList, TLC

CONSTANTS cap, box, A, B, e1, e2, f1

MCCatalogs ==
    LET crate == [material |-> B, sku |-> None, name |-> {"box", "red"}] IN
    { [x \in {cap, box} |-> IF x = box THEN crate
         ELSE [material |-> None, sku |-> None, name |-> {"cap", "red"}]],
      [x \in {cap, box} |-> IF x = box THEN crate
         ELSE [material |-> A, sku |-> B, name |-> {"box"}]] }

Row(material, sku, name, qty) == [material |-> material, sku |-> sku, name |-> name, qty |-> qty]

MCTexts ==
    { <<Row(None, None, {"red"}, 1), Row(None, B, {"box"}, 0), Row(B, None, {"cap"}, 1)>> }

MCItemOf == [l \in LineIds |-> cap]

Interchangeable == Permutations(Editors)

MCCounts ==
    { <<>>,
      <<[item |-> cap, declared |-> 1, counted |-> None],
        [item |-> cap, declared |-> 1, counted |-> 1]>>,
      <<[item |-> cap, declared |-> 1, counted |-> None],
        [item |-> box, declared |-> 2, counted |-> 1]>> }
=============================================================================

--------------------------- MODULE MCMaterialCode ---------------------------
(* Two items that may share a SKU, a form and a push.                      *)
EXTENDS MaterialCode, TLC

CONSTANTS i1, i2

Interchangeable == Permutations(Items)
=============================================================================

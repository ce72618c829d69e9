---------------------------- MODULE MCReceiveV2 ----------------------------
(* One receive of up to two cases and three lines; lines 1 and 2 carry the  *)
(* same item.                                                              *)
EXTENDS ReceiveV2, TLC

CONSTANTS e1, e2, f1, f2, r1, g1

MCItemOf == [l \in LineIds |-> IF l <= 2 THEN "cap" ELSE "box"]

Interchangeable == Permutations(Editors) \cup Permutations(Finalizers)
=============================================================================

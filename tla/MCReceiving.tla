---------------------------- MODULE MCReceiving ----------------------------
(* A form posted twice, a typed box, and a line counted short.              *)
EXTENDS Receiving, TLC

MCFills == {<<1, Uncounted>>, <<2, 1>>}
MCTyped == {<<1, Uncounted>>}
Interchangeable == Permutations(Posts)
=============================================================================

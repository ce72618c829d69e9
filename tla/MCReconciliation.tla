------------------------- MODULE MCReconciliation -------------------------
(* One item, an adjustment and its reversal, the push of the adjustment and *)
(* a retry of each.                                                         *)
EXTENDS Reconciliation, TLC

CONSTANTS adj, rev, s1, t1, t2, cap

MCOriginalOf == [a \in Reversals |-> adj]
MCTarget     == [s \in Sessions |-> IF s = t2 THEN rev ELSE adj]
MCItemOf     == [a \in Adjs |-> cap]
MCDelta      == [a \in Adjs |-> IF a = rev THEN -1 ELSE 1]
=============================================================================

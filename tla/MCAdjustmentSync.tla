------------------------- MODULE MCAdjustmentSync -------------------------
(* One adjustment, its reversal, and requests that race about both. *)
EXTENDS AdjustmentSync, TLC

CONSTANTS adj, rev, s1, t1, t2, t3

MCOriginalOf == [a \in Reversals |-> adj]
MCTarget     == [s \in Sessions |-> IF s = t3 THEN rev ELSE adj]
=============================================================================

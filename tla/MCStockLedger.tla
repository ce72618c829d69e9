--------------------------- MODULE MCStockLedger ---------------------------
(* Instances of StockLedger for TLC: two items, one lot pushed twice. *)
EXTENDS StockLedger, TLC

CONSTANTS i1, i2, a1, a2, r1, c1, d1, d2, l1

Adjust(i, m, q) == [item |-> i, mode |-> m, qty |-> q]
Count(i, q)     == Adjust(i, "SET_QUANTITY", q)
Consume(i, q)   == Adjust(i, "DECREASE", q)
Receive(i, q)   == Adjust(i, "INCREASE", q)

BodyOf(r) ==
    CASE r = a1 -> {<<Adjust(i1, "DECREASE", 2)>>}
      [] r = a2 -> {<<Count(i2, 0)>>, <<Adjust(i1, "INCREASE", 2)>>}
      [] r = c1 -> {<<Count(i1, 3), Count(i2, 0)>>, <<Count(i1, 3), Count(i1, 1)>>}
      [] r = d1 -> {<<Consume(i2, 2), Consume(i1, 1)>>}
      [] r = d2 -> {<<Consume(i2, -1), Consume(i1, 1), Consume(i1, 1)>>}
      [] r = r1 -> {<<Receive(i1, -2)>>}

MCBodies == [r \in Reqs |-> BodyOf(r)]
MCOpening  == [i \in Items |-> IF i = i2 THEN {-1} ELSE {1}]
MCUpstream == [i \in Items |-> IF i = i2 THEN {-1} ELSE {}]
MCLotOf  == [d \in Deliveries |-> l1]
=============================================================================

--------------------------- MODULE MC_StockLedger ---------------------------
(* A small instance of StockLedger for TLC. *)
EXTENDS StockLedger, TLC

CONSTANTS p1, p2

OneAndNone == [p \in Products |-> IF p = p1 THEN 1 ELSE 0]

Add(p, n) == [product |-> p, how |-> "add", amount |-> n]

\* A sale of both products, receipts of one product twice and of two products in either order, a
\* purchase that takes back what it brought, an adjustment down and a count.
SmallOrders ==
  {[kind |-> "sale", items |-> <<Add(p1, -1), Add(p2, -1)>>],
   [kind |-> "receive", items |-> <<Add(p1, 1), Add(p1, 1)>>],
   [kind |-> "receive", items |-> <<Add(p2, 1), Add(p1, 1)>>],
   [kind |-> "purchase", items |-> <<Add(p1, -1), Add(p2, -1)>>],
   [kind |-> "adjustment", items |-> <<Add(p2, -1)>>],
   [kind |-> "manual_edit", items |-> <<[product |-> p1, how |-> "set", amount |-> 1]>>]}

Symmetry == Permutations(Clerks)
=============================================================================

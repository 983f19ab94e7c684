-------------------------- MODULE MC_VendorOrders ---------------------------
(* A small instance of VendorOrders for TLC. *)
EXTENDS VendorOrders, TLC

CONSTANTS i1, i2

TwoLines == {(i1 :> 2) @@ (i2 :> 1)}

\* No line, a part of the first, both completely, and none of the second: for an
\* update, its removal.
SomeQuantities ==
  {[i \in {} |-> 0], i1 :> 1, (i1 :> 2) @@ (i2 :> 1), i2 :> 0}

Symmetry == Permutations(Clerks)
=============================================================================

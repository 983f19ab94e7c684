-------------------------- MODULE MC_CartCheckout ---------------------------
(* Small instances of CartCheckout for TLC. *)
EXTENDS CartCheckout, TLC

CONSTANTS p1, p2, c1, c2, c3

OneEach == [p \in Products |-> 1]
TwoEach == [p \in Products |-> 2]
ThreeAndNone == [p \in Products |-> IF p = p1 THEN 3 ELSE 0]

AllRequests == Request

\* Everything but updateQuantity, which waits as addBarcode does.
BasketRequests == {r \in Request : r.op # "updateQuantity"}

\* Each cart buys its own product, so that checkouts do not wait for one
\* another before they insert: c1 buys p1, the others p2.
OwnProduct ==
  {r \in Request :
     r.op \in {"addBarcode", "updateQuantity"} =>
       r.op = "addBarcode" /\ r.product = IF r.cart = c1 THEN p1 ELSE p2}

\* c1 rings up both products and changes the quantity of p1; c2 rings up p1.
CounterRequests ==
  {r \in Request :
     /\ r.op = "addBarcode" =>
          <<r.cart, r.product, r.quantity>> \in {<<c1, p1, 1>>, <<c1, p2, 1>>, <<c2, p1, 2>>}
     /\ r.op = "updateQuantity" => r.cart = c1 /\ r.product = p1}

\* Terminals are interchangeable.
Symmetry == Permutations(Terminals)
=============================================================================

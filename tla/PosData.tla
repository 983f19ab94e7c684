------------------------------ MODULE PosData -------------------------------
(***************************************************************************)
(* The rows a sale touches and the pure checks made on them, shared by the *)
(* atomic specification of the sales desk (SalesDesk) and the one with row *)
(* locks (CartCheckout).                                                   *)
(*                                                                         *)
(* A cart's items are a sequence of lines in createdAt order: that is the  *)
(* order in which preparePayment and checkout lock the products.           *)
(***************************************************************************)
EXTENDS Integers, Sequences

CONSTANTS
  Carts,          \* carts that may be started
  Products,       \* products of the store
  Customers,      \* customers linked to the store
  Prices,         \* unit prices a line can carry
  RetailPrice,    \* Product.unitRetail when the line is added
  Quantities,     \* quantities a request can ask for
  InitialStock,   \* Product.currentQuantity before the first sale
  Tracked,        \* products with trackInventory
  AllowNegative,  \* products with allowNegativeInventory
  NoCustomer      \* Cart.customerId is null

\* Product.allowNegativeInventory only matters for tracked products.
Guarded == Tracked \ AllowNegative

ASSUME PosDataAssumption ==
  /\ RetailPrice \in Prices
  /\ Quantities \subseteq Nat \ {0}
  /\ Tracked \subseteq Products
  /\ InitialStock \in [Products -> Int]
  /\ \A p \in Guarded : InitialStock[p] >= 0
  /\ NoCustomer \notin Customers

\* CartItem: one row per product of the cart, @@unique([cartId, productId]).
Line == [product : Products, quantity : Nat \ {0}, price : Prices]

\* "none": the cart was not started yet.  The code never writes "cancelled".
CartStatus == {"none", "active", "ready_for_payment", "completed"}

\* InventoryLog row with actionType sale.
SaleLog == [cart : Carts, quantityBefore : Int, quantityAfter : Int]

LineOf(ls, p) == CHOOSE i \in DOMAIN ls : ls[i].product = p

ProductsIn(ls) == {ls[i].product : i \in DOMAIN ls}

QuantityIn(ls, p) ==
  IF p \in ProductsIn(ls) THEN ls[LineOf(ls, p)].quantity ELSE 0

\* Mutant: the comparison is off by one.
SufficientOffByOne(p, quantity, onHand) == p \in Guarded => quantity <= onHand + 1

\* validateProductQuantity, and the same test in validateCheckoutCart.
Sufficient(p, quantity, onHand) == p \in Guarded => quantity <= onHand

\* The line addBarcode writes: an increment, or a new item at retail price.
AddedLine(ls, p, quantity) ==
  IF p \in ProductsIn(ls)
    THEN [ls[LineOf(ls, p)] EXCEPT !.quantity = @ + quantity]
    ELSE [product |-> p, quantity |-> quantity, price |-> RetailPrice]

\* The line updateQuantity writes.
UpdatedLine(ls, p, quantity) ==
  [ls[LineOf(ls, p)] EXCEPT !.quantity = quantity]

\* The cart's items once `line` is written: in place, or as the newest item.
WithLine(ls, line) ==
  IF line.product \in ProductsIn(ls)
    THEN [ls EXCEPT ![LineOf(ls, line.product)] = line]
    ELSE Append(ls, line)

\* Product.currentQuantity after the tracked lines were decremented.
StockAfter(onHand, ls) ==
  [p \in Products |->
     IF p \in Tracked THEN onHand[p] - QuantityIn(ls, p) ELSE onHand[p]]

\* The sale log rows of one transaction, appended to each product's log.
LogAfter(log, onHand, ls, c) ==
  [p \in Products |->
     IF p \in Tracked \cap ProductsIn(ls)
       THEN Append(log[p], [cart           |-> c,
                            quantityBefore |-> onHand[p],
                            quantityAfter  |-> onHand[p] - QuantityIn(ls, p)])
       ELSE log[p]]
=============================================================================

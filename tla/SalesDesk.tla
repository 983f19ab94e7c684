----------------------------- MODULE SalesDesk ------------------------------
(***************************************************************************)
(* What the cart and checkout endpoints promise: each request that answers *)
(* 2xx is one indivisible step on the committed rows.  CartCheckout, where *)
(* requests interleave statement by statement under row locks, implements  *)
(* this specification.                                                     *)
(***************************************************************************)
EXTENDS PosData

VARIABLES
  stock,         \* Product.currentQuantity
  isActive,      \* Product.isActive
  status,        \* Cart.status
  items,         \* CartItem rows of each cart, oldest first
  customer,      \* Cart.customerId
  transactions,  \* Transaction rows, each with its items and its Receipt
  inventoryLog   \* InventoryLog rows of each product, oldest first

deskVars ==
  <<stock, isActive, status, items, customer, transactions, inventoryLog>>

DeskInit ==
  /\ stock = InitialStock
  /\ isActive = [p \in Products |-> TRUE]
  /\ status = [c \in Carts |-> "none"]
  /\ items = [c \in Carts |-> <<>>]
  /\ customer = [c \in Carts |-> NoCustomer]
  /\ transactions = {}
  /\ inventoryLog = [p \in Products |-> <<>>]

\* Every line can be served from the stock as it is now.
Servable(ls) ==
  \A i \in DOMAIN ls :
     /\ isActive[ls[i].product]
     /\ Sufficient(ls[i].product, ls[i].quantity, stock[ls[i].product])

Start(c) ==
  /\ status[c] = "none"
  /\ status' = [status EXCEPT ![c] = "active"]
  /\ UNCHANGED <<stock, isActive, items, customer, transactions, inventoryLog>>

WriteLine(c, line) ==
  /\ status[c] = "active"
  /\ Servable(<<line>>)
  /\ items' = [items EXCEPT ![c] = WithLine(@, line)]
  /\ UNCHANGED <<stock, isActive, status, customer, transactions, inventoryLog>>

AddBarcode(c, p, quantity) == WriteLine(c, AddedLine(items[c], p, quantity))

UpdateQuantity(c, p, quantity) ==
  /\ p \in ProductsIn(items[c])
  /\ WriteLine(c, UpdatedLine(items[c], p, quantity))

PriceOverride(c, p, price) ==
  /\ status[c] = "active"
  /\ p \in ProductsIn(items[c])
  /\ items' = [items EXCEPT ![c] =
                 WithLine(@, [@[LineOf(@, p)] EXCEPT !.price = price])]
  /\ UNCHANGED <<stock, isActive, status, customer, transactions, inventoryLog>>

AttachCustomer(c, cu) ==
  /\ status[c] = "active"
  /\ customer' = [customer EXCEPT ![c] = cu]
  /\ UNCHANGED <<stock, isActive, status, items, transactions, inventoryLog>>

PreparePayment(c) ==
  /\ status[c] = "active"
  /\ items[c] # <<>>
  /\ Servable(items[c])
  /\ status' = [status EXCEPT ![c] = "ready_for_payment"]
  /\ UNCHANGED <<stock, isActive, items, customer, transactions, inventoryLog>>

\* A sale: stock, log, transaction, receipt and cart change together, and the
\* receipt number, whichever one is chosen, was never used before.
Checkout(c, receipt, createdOn) ==
  /\ status[c] = "ready_for_payment"
  /\ items[c] # <<>>
  /\ Servable(items[c])
  /\ \A x \in transactions : x.receipt # receipt
  /\ stock' = StockAfter(stock, items[c])
  /\ inventoryLog' = LogAfter(inventoryLog, stock, items[c], c)
  /\ transactions' = transactions \cup
       {[cart |-> c, lines |-> items[c], customer |-> customer[c],
         receipt |-> receipt, createdOn |-> createdOn]}
  /\ status' = [status EXCEPT ![c] = "completed"]
  /\ UNCHANGED <<isActive, items, customer>>

RemoveProduct(p) ==
  /\ isActive' = [isActive EXCEPT ![p] = FALSE]
  /\ UNCHANGED <<stock, status, items, customer, transactions, inventoryLog>>

DeskNext ==
  \/ \E c \in Carts :
       \/ Start(c)
       \/ \E p \in Products, q \in Quantities :
            AddBarcode(c, p, q) \/ UpdateQuantity(c, p, q)
       \/ \E p \in Products, price \in Prices : PriceOverride(c, p, price)
       \/ \E cu \in Customers : AttachCustomer(c, cu)
       \/ PreparePayment(c)
       \/ \E x \in transactions' : Checkout(c, x.receipt, x.createdOn)
  \/ \E p \in Products : RemoveProduct(p)

DeskSpec == DeskInit /\ [][DeskNext]_deskVars
=============================================================================

---------------------------- MODULE StockLedger -----------------------------
(***************************************************************************)
(* Everything that writes Product.currentQuantity and its InventoryLog     *)
(* rows, one request per clerk, on PostgreSQL at READ COMMITTED.           *)
(*                                                                         *)
(* A sale reads a product under its row lock.  Receiving, adjusting and    *)
(* posting a purchase read it without a lock, compute the new quantity in  *)
(* the server and write it back; a manual edit even reads it before its    *)
(* transaction begins.  The UPDATE takes the row lock, which is kept until *)
(* the commit: what a request has written is `staged` until then.          *)
(***************************************************************************)
EXTENDS Integers, Sequences

CONSTANTS
  Clerks,         \* each has at most one request in flight
  Products,       \* active, tracked products of the store
  AllowNegative,  \* products with allowNegativeInventory
  InitialStock,   \* their quantities at the start
  Orders,         \* bound: the requests clerks make, a subset of Order
  MaxRows,        \* bound: log rows of one product
  NoOrder,        \* the clerk has no request in flight
  NoRead,         \* the item at hand was not read yet
  Unwritten       \* the request did not write, nor lock, the product

VARIABLES
  stock,     \* Product.currentQuantity                        (committed)
  log,       \* InventoryLog rows of each product, oldest first (committed)
  order,     \* the request a clerk made
  todo,      \* its items that are not written yet
  read,      \* the quantity it read for the item at hand
  staged,    \* the quantities it wrote, not committed yet
  rows,      \* the log rows it wrote for each product, not committed yet
  overtaken, \* clerks for whose item at hand the quantity changed since its read
  drifted    \* products written from an overtaken read

ledgerVars == <<stock, log, order, todo, read, staged, rows, overtaken, drifted>>
committed == <<stock, log, drifted>>

-----------------------------------------------------------------------------
(* Requests *)

\* Change a product's quantity by an amount, or set it.
Item == [product : Products, how : {"add", "set"}, amount : Int]

Kind == {"sale", "receive", "adjustment", "manual_edit", "purchase"}

Order == [kind : Kind, items : Seq(Item)]

Row == [kind : Kind, quantityBefore : Int, quantityAfter : Int]

\* A sale sells and a receipt brings at least one unit, a manual edit writes a
\* quantity of zero or more: requiredPositiveInt, requiredInt.
Fits(kind, item) ==
  /\ kind = "manual_edit" => item.how = "set" /\ item.amount >= 0
  /\ kind # "manual_edit" => item.how = "add"
  /\ kind = "sale" => item.amount < 0
  /\ kind = "receive" => item.amount > 0

ASSUME StockLedgerAssumption ==
  /\ AllowNegative \subseteq Products
  /\ InitialStock \in [Products -> Int]
  /\ \A p \in Products \ AllowNegative : InitialStock[p] >= 0
  /\ Orders \subseteq Order
  /\ \A o \in Orders : \A i \in DOMAIN o.items : Fits(o.kind, o.items[i])
  \* a cart has one row per product
  /\ \A o \in Orders : o.kind = "sale" =>
       \A i, j \in DOMAIN o.items : i # j => o.items[i].product # o.items[j].product
  /\ MaxRows \in Nat
  /\ NoOrder \notin Order
  /\ NoRead \notin Int
  /\ Unwritten \notin Int

Idle(k) == order[k] = NoOrder
Is(k, kind) == ~Idle(k) /\ order[k].kind = kind
AtHand(k) == Head(todo[k])

\* The UPDATE of another request holds the row.
Busy(k, p) == \E j \in Clerks \ {k} : staged[j][p] # Unwritten

\* Mutant: the committed quantity, whatever the request wrote itself.
CommittedView(k, p) == stock[p]

\* A SELECT sees the request's own writes and the committed ones of others.
View(k, p) == IF staged[k][p] # Unwritten THEN staged[k][p] ELSE stock[p]

\* Mutant: adjustments and purchases are not checked.
OnlySalesChecked(kind, p, after) == kind = "sale" /\ p \notin AllowNegative /\ after < 0

\* "Inventory cannot go below zero", "does not have enough inventory"
Rejected(kind, p, after) ==
  kind \in {"sale", "adjustment", "purchase"} /\ p \notin AllowNegative /\ after < 0

After(item, onHand) ==
  IF item.how = "add" THEN onHand + item.amount ELSE item.amount

\* Mutant: a manual edit is never logged.
EditsUnlogged(item, before) == item.how = "add"

\* dto.currentQuantity !== product.currentQuantity
Logged(item, before) == item.how = "set" => item.amount # before

-----------------------------------------------------------------------------
(* Steps of a request *)

Forget(k) ==
  /\ order' = [order EXCEPT ![k] = NoOrder]
  /\ todo' = [todo EXCEPT ![k] = <<>>]
  /\ read' = [read EXCEPT ![k] = NoRead]
  /\ staged' = [staged EXCEPT ![k] = [p \in Products |-> Unwritten]]
  /\ rows' = [rows EXCEPT ![k] = [p \in Products |-> <<>>]]

Begin(k, o) ==
  /\ Idle(k)
  /\ order' = [order EXCEPT ![k] = o]
  /\ todo' = [todo EXCEPT ![k] = o.items]
  /\ UNCHANGED <<committed, read, staged, rows, overtaken>>

\* Mutant: a sale reads as everybody else does.
ReadsUnderLock(k) == FALSE

\* SELECT ... FOR UPDATE
LocksFirst(k) == Is(k, "sale")

\* Read the product of the item at hand; a sale locks it first.
ReadItem(k) ==
  /\ todo[k] # <<>>
  /\ read[k] = NoRead
  /\ LET p == AtHand(k).product IN
     /\ read' = [read EXCEPT ![k] = View(k, p)]
     /\ IF LocksFirst(k)
          THEN ~Busy(k, p) /\ staged' = [staged EXCEPT ![k][p] = View(k, p)]
          ELSE staged' = staged
  /\ overtaken' = overtaken \ {k}
  /\ UNCHANGED <<committed, order, todo, rows>>

LogRow(k, after) ==
  [kind |-> order[k].kind, quantityBefore |-> read[k], quantityAfter |-> after]

\* Write the quantity computed from what was read, and its log row.
WriteItem(k) ==
  /\ todo[k] # <<>>
  /\ read[k] # NoRead
  /\ LET p == AtHand(k).product
         after == After(AtHand(k), read[k])
     IN /\ ~Busy(k, p)
        /\ ~Rejected(order[k].kind, p, after)
        /\ Len(log[p]) + Len(rows[k][p]) < MaxRows
        /\ staged' = [staged EXCEPT ![k][p] = after]
        /\ rows' = [rows EXCEPT ![k][p] =
                      IF Logged(AtHand(k), read[k])
                        THEN Append(@, LogRow(k, after))
                        ELSE @]
        /\ drifted' = IF k \in overtaken THEN drifted \cup {p} ELSE drifted
  /\ todo' = [todo EXCEPT ![k] = Tail(@)]
  /\ read' = [read EXCEPT ![k] = NoRead]
  /\ UNCHANGED <<stock, log, order, overtaken>>

\* The reads that this commit makes stale.
Overtakes(k) ==
  {j \in Clerks \ {k} :
     /\ todo[j] # <<>>
     /\ read[j] # NoRead
     /\ View(k, AtHand(j).product) # stock[AtHand(j).product]}

Commit(k) ==
  /\ ~Idle(k)
  /\ todo[k] = <<>>
  /\ stock' = [p \in Products |-> View(k, p)]
  /\ log' = [p \in Products |-> log[p] \o rows[k][p]]
  /\ overtaken' = (overtaken \cup Overtakes(k)) \ {k}
  /\ Forget(k)
  /\ UNCHANGED drifted

\* The error answers; a request the deadlock detector, a timeout or a crash ends.
Rollback(k) ==
  /\ ~Idle(k)
  /\ Forget(k)
  /\ overtaken' = overtaken \ {k}
  /\ UNCHANGED committed

-----------------------------------------------------------------------------
LedgerInit ==
  /\ stock = InitialStock
  /\ log = [p \in Products |-> <<>>]
  /\ order = [k \in Clerks |-> NoOrder]
  /\ todo = [k \in Clerks |-> <<>>]
  /\ read = [k \in Clerks |-> NoRead]
  /\ staged = [k \in Clerks |-> [p \in Products |-> Unwritten]]
  /\ rows = [k \in Clerks |-> [p \in Products |-> <<>>]]
  /\ overtaken = {}
  /\ drifted = {}

LedgerStep(k) == ReadItem(k) \/ WriteItem(k) \/ Commit(k) \/ Rollback(k)

LedgerNext ==
  \E k \in Clerks :
    \/ \E o \in Orders : Begin(k, o)
    \/ LedgerStep(k)

LedgerSpec == LedgerInit /\ [][LedgerNext]_ledgerVars

-----------------------------------------------------------------------------
(* Properties *)

\* The committed rows and the requests in flight are well formed.
LedgerTypeOK ==
  /\ stock \in [Products -> Int]
  /\ log \in [Products -> Seq(Row)]
  /\ order \in [Clerks -> Order \cup {NoOrder}]
  /\ todo \in [Clerks -> Seq(Item)]
  /\ read \in [Clerks -> Int \cup {NoRead}]
  /\ staged \in [Clerks -> [Products -> Int \cup {Unwritten}]]
  /\ rows \in [Clerks -> [Products -> Seq(Row)]]
  /\ overtaken \subseteq Clerks
  /\ drifted \subseteq Products

\* Where the row before row i, or the initial stock, left the quantity.
Before(p, i) == IF i = 1 THEN InitialStock[p] ELSE log[p][i - 1].quantityAfter

\* However the writers interleave, and although most of them write quantities
\* computed from a read that may be out of date, a product that may not go
\* negative never does.
NeverBelowZero == \A p \in Products \ AllowNegative : stock[p] >= 0

\* As long as no request wrote a product from an overtaken read, its log is the
\* history of its quantity: every row continues the one before it and the last
\* one ends at the quantity on hand.
LogExplainsUndriftedStock ==
  \A p \in Products \ drifted :
    /\ \A i \in DOMAIN log[p] : log[p][i].quantityBefore = Before(p, i)
    /\ stock[p] = Before(p, Len(log[p]) + 1)

\* The row of a sale tells what the sale did to the quantity on hand, also among
\* clerks who overtake each other: it starts at the quantity before the commit and
\* ends at the quantity after it.
SaleRowsTrue ==
  [][\A p \in Products : \A i \in DOMAIN log'[p] \ DOMAIN log[p] :
       log'[p][i].kind = "sale" =>
         /\ log'[p][i].quantityBefore = stock[p]
         /\ log'[p][i].quantityAfter = stock'[p]]_ledgerVars
=============================================================================

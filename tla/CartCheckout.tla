---------------------------- MODULE CartCheckout ----------------------------
(***************************************************************************)
(* CartService and TransactionService.checkout on PostgreSQL at READ       *)
(* COMMITTED.  A terminal has one HTTP request in flight; the request is a *)
(* database transaction that takes row locks with SELECT ... FOR UPDATE,   *)
(* first on its cart, then on each product in item order, and keeps them   *)
(* until it commits or rolls back.  A row that a transaction writes is     *)
(* locked by it and nobody else can see the new value before the commit,   *)
(* so all writes of a request are applied by its committing step.          *)
(*                                                                         *)
(* Reads are separate steps.  What a request read is kept in `lines` (the  *)
(* cart's items), `seen` (the quantities on hand) and `receipt` (the count *)
(* of today's transactions plus one) and used by later steps.              *)
(***************************************************************************)
EXTENDS PosData, FiniteSets

CONSTANTS
  Terminals,    \* each has at most one request in flight
  MaxAttempts,  \* checkout attempts on a receipt number conflict, 5 in the code
  Workload,     \* bound: the requests terminals submit, all of Request or fewer
  Removable,    \* bound: the products that may be removed from the catalogue
  LastDay,      \* bound: midnight passes at most this often
  MaxQuantity,  \* bound: no line is asked to grow past this quantity
  NoOne,        \* the row is not locked
  NoRequest,    \* the terminal waits for its user
  NoReceipt     \* no receipt number was generated yet

VARIABLES
  stock,         \* Product.currentQuantity                        (committed)
  isActive,      \* Product.isActive                               (committed)
  status,        \* Cart.status                                    (committed)
  items,         \* CartItem rows of each cart, oldest first       (committed)
  customer,      \* Cart.customerId                                (committed)
  transactions,  \* Transaction rows with their items and Receipt  (committed)
  inventoryLog,  \* InventoryLog rows of each product              (committed)
  today,         \* the calendar day of the servers' clock
  cartLock,      \* the terminal whose request holds the cart's row lock
  productLock,   \* the terminal whose request holds the product's row lock
  pc,            \* where each terminal's request stands
  request,       \* the request
  attempt,       \* checkout: number of the current attempt
  lines,         \* the lines the request must find servable
  seen,          \* quantities on hand read so far, one per locked product
  receipt,       \* checkout: the generated receipt number
  createdOn      \* checkout: the day of Transaction.createdAt

rows == <<stock, isActive, status, items, customer, transactions, inventoryLog>>
locks == <<cartLock, productLock>>
task == <<pc, request, attempt, lines, seen, receipt, createdOn>>
vars == <<rows, today, locks, task>>

-----------------------------------------------------------------------------
(* Requests *)

LineRequest ==
  [op : {"addBarcode", "updateQuantity"}, cart : Carts,
   product : Products, quantity : Quantities]

CartRequest == [op : {"preparePayment", "checkout"}, cart : Carts]

Request == LineRequest \cup CartRequest

ASSUME CartCheckoutAssumption ==
  /\ Workload \subseteq Request
  /\ Removable \subseteq Products
  /\ MaxAttempts \in Nat \ {0}
  /\ LastDay \in Nat
  /\ MaxQuantity \in Nat
  /\ NoOne \notin Terminals

Program == {"idle", "lockCart", "lockProducts", "insert", "inserting", "inserted"}

Cart(t) == request[t].cart
Is(t, op) == request[t].op = op

\* MaxQuantity bounds a line (in the database an INTEGER).
WithinBounds(r) ==
  r.op = "addBarcode" => QuantityIn(items[r.cart], r.product) + r.quantity <= MaxQuantity

\* Mutant: the status is not checked.
AnyCart(c) == status[c] # "none"

\* getActiveCartForUser
ActiveCart(c) == status[c] = "active"

\* Mutant: a completed cart is accepted again.
PayableOrPaid(c) == status[c] \in {"ready_for_payment", "completed"} /\ items[c] # <<>>

\* getCheckoutCart
PayableCart(c) == status[c] = "ready_for_payment" /\ items[c] # <<>>

\* The checks a request makes on its cart once it has the cart's lock.
Admissible(r) ==
  LET c == r.cart IN
  CASE r.op = "addBarcode"     -> ActiveCart(c) /\ isActive[r.product]
    [] r.op = "updateQuantity" -> ActiveCart(c) /\ r.product \in ProductsIn(items[c])
    [] r.op = "preparePayment" -> ActiveCart(c) /\ items[c] # <<>>
    [] r.op = "checkout"       -> PayableCart(c)

\* The line an addBarcode or updateQuantity writes.
NewLine(r) ==
  IF r.op = "addBarcode" THEN AddedLine(items[r.cart], r.product, r.quantity)
                         ELSE UpdatedLine(items[r.cart], r.product, r.quantity)

\* Mutant: every request checks the rest of the cart as well.
LinesOfWholeCart(r) ==
  IF r.op \in {"addBarcode", "updateQuantity"}
    THEN <<NewLine(r)>> \o SelectSeq(items[r.cart], LAMBDA l : l.product # r.product)
    ELSE items[r.cart]

\* The lines whose products the request locks and checks, in locking order.
LinesToCheck(r) ==
  IF r.op \in {"addBarcode", "updateQuantity"} THEN <<NewLine(r)>> ELSE items[r.cart]

Checked(t) == pc[t] = "lockProducts" /\ Len(seen[t]) = Len(lines[t])

NextLine(t) == lines[t][Len(seen[t]) + 1]

-----------------------------------------------------------------------------
(* Transaction bookkeeping *)

\* Mutant: SELECT without FOR UPDATE.
NoCartLock(c, t) == cartLock' = cartLock

\* SELECT id FROM "Cart" WHERE id = ... FOR UPDATE
TakeCartLock(c, t) == cartLock' = [cartLock EXCEPT ![c] = t]

\* Mutant: SELECT without FOR UPDATE.
NoProductLock(p, t) == productLock' = productLock

\* SELECT id FROM "Product" WHERE id = ... FOR UPDATE
TakeProductLock(p, t) == productLock' = [productLock EXCEPT ![p] = t]

\* Mutant: the transaction that locked the cart is left open.
ReleaseProductLocks(t) ==
  /\ cartLock' = cartLock
  /\ productLock' =
       [p \in Products |-> IF productLock[p] = t THEN NoOne ELSE productLock[p]]

\* COMMIT or ROLLBACK
ReleaseLocks(t) ==
  /\ cartLock' = [c \in Carts |-> IF cartLock[c] = t THEN NoOne ELSE cartLock[c]]
  /\ productLock' =
       [p \in Products |-> IF productLock[p] = t THEN NoOne ELSE productLock[p]]

ForgetReads(t) ==
  /\ lines' = [lines EXCEPT ![t] = <<>>]
  /\ seen' = [seen EXCEPT ![t] = <<>>]
  /\ receipt' = [receipt EXCEPT ![t] = NoReceipt]
  /\ createdOn' = [createdOn EXCEPT ![t] = 0]

\* The answer is sent; whatever the transaction held is released.
EndRequest(t) ==
  /\ ReleaseLocks(t)
  /\ ForgetReads(t)
  /\ pc' = [pc EXCEPT ![t] = "idle"]
  /\ request' = [request EXCEPT ![t] = NoRequest]
  /\ attempt' = [attempt EXCEPT ![t] = 0]

Rollback(t) == EndRequest(t) /\ UNCHANGED <<rows, today>>

\* The catch branch of checkout: roll back and start the next attempt.
Retry(t) ==
  /\ ReleaseLocks(t)
  /\ ForgetReads(t)
  /\ pc' = [pc EXCEPT ![t] = "lockCart"]
  /\ attempt' = [attempt EXCEPT ![t] = @ + 1]
  /\ UNCHANGED <<rows, today, request>>

-----------------------------------------------------------------------------
(* Requests that hold no lock while they wait: one step *)

Start(c) ==
  /\ status[c] = "none"
  /\ status' = [status EXCEPT ![c] = "active"]
  /\ UNCHANGED <<stock, isActive, items, customer, transactions, inventoryLog,
                 today, locks, task>>

PriceOverride(c, p, price) ==
  /\ cartLock[c] = NoOne
  /\ ActiveCart(c)
  /\ p \in ProductsIn(items[c])
  /\ items' = [items EXCEPT ![c] =
                 WithLine(@, [@[LineOf(@, p)] EXCEPT !.price = price])]
  /\ UNCHANGED <<stock, isActive, status, customer, transactions, inventoryLog,
                 today, locks, task>>

AttachCustomer(c, cu) ==
  /\ cartLock[c] = NoOne
  /\ ActiveCart(c)
  /\ customer' = [customer EXCEPT ![c] = cu]
  /\ UNCHANGED <<stock, isActive, status, items, transactions, inventoryLog,
                 today, locks, task>>

\* ProductService.remove: the UPDATE waits for the row lock.
RemoveProduct(p) ==
  /\ productLock[p] = NoOne
  /\ isActive[p]
  /\ isActive' = [isActive EXCEPT ![p] = FALSE]
  /\ UNCHANGED <<stock, status, items, customer, transactions, inventoryLog,
                 today, locks, task>>

-----------------------------------------------------------------------------
(* Requests that lock products *)

Submit(t, r) ==
  /\ pc[t] = "idle"
  /\ WithinBounds(r)
  /\ pc' = [pc EXCEPT ![t] = "lockCart"]
  /\ request' = [request EXCEPT ![t] = r]
  /\ attempt' = [attempt EXCEPT ![t] = 1]
  /\ UNCHANGED <<rows, today, locks, lines, seen, receipt, createdOn>>

\* lockCart, then the checks on the cart row; a failed check is an error answer.
LockCart(t) ==
  /\ pc[t] = "lockCart"
  /\ cartLock[Cart(t)] = NoOne
  /\ \/ /\ Admissible(request[t])
        /\ TakeCartLock(Cart(t), t)
        /\ lines' = [lines EXCEPT ![t] = LinesToCheck(request[t])]
        /\ pc' = [pc EXCEPT ![t] = "lockProducts"]
        /\ UNCHANGED <<rows, today, productLock, request, attempt, seen, receipt,
                       createdOn>>
     \/ /\ ~Admissible(request[t])
        /\ Rollback(t)

\* getLockedProductById, getLockedProductForCheckout and the quantity check.
LockProduct(t) ==
  /\ pc[t] = "lockProducts"
  /\ Len(seen[t]) < Len(lines[t])
  /\ LET p == NextLine(t).product
         servable == isActive[p] /\ Sufficient(p, NextLine(t).quantity, stock[p])
     IN /\ productLock[p] = NoOne
        /\ \/ /\ servable
              /\ TakeProductLock(p, t)
              /\ seen' = [seen EXCEPT ![t] = Append(@, stock[p])]
              /\ UNCHANGED <<rows, today, cartLock, pc, request, attempt, lines,
                             receipt, createdOn>>
           \/ /\ ~servable
              /\ Rollback(t)

\* addBarcode and updateQuantity: write the item and commit.
SaveLine(t) ==
  /\ Checked(t)
  /\ Is(t, "addBarcode") \/ Is(t, "updateQuantity")
  /\ items' = [items EXCEPT ![Cart(t)] = WithLine(@, lines[t][1])]
  /\ EndRequest(t)
  /\ UNCHANGED <<stock, isActive, status, customer, transactions, inventoryLog,
                 today>>

\* preparePayment: write the status and commit.
SetReady(t) ==
  /\ Checked(t)
  /\ Is(t, "preparePayment")
  /\ status' = [status EXCEPT ![Cart(t)] = "ready_for_payment"]
  /\ EndRequest(t)
  /\ UNCHANGED <<stock, isActive, items, customer, transactions, inventoryLog,
                 today>>

-----------------------------------------------------------------------------
(* Checkout after its validation *)

CreatedOn(day) == {x \in transactions : x.createdOn = day}

\* Mutant: every transaction is counted, whatever its day.
NumberFromAllDays(day) == Cardinality(transactions) + 1

\* Mutant: the window of the count is off by a day.
NumberFromWrongDay(day) == Cardinality(CreatedOn(day + 1)) + 1

NextNumber(day) == Cardinality(CreatedOn(day)) + 1

\* generateReceiptNumber: the committed transactions created today, plus one.
GenerateReceiptNumber(t) ==
  /\ Checked(t)
  /\ Is(t, "checkout")
  /\ receipt' = [receipt EXCEPT ![t] =
                   [day |-> today, number |-> NextNumber(today)]]
  /\ pc' = [pc EXCEPT ![t] = "insert"]
  /\ UNCHANGED <<rows, today, locks, request, attempt, lines, seen, createdOn>>

\* transaction.create is sent; the engine stamps createdAt now, which may be
\* after the midnight that followed the count.
CreateTransaction(t) ==
  /\ pc[t] = "insert"
  /\ createdOn' = [createdOn EXCEPT ![t] = today]
  /\ pc' = [pc EXCEPT ![t] = "inserting"]
  /\ UNCHANGED <<rows, today, locks, request, attempt, lines, seen, receipt>>

\* Mutant: there is no unique index on the receipt number.
NeverPending(r) == FALSE

\* Another request inserted the number and is not finished.
Pending(r) == \E u \in Terminals : pc[u] = "inserted" /\ receipt[u] = r

Used(r) == \E x \in transactions : x.receipt = r

\* Mutant: one attempt too many.
MayRetryOnceMore(t) == attempt[t] <= MaxAttempts

\* attempt < 4
MayRetry(t) == attempt[t] < MaxAttempts

\* The unique index on Transaction.receiptNumber: an insert waits for a pending
\* row with its number and fails (P2002) on a committed one.
InsertTransaction(t) ==
  /\ pc[t] = "inserting"
  /\ ~Pending(receipt[t])
  /\ \/ /\ ~Used(receipt[t])
        /\ pc' = [pc EXCEPT ![t] = "inserted"]
        /\ UNCHANGED <<rows, today, locks, request, attempt, lines, seen, receipt,
                       createdOn>>
     \/ /\ Used(receipt[t])
        /\ MayRetry(t)
        /\ Retry(t)
     \/ /\ Used(receipt[t])
        /\ ~MayRetry(t)
        /\ Rollback(t)

OnHandSeen(t) ==
  [p \in Products |->
     IF p \in ProductsIn(lines[t]) THEN seen[t][LineOf(lines[t], p)] ELSE stock[p]]

\* where: { currentQuantity: { gte: item.quantity } }
DecrementGuard(t) ==
  \A i \in DOMAIN lines[t] :
     Sufficient(lines[t][i].product, lines[t][i].quantity, stock[lines[t][i].product])

\* Decrement the stock (relative, with the guard of updateMany), write the sale
\* logs from the quantities read earlier, the receipt, and the cart; commit.
\* A failed guard rolls back in the code; CheckedStockIsCurrent shows it cannot
\* fail here.
CompleteSale(t) ==
  /\ pc[t] = "inserted"
  /\ DecrementGuard(t)
  /\ stock' = StockAfter(stock, lines[t])
  /\ inventoryLog' = LogAfter(inventoryLog, OnHandSeen(t), lines[t], Cart(t))
  /\ transactions' = transactions \cup
       {[cart |-> Cart(t), lines |-> lines[t], customer |-> customer[Cart(t)],
         receipt |-> receipt[t], createdOn |-> createdOn[t]]}
  /\ status' = [status EXCEPT ![Cart(t)] = "completed"]
  /\ EndRequest(t)
  /\ UNCHANGED <<isActive, items, customer, today>>

-----------------------------------------------------------------------------
(* The environment *)

\* Any statement of an open transaction may fail: access denied, a payment
\* method the items do not allow, Prisma's transaction timeout, a lost process.
Abort(t) ==
  /\ pc[t] # "idle"
  /\ Rollback(t)

WaitsForProduct(t, u) ==
  /\ pc[t] = "lockProducts"
  /\ Len(seen[t]) < Len(lines[t])
  /\ productLock[NextLine(t).product] = u

WaitsForCart(t, u) == pc[t] = "lockCart" /\ cartLock[Cart(t)] = u

WaitsForInsert(t, u) ==
  pc[t] = "inserting" /\ pc[u] = "inserted" /\ receipt[u] = receipt[t]

WaitsFor(t, u) ==
  WaitsForProduct(t, u) \/ WaitsForCart(t, u) \/ WaitsForInsert(t, u)

\* A set of requests each of which waits for another one of them.
Cycle(T) ==
  \A t \in T : /\ \E u \in T : WaitsFor(t, u)
               /\ \E u \in T : WaitsFor(u, t)

Deadlocked(t) == \E T \in SUBSET Terminals : t \in T /\ Cycle(T)

\* PostgreSQL's deadlock detector aborts one request of a cycle; checkout and
\* preparePayment answer 500 (their retries do not cover this error).
DetectDeadlock(t) ==
  /\ Deadlocked(t)
  /\ Rollback(t)

Midnight ==
  /\ today < LastDay
  /\ today' = today + 1
  /\ UNCHANGED <<rows, locks, task>>

-----------------------------------------------------------------------------
Init ==
  /\ stock = InitialStock
  /\ isActive = [p \in Products |-> TRUE]
  /\ status = [c \in Carts |-> "none"]
  /\ items = [c \in Carts |-> <<>>]
  /\ customer = [c \in Carts |-> NoCustomer]
  /\ transactions = {}
  /\ inventoryLog = [p \in Products |-> <<>>]
  /\ today = 0
  /\ cartLock = [c \in Carts |-> NoOne]
  /\ productLock = [p \in Products |-> NoOne]
  /\ pc = [t \in Terminals |-> "idle"]
  /\ request = [t \in Terminals |-> NoRequest]
  /\ attempt = [t \in Terminals |-> 0]
  /\ lines = [t \in Terminals |-> <<>>]
  /\ seen = [t \in Terminals |-> <<>>]
  /\ receipt = [t \in Terminals |-> NoReceipt]
  /\ createdOn = [t \in Terminals |-> 0]

\* The steps a request takes by itself once it was submitted.
Step(t) ==
  \/ LockCart(t)
  \/ LockProduct(t)
  \/ SaveLine(t)
  \/ SetReady(t)
  \/ GenerateReceiptNumber(t)
  \/ CreateTransaction(t)
  \/ InsertTransaction(t)
  \/ CompleteSale(t)

Next ==
  \/ \E t \in Terminals :
       \/ \E r \in Workload : Submit(t, r)
       \/ Step(t)
       \/ Abort(t)
       \/ DetectDeadlock(t)
  \/ \E c \in Carts :
       \/ Start(c)
       \/ \E p \in Products, price \in Prices : PriceOverride(c, p, price)
       \/ \E cu \in Customers : AttachCustomer(c, cu)
  \/ \E p \in Removable : RemoveProduct(p)
  \/ Midnight

Spec == Init /\ [][Next]_vars

\* The server runs every open request; PostgreSQL queues the waiters of a row
\* lock or of a unique index entry, so none of them is overtaken for ever; the
\* deadlock detector runs after deadlock_timeout.  Nothing makes a terminal
\* submit a request, and nothing makes a transaction abort by itself.
Fairness ==
  \A t \in Terminals :
    /\ WF_vars(Step(t))
    /\ SF_vars(LockCart(t))
    /\ SF_vars(LockProduct(t))
    /\ SF_vars(InsertTransaction(t))
    /\ WF_vars(DetectDeadlock(t))

FairSpec == Spec /\ Fairness

-----------------------------------------------------------------------------
(* Properties *)

Receipt == [day : Nat, number : Nat \ {0}]

Transaction == [cart : Carts, lines : Seq(Line), customer : Customers \cup {NoCustomer},
                receipt : Receipt, createdOn : Nat]

\* Every row and every request in flight has the type the schema and the code
\* give it.
TypeOK ==
  /\ stock \in [Products -> Int]
  /\ isActive \in [Products -> BOOLEAN]
  /\ status \in [Carts -> CartStatus]
  /\ items \in [Carts -> Seq(Line)]
  /\ customer \in [Carts -> Customers \cup {NoCustomer}]
  /\ transactions \subseteq Transaction
  /\ inventoryLog \in [Products -> Seq(SaleLog)]
  /\ today \in Nat
  /\ cartLock \in [Carts -> Terminals \cup {NoOne}]
  /\ productLock \in [Products -> Terminals \cup {NoOne}]
  /\ pc \in [Terminals -> Program]
  /\ request \in [Terminals -> Request \cup {NoRequest}]
  /\ attempt \in [Terminals -> 0..MaxAttempts]
  /\ lines \in [Terminals -> Seq(Line)]
  /\ seen \in [Terminals -> Seq(Int)]
  /\ receipt \in [Terminals -> Receipt \cup {NoReceipt}]
  /\ createdOn \in [Terminals -> Nat]

\* However carts and checkouts interleave, a product that may not go negative
\* is never sold beyond its stock.
NoOversell == \A p \in Guarded : stock[p] >= 0

\* The inventory log of a product is the history of its stock: it starts at the
\* initial stock, every row continues where the one before it ended, and the
\* last one ends at the current quantity, although the rows record quantities
\* read several statements before they are written.
LogExplainsStock ==
  \A p \in Products :
    LET log == inventoryLog[p]
        Before(i) == IF i = 1 THEN InitialStock[p] ELSE log[i - 1].quantityAfter
    IN /\ \A i \in DOMAIN log : log[i].quantityBefore = Before(i)
       /\ stock[p] = Before(Len(log) + 1)

\* A cart is paid for once: it is completed exactly when one transaction sold
\* it, whatever the number of concurrent or repeated checkouts of the cart.
SoldOnce ==
  /\ \A c \in Carts : status[c] = "completed" <=> \E x \in transactions : x.cart = c
  /\ \A x, y \in transactions : x.cart = y.cart => x = y

\* What was paid for is what the cart holds: items, overridden prices and the
\* customer, although the checkout read them long before it commits.
SaleMatchesCart ==
  \A x \in transactions : x.lines = items[x.cart] /\ x.customer = customer[x.cart]

\* The number the next checkout of the day computes is not taken: no number of
\* today exceeds the count it is computed from, even when a transaction counted
\* before midnight is created after it.
NextReceiptNumberFree ==
  \A x \in transactions :
    x.receipt.day = today => x.receipt.number <= Cardinality(CreatedOn(today))

\* Counting and inserting are separate statements, so checkouts of different
\* products pick the same number; the unique index then lets one of them past
\* its insert at a time, unless a transaction of the day before was created
\* after midnight and left a gap.
OneSaleAtATime ==
  \A t, u \in Terminals :
    /\ t # u
    /\ pc[t] = "inserted" /\ pc[u] = "inserted"
    /\ receipt[t].day = receipt[u].day
    => \E x \in CreatedOn(receipt[t].day) : x.receipt.day # receipt[t].day

\* A checkout repeats only because others succeeded: it cannot use up its
\* attempts on receipt numbers while the shop sells nothing.
RetriesMeanSales ==
  \A t \in Terminals : attempt[t] <= Cardinality(transactions) + 1

\* The quantity that was checked, and that the sale log will record, is still
\* the quantity on hand when the write happens.
CheckedStockIsCurrent ==
  \A t \in Terminals : \A i \in DOMAIN seen[t] :
    /\ seen[t][i] = stock[lines[t][i].product]
    /\ Sufficient(lines[t][i].product, lines[t][i].quantity, seen[t][i])

\* Only requests over several products can deadlock: adding an item, changing a
\* quantity, waiting for a cart or for a receipt number never takes part in a
\* cycle, so the code is right not to expect it there.
DeadlockNeedsBaskets ==
  \A t \in Terminals :
    Deadlocked(t) => /\ pc[t] = "lockProducts"
                     /\ Len(lines[t]) > 1
                     /\ request[t].op \in {"preparePayment", "checkout"}

\* From preparePayment on the cart is frozen: no item, price or customer
\* changes, and its status only advances to completed.
ReadyCartFrozen ==
  [][\A c \in Carts :
       status[c] \in {"ready_for_payment", "completed"} =>
         /\ items'[c] = items[c]
         /\ customer'[c] = customer[c]
         /\ status'[c] \in {status[c], "completed"}]_vars

Desk == INSTANCE SalesDesk WITH
  stock <- stock, isActive <- isActive, status <- status, items <- items,
  customer <- customer, transactions <- transactions, inventoryLog <- inventoryLog

\* Every interleaving of requests is equivalent to running them one at a time.
RequestsAreAtomic == Desk!DeskSpec

\* Every request is answered, whatever locks, deadlocks and number conflicts it
\* meets.
RequestAnswered == \A t \in Terminals : pc[t] # "idle" ~> pc[t] = "idle"
=============================================================================

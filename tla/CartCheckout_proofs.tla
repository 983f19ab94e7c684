------------------------ MODULE CartCheckout_proofs -------------------------
(***************************************************************************)
(* Theorems about CartCheckout for every number of terminals, carts and    *)
(* products, every stock and every bound: of stock and receipt numbers;    *)
(* that it implements SalesDesk; and what a cart and its sale owe to the   *)
(* row locks.                                                              *)
(***************************************************************************)
EXTENDS CartCheckout, FiniteSetTheorems, TLAPS

-----------------------------------------------------------------------------
(* The operators on lines *)

\* The line found for a product of a sequence of lines is one of the sequence.
LEMMA LineOfFound ==
  ASSUME NEW ls \in Seq(Line), NEW p \in ProductsIn(ls)
  PROVE  /\ LineOf(ls, p) \in DOMAIN ls
         /\ ls[LineOf(ls, p)] \in Line
         /\ ls[LineOf(ls, p)].product = p
<1>1. PICK i \in DOMAIN ls : ls[i].product = p
  BY DEF ProductsIn
<1>2. LineOf(ls, p) \in DOMAIN ls /\ ls[LineOf(ls, p)].product = p
  BY <1>1 DEF LineOf
<1>3. \A j \in DOMAIN ls : ls[j] \in Line
  OBVIOUS
<1> QED
  BY <1>2, <1>3

\* A cart holds a natural number of units of every product.
LEMMA QuantityInType ==
  ASSUME NEW ls \in Seq(Line), NEW p
  PROVE  QuantityIn(ls, p) \in Nat
<1>1. CASE p \in ProductsIn(ls)
  <2>1. ls[LineOf(ls, p)] \in Line
    BY <1>1, LineOfFound
  <2> QED
    BY <1>1, <2>1 DEF QuantityIn, Line
<1> QED
  BY <1>1 DEF QuantityIn

\* Adding a product to a cart writes a well-formed line of that product.
LEMMA AddedLineType ==
  ASSUME NEW ls \in Seq(Line), NEW p \in Products, NEW q \in Quantities
  PROVE  AddedLine(ls, p, q) \in Line /\ AddedLine(ls, p, q).product = p
<1>1. q \in Nat \ {0}
  BY PosDataAssumption
<1>2. CASE p \in ProductsIn(ls)
  <2>1. ls[LineOf(ls, p)] \in Line /\ ls[LineOf(ls, p)].product = p
    BY <1>2, LineOfFound
  <2>2. AddedLine(ls, p, q) = [ls[LineOf(ls, p)] EXCEPT !.quantity = @ + q]
    BY <1>2 DEF AddedLine
  <2>3. ls[LineOf(ls, p)].quantity + q \in Nat \ {0}
    BY <1>1, <2>1 DEF Line
  <2> QED
    BY <2>1, <2>2, <2>3 DEF Line
<1>3. CASE p \notin ProductsIn(ls)
  BY <1>1, <1>3, PosDataAssumption DEF AddedLine, Line
<1> QED
  BY <1>2, <1>3

\* So does changing the quantity of a product the cart holds.
LEMMA UpdatedLineType ==
  ASSUME NEW ls \in Seq(Line), NEW p \in ProductsIn(ls), NEW q \in Quantities
  PROVE  UpdatedLine(ls, p, q) \in Line /\ UpdatedLine(ls, p, q).product = p
<1>1. ls[LineOf(ls, p)] \in Line /\ ls[LineOf(ls, p)].product = p
  BY LineOfFound
<1>2. q \in Nat \ {0}
  BY PosDataAssumption
<1> QED
  BY <1>1, <1>2 DEF UpdatedLine, Line

\* Writing a line leaves a sequence of lines.
LEMMA WithLineType ==
  ASSUME NEW ls \in Seq(Line), NEW line \in Line
  PROVE  WithLine(ls, line) \in Seq(Line)
  BY LineOfFound DEF WithLine

\* A sale leaves an integer quantity of every product.
LEMMA StockAfterType ==
  ASSUME NEW onHand \in [Products -> Int], NEW ls \in Seq(Line)
  PROVE  StockAfter(onHand, ls) \in [Products -> Int]
BY QuantityInType DEF StockAfter

\* A sale appends well-formed rows to the inventory log.
LEMMA LogAfterType ==
  ASSUME NEW log \in [Products -> Seq(SaleLog)], NEW onHand \in [Products -> Int],
         NEW ls \in Seq(Line), NEW c \in Carts
  PROVE  LogAfter(log, onHand, ls, c) \in [Products -> Seq(SaleLog)]
<1> DEFINE row(p) == [cart |-> c, quantityBefore |-> onHand[p],
                     quantityAfter |-> onHand[p] - QuantityIn(ls, p)]
<1>1. ASSUME NEW p \in Products PROVE row(p) \in SaleLog
  BY QuantityInType DEF SaleLog
<1>2. ASSUME NEW p \in Products PROVE Append(log[p], row(p)) \in Seq(SaleLog)
  BY <1>1
<1> QED
  BY <1>2 DEF LogAfter

-----------------------------------------------------------------------------
(* Types *)

RowsType ==
  /\ stock \in [Products -> Int]
  /\ isActive \in [Products -> BOOLEAN]
  /\ status \in [Carts -> CartStatus]
  /\ items \in [Carts -> Seq(Line)]
  /\ customer \in [Carts -> Customers \cup {NoCustomer}]
  /\ transactions \subseteq Transaction
  /\ inventoryLog \in [Products -> Seq(SaleLog)]
  /\ today \in Nat

TasksType ==
  /\ cartLock \in [Carts -> Terminals \cup {NoOne}]
  /\ productLock \in [Products -> Terminals \cup {NoOne}]
  /\ pc \in [Terminals -> Program]
  /\ request \in [Terminals -> Request \cup {NoRequest}]
  /\ attempt \in [Terminals -> 0..MaxAttempts]
  /\ lines \in [Terminals -> Seq(Line)]
  /\ seen \in [Terminals -> Seq(Int)]
  /\ receipt \in [Terminals -> Receipt \cup {NoReceipt}]
  /\ createdOn \in [Terminals -> Nat]

CommitPath == {"insert", "inserting", "inserted"}

\* A submitted request is one of Request; a request for one line checks one
\* line; quantities are read in the order of the lines; on the commit path of a
\* checkout all of them were read and the receipt number is there.
TaskInv(t) ==
  /\ pc[t] # "idle" => request[t] \in Request /\ attempt[t] >= 1
  /\ pc[t] = "lockProducts" /\ request[t].op \in {"addBarcode", "updateQuantity"}
       => Len(lines[t]) = 1 /\ lines[t][1].product = request[t].product
  /\ Len(seen[t]) <= Len(lines[t])
  /\ pc[t] \in {"idle", "lockCart"} => seen[t] = <<>>
  /\ pc[t] \in CommitPath => /\ request[t].op = "checkout"
                             /\ receipt[t] \in Receipt
                             /\ Len(seen[t]) = Len(lines[t])

TaskOK == \A t \in Terminals : TaskInv(t)

TypeInv ==
  /\ TypeOK
  /\ TaskOK
  /\ IsFiniteSet(transactions)

LEMMA TypeOKSplit == TypeOK <=> RowsType /\ TasksType
BY DEF TypeOK, RowsType, TasksType

\* A request of any kind names a cart and one of the four operations.
LEMMA RequestFields ==
  ASSUME NEW r \in Request
  PROVE  /\ r.cart \in Carts
         /\ r.op \in {"addBarcode", "updateQuantity", "preparePayment", "checkout"}
         /\ r.op \in {"addBarcode", "updateQuantity"} =>
              r.product \in Products /\ r.quantity \in Quantities
BY DEF Request, LineRequest, CartRequest

\* What a request must find servable is a sequence of lines.
LEMMA LinesToCheckType ==
  ASSUME NEW r \in Request, TypeOK, Admissible(r)
  PROVE  /\ LinesToCheck(r) \in Seq(Line)
         /\ r.op \in {"addBarcode", "updateQuantity"} =>
              /\ Len(LinesToCheck(r)) = 1
              /\ LinesToCheck(r)[1].product = r.product
<1> items[r.cart] \in Seq(Line)
  BY RequestFields DEF TypeOK
<1>1. CASE r.op = "addBarcode"
  <2>1. NewLine(r) \in Line /\ NewLine(r).product = r.product
    BY <1>1, RequestFields, AddedLineType DEF NewLine
  <2> QED
    BY <1>1, <2>1 DEF LinesToCheck
<1>2. CASE r.op = "updateQuantity"
  <2>1. r.product \in ProductsIn(items[r.cart])
    BY <1>2 DEF Admissible
  <2>2. NewLine(r) \in Line /\ NewLine(r).product = r.product
    BY <1>2, <2>1, RequestFields, UpdatedLineType DEF NewLine
  <2> QED
    BY <1>2, <2>2 DEF LinesToCheck
<1>3. CASE r.op \notin {"addBarcode", "updateQuantity"}
  BY <1>3 DEF LinesToCheck
<1> QED
  BY <1>1, <1>2, <1>3

\* Ending a request and starting its next attempt keep the types of the locks and
\* of the requests in flight.
LEMMA EndRequestType ==
  ASSUME TypeInv, NEW t \in Terminals, EndRequest(t)
  PROVE  TasksType' /\ TaskOK'
<1> USE DEF EndRequest, ReleaseLocks, ForgetReads, TypeInv, TypeOK
<1>1. TasksType'
  BY CartCheckoutAssumption DEF TasksType, Program
<1>2. ASSUME NEW u \in Terminals PROVE TaskInv(u)'
  <2>1. CASE u = t
    BY <2>1 DEF TaskOK, TaskInv, CommitPath, Program
  <2>2. CASE u # t
    BY <2>2 DEF TaskOK, TaskInv
  <2> QED
    BY <2>1, <2>2
<1> QED
  BY <1>1, <1>2 DEF TaskOK

LEMMA RetryType ==
  ASSUME TypeInv, NEW t \in Terminals, Retry(t), pc[t] = "inserting",
         attempt[t] < MaxAttempts
  PROVE  TasksType' /\ TaskOK'
<1> USE DEF Retry, ReleaseLocks, ForgetReads, TypeInv, TypeOK
<1>1. TasksType'
  BY CartCheckoutAssumption DEF TasksType, Program
<1>2. ASSUME NEW u \in Terminals PROVE TaskInv(u)'
  <2>1. CASE u = t
    BY <2>1 DEF TaskOK, TaskInv, CommitPath, Program
  <2>2. CASE u # t
    BY <2>2 DEF TaskOK, TaskInv
  <2> QED
    BY <2>1, <2>2
<1> QED
  BY <1>1, <1>2 DEF TaskOK

LEMMA InitTypeInv == Init => TypeInv
<1> SUFFICES ASSUME Init PROVE TypeInv
  OBVIOUS
<1>1. TypeOK
  BY PosDataAssumption, CartCheckoutAssumption
     DEF Init, TypeOK, CartStatus, Program
<1>2. TaskOK
  BY DEF Init, TaskOK, TaskInv, CommitPath
<1>3. IsFiniteSet(transactions)
  BY FS_EmptySet DEF Init
<1> QED
  BY <1>1, <1>2, <1>3 DEF TypeInv

LEMMA NextTypeInv == TypeInv /\ [Next]_vars => TypeInv'
<1> SUFFICES ASSUME TypeInv, [Next]_vars PROVE TypeInv'
  OBVIOUS
<1> DEFINE Rows == RowsType' /\ IsFiniteSet(transactions)'
           Tasks == TasksType' /\ TaskOK'
<1>0. TypeOK /\ TaskOK /\ IsFiniteSet(transactions)
  BY DEF TypeInv
<1>a. ASSUME UNCHANGED <<rows, today>> PROVE Rows
  BY <1>a, <1>0 DEF rows, TypeOK, RowsType
<1>b. ASSUME UNCHANGED <<locks, task>> PROVE Tasks
  BY <1>b, <1>0 DEF locks, task, TypeOK, TasksType, TaskOK, TaskInv
<1>c. ASSUME Rows, Tasks PROVE TypeInv'
  BY <1>c DEF RowsType, TasksType, TypeOK, TypeInv
<1>d. ASSUME NEW t \in Terminals, EndRequest(t) PROVE Tasks
  BY <1>d, EndRequestType
<1>e. ASSUME NEW t \in Terminals, Rollback(t) PROVE TypeInv'
  <2>1. Rows
    BY <1>e, <1>a DEF Rollback
  <2>2. Tasks
    BY <1>e, <1>d DEF Rollback
  <2> QED
    BY <2>1, <2>2, <1>c
<1>f. ASSUME NEW t \in Terminals,
             UNCHANGED <<rows, today>>, TasksType', TaskInv(t)',
             \A u \in Terminals \ {t} :
               /\ pc'[u] = pc[u]
               /\ request'[u] = request[u]
               /\ attempt'[u] = attempt[u]
               /\ lines'[u] = lines[u]
               /\ seen'[u] = seen[u]
               /\ receipt'[u] = receipt[u]
      PROVE  TypeInv'
  <2>1. Rows
    BY <1>f, <1>a
  <2>2. ASSUME NEW u \in Terminals PROVE TaskInv(u)'
    <3>1. CASE u = t
      BY <1>f, <3>1
    <3>2. CASE u # t
      BY <1>f, <3>2, <1>0 DEF TaskOK, TaskInv
    <3> QED
      BY <3>1, <3>2
  <2>3. Tasks
    BY <1>f, <2>2 DEF TaskOK
  <2> QED
    BY <2>1, <2>3, <1>c
<1>1. ASSUME NEW t \in Terminals, NEW r \in Workload, Submit(t, r) PROVE TypeInv'
  <2>1. r \in Request /\ MaxAttempts \in Nat \ {0}
    BY CartCheckoutAssumption
  <2>2. TasksType'
    BY <1>0, <1>1, <2>1 DEF Submit, locks, TypeOK, TasksType, Program
  <2>3. TaskInv(t)'
    BY <1>0, <1>1, <2>1 DEF Submit, TypeOK, TaskOK, TaskInv, CommitPath
  <2> QED
    BY <1>f, <1>1, <2>2, <2>3, <1>0 DEF Submit, TypeOK
<1>2. ASSUME NEW t \in Terminals, LockCart(t) PROVE TypeInv'
  <2>1. CASE ~Admissible(request[t])
    BY <1>2, <2>1, <1>e DEF LockCart
  <2>2. CASE Admissible(request[t])
    <3> DEFINE r == request[t]
    <3>1. pc[t] = "lockCart" /\ r \in Request /\ Cart(t) \in Carts
      BY <1>0, <1>2, RequestFields DEF LockCart, TaskOK, TaskInv, Cart
    <3>2. /\ LinesToCheck(r) \in Seq(Line)
          /\ r.op \in {"addBarcode", "updateQuantity"} =>
               /\ Len(LinesToCheck(r)) = 1
               /\ LinesToCheck(r)[1].product = r.product
      BY <1>0, <2>2, <3>1, LinesToCheckType
    <3>3. /\ cartLock' = [cartLock EXCEPT ![Cart(t)] = t]
          /\ lines' = [lines EXCEPT ![t] = LinesToCheck(r)]
          /\ pc' = [pc EXCEPT ![t] = "lockProducts"]
          /\ UNCHANGED <<rows, today, productLock, request, attempt, seen, receipt,
                         createdOn>>
      BY <1>2, <2>2 DEF LockCart, TakeCartLock
    <3>4. TasksType'
      BY <1>0, <3>1, <3>2, <3>3 DEF TypeOK, TasksType, Program
    <3>5. seen[t] = <<>> /\ attempt[t] >= 1
      BY <1>0, <3>1 DEF TaskOK, TaskInv
    <3>6. TaskInv(t)'
      BY <1>0, <3>1, <3>2, <3>3, <3>5 DEF TypeOK, TaskInv, CommitPath
    <3> QED
      BY <1>f, <3>3, <3>4, <3>6, <1>0 DEF TypeOK
  <2> QED
    BY <2>1, <2>2
<1>3. ASSUME NEW t \in Terminals, LockProduct(t) PROVE TypeInv'
  <2> DEFINE p == NextLine(t).product
             servable == isActive[p] /\ Sufficient(p, NextLine(t).quantity, stock[p])
  <2>1. CASE ~servable
    BY <1>3, <2>1, <1>e DEF LockProduct
  <2>2. CASE servable
    <3>1. lines[t] \in Seq(Line) /\ seen[t] \in Seq(Int)
      BY <1>0 DEF TypeOK
    <3>2. pc[t] = "lockProducts" /\ Len(seen[t]) < Len(lines[t])
      BY <1>3 DEF LockProduct
    <3>3. NextLine(t) \in Line
      BY <3>1, <3>2 DEF NextLine
    <3>4. p \in Products /\ stock[p] \in Int
      BY <1>0, <3>3 DEF Line, TypeOK
    <3>5. /\ productLock' = [productLock EXCEPT ![p] = t]
          /\ seen' = [seen EXCEPT ![t] = Append(@, stock[p])]
          /\ UNCHANGED <<rows, today, cartLock, pc, request, attempt, lines, receipt,
                         createdOn>>
      BY <1>3, <2>2 DEF LockProduct, TakeProductLock
    <3>6. seen'[t] = Append(seen[t], stock[p]) /\ seen'[t] \in Seq(Int)
      BY <1>0, <3>1, <3>4, <3>5 DEF TypeOK
    <3>7. TasksType'
      <4> HIDE DEF p
      <4> QED
        BY <1>0, <3>4, <3>5, <3>6 DEF TypeOK, TasksType
    <3>8. TaskInv(t)'
      <4> HIDE DEF p
      <4>1. Len(seen'[t]) <= Len(lines'[t])
        BY <3>1, <3>2, <3>4, <3>5, <3>6
      <4> QED
        BY <1>0, <3>2, <3>5, <4>1 DEF TaskOK, TaskInv, CommitPath
    <3> QED
      BY <1>f, <3>5, <3>7, <3>8, <1>0 DEF TypeOK
  <2> QED
    BY <2>1, <2>2
<1>4. ASSUME NEW t \in Terminals, SaveLine(t) PROVE TypeInv'
  <2>1. Tasks
    BY <1>4, <1>d DEF SaveLine
  <2>2. request[t] \in Request /\ Cart(t) \in Carts /\ Len(lines[t]) = 1
    BY <1>0, <1>4, RequestFields DEF SaveLine, Checked, Is, TaskOK, TaskInv, Cart
  <2>3. lines[t][1] \in Line
    <3>1. lines[t] \in Seq(Line)
      BY <1>0 DEF TypeOK
    <3> QED
      BY <2>2, <3>1
  <2>4. WithLine(items[Cart(t)], lines[t][1]) \in Seq(Line)
    BY <1>0, <2>2, <2>3, WithLineType DEF TypeOK
  <2>5. /\ items' = [items EXCEPT ![Cart(t)] = WithLine(items[Cart(t)], lines[t][1])]
        /\ UNCHANGED <<stock, isActive, status, customer, transactions, inventoryLog,
                       today>>
    BY <1>4 DEF SaveLine
  <2>6. Rows
    BY <1>0, <2>2, <2>4, <2>5 DEF TypeOK, RowsType
  <2> QED
    BY <2>1, <2>6, <1>c
<1>5. ASSUME NEW t \in Terminals, SetReady(t) PROVE TypeInv'
  <2>1. Tasks
    BY <1>5, <1>d DEF SetReady
  <2>2. Rows
    BY <1>0, <1>5 DEF SetReady, TypeOK, RowsType, CartStatus
  <2> QED
    BY <2>1, <2>2, <1>c
<1>6. ASSUME NEW t \in Terminals, GenerateReceiptNumber(t) PROVE TypeInv'
  <2>1. Cardinality(CreatedOn(today)) \in Nat
    BY <1>0, FS_Subset, FS_CardinalityType DEF CreatedOn
  <2>2. [day |-> today, number |-> NextNumber(today)] \in Receipt
    BY <1>0, <2>1 DEF Receipt, NextNumber, TypeOK
  <2>3. /\ receipt' = [receipt EXCEPT ![t] = [day |-> today, number |-> NextNumber(today)]]
        /\ pc' = [pc EXCEPT ![t] = "insert"]
        /\ UNCHANGED <<rows, today, cartLock, productLock, request, attempt, lines,
                       seen, createdOn>>
        /\ pc[t] = "lockProducts"
        /\ Len(seen[t]) = Len(lines[t])
        /\ request[t].op = "checkout"
    BY <1>6 DEF GenerateReceiptNumber, locks, Checked, Is
  <2>4. TasksType'
    BY <1>0, <2>2, <2>3 DEF TypeOK, TasksType, Program
  <2>5. TaskInv(t)'
    BY <1>0, <2>2, <2>3 DEF TypeOK, TaskOK, TaskInv, CommitPath
  <2> QED
    BY <1>f, <2>3, <2>4, <2>5, <1>0 DEF TypeOK
<1>7. ASSUME NEW t \in Terminals, CreateTransaction(t) PROVE TypeInv'
  <2>1. TasksType'
    BY <1>0, <1>7 DEF CreateTransaction, locks, TypeOK, TasksType, Program
  <2>2. TaskInv(t)'
    BY <1>0, <1>7 DEF CreateTransaction, TypeOK, TaskOK, TaskInv, CommitPath
  <2> QED
    BY <1>f, <1>7, <2>1, <2>2, <1>0 DEF CreateTransaction, TypeOK
<1>8. ASSUME NEW t \in Terminals, InsertTransaction(t) PROVE TypeInv'
  <2>1. CASE Used(receipt[t]) /\ MayRetry(t)
    <3>1. Retry(t) /\ pc[t] = "inserting" /\ attempt[t] < MaxAttempts
      BY <1>8, <2>1 DEF InsertTransaction, MayRetry
    <3>2. Tasks
      BY <3>1, RetryType
    <3>3. Rows
      BY <3>1, <1>a DEF Retry
    <3> QED
      BY <3>2, <3>3, <1>c
  <2>2. CASE Used(receipt[t]) /\ ~MayRetry(t)
    BY <1>8, <2>2, <1>e DEF InsertTransaction
  <2>3. CASE ~Used(receipt[t])
    <3>1. /\ pc' = [pc EXCEPT ![t] = "inserted"]
          /\ pc[t] = "inserting"
          /\ UNCHANGED <<rows, today, cartLock, productLock, request, attempt, lines,
                         seen, receipt, createdOn>>
      BY <1>8, <2>3 DEF InsertTransaction, locks
    <3>2. TasksType'
      BY <1>0, <3>1 DEF TypeOK, TasksType, Program
    <3>3. TaskInv(t)'
      BY <1>0, <3>1 DEF TypeOK, TaskOK, TaskInv, CommitPath
    <3> QED
      BY <1>f, <3>1, <3>2, <3>3, <1>0 DEF TypeOK
  <2> QED
    BY <2>1, <2>2, <2>3
<1>9. ASSUME NEW t \in Terminals, CompleteSale(t) PROVE TypeInv'
  <2>1. Tasks
    BY <1>9, <1>d DEF CompleteSale
  <2>2. /\ request[t] \in Request /\ Cart(t) \in Carts
        /\ receipt[t] \in Receipt
        /\ Len(seen[t]) = Len(lines[t])
    BY <1>0, <1>9, RequestFields DEF CompleteSale, TaskOK, TaskInv, Cart, CommitPath
  <2>3. lines[t] \in Seq(Line) /\ seen[t] \in Seq(Int)
    BY <1>0 DEF TypeOK
  <2>4. stock' \in [Products -> Int]
    BY <1>0, <1>9, <2>3, StockAfterType DEF CompleteSale, TypeOK
  <2>5. OnHandSeen(t) \in [Products -> Int]
    <3>1. ASSUME NEW p \in Products PROVE OnHandSeen(t)[p] \in Int
      <4>1. CASE p \in ProductsIn(lines[t])
        <5>1. LineOf(lines[t], p) \in DOMAIN lines[t]
          BY <2>3, <4>1, LineOfFound
        <5>2. DOMAIN lines[t] = DOMAIN seen[t]
          BY <2>2, <2>3
        <5>3. seen[t][LineOf(lines[t], p)] \in Int
          BY <2>3, <5>1, <5>2
        <5> QED
          BY <4>1, <5>3 DEF OnHandSeen
      <4>2. CASE p \notin ProductsIn(lines[t])
        BY <4>2, <1>0 DEF OnHandSeen, TypeOK
      <4> QED
        BY <4>1, <4>2
    <3> QED
      BY <3>1 DEF OnHandSeen
  <2>6. inventoryLog' \in [Products -> Seq(SaleLog)]
    BY <1>0, <1>9, <2>2, <2>3, <2>5, LogAfterType DEF CompleteSale, TypeOK
  <2> DEFINE sale == [cart |-> Cart(t), lines |-> lines[t],
                      customer |-> customer[Cart(t)], receipt |-> receipt[t],
                      createdOn |-> createdOn[t]]
  <2>7. sale \in Transaction
    BY <1>0, <2>2, <2>3 DEF Transaction, TypeOK
  <2>8. transactions' = transactions \cup {sale}
    BY <1>9 DEF CompleteSale
  <2>9. transactions' \subseteq Transaction /\ IsFiniteSet(transactions')
    <3> HIDE DEF sale
    <3> QED
      BY <1>0, <2>7, <2>8, FS_AddElement DEF TypeOK
  <2>10. /\ status' = [status EXCEPT ![Cart(t)] = "completed"]
         /\ UNCHANGED <<isActive, items, customer, today>>
    BY <1>9 DEF CompleteSale
  <2>11. status' \in [Carts -> CartStatus]
    BY <1>0, <2>2, <2>10 DEF TypeOK, CartStatus
  <2>12. Rows
    BY <1>0, <2>4, <2>6, <2>9, <2>10, <2>11 DEF TypeOK, RowsType
  <2> QED
    BY <2>1, <2>12, <1>c
<1>10. ASSUME NEW t \in Terminals, Abort(t) \/ DetectDeadlock(t) PROVE TypeInv'
  BY <1>10, <1>e DEF Abort, DetectDeadlock
<1>11. ASSUME NEW c \in Carts, Start(c) PROVE TypeInv'
  <2>1. Rows
    BY <1>0, <1>11 DEF Start, TypeOK, RowsType, CartStatus
  <2>2. Tasks
    BY <1>b, <1>11 DEF Start
  <2> QED
    BY <2>1, <2>2, <1>c
<1>12. ASSUME NEW c \in Carts, NEW p \in Products, NEW price \in Prices,
              PriceOverride(c, p, price)
       PROVE  TypeInv'
  <2> DEFINE ls == items[c]
             line == [ls[LineOf(ls, p)] EXCEPT !.price = price]
  <2>1. ls \in Seq(Line) /\ p \in ProductsIn(ls)
    BY <1>0, <1>12 DEF PriceOverride, TypeOK
  <2>2. line \in Line
    <3>1. ls[LineOf(ls, p)] \in Line
      BY <2>1, LineOfFound
    <3> QED
      BY <3>1 DEF Line
  <2>3. WithLine(ls, line) \in Seq(Line)
    BY <2>1, <2>2, WithLineType
  <2>4. /\ items' = [items EXCEPT ![c] = WithLine(ls, line)]
        /\ UNCHANGED <<stock, isActive, status, customer, transactions, inventoryLog,
                       today, locks, task>>
    BY <1>12 DEF PriceOverride
  <2>5. Rows
    <3> HIDE DEF line
    <3> QED
      BY <1>0, <2>3, <2>4 DEF TypeOK, RowsType
  <2>6. Tasks
    BY <1>b, <2>4
  <2> QED
    BY <2>5, <2>6, <1>c
<1>13. ASSUME NEW c \in Carts, NEW cu \in Customers, AttachCustomer(c, cu)
       PROVE  TypeInv'
  <2>1. Rows
    BY <1>0, <1>13 DEF AttachCustomer, TypeOK, RowsType
  <2>2. Tasks
    BY <1>b, <1>13 DEF AttachCustomer
  <2> QED
    BY <2>1, <2>2, <1>c
<1>14. ASSUME NEW p \in Products, RemoveProduct(p) PROVE TypeInv'
  <2>1. Rows
    BY <1>0, <1>14 DEF RemoveProduct, TypeOK, RowsType
  <2>2. Tasks
    BY <1>b, <1>14 DEF RemoveProduct
  <2> QED
    BY <2>1, <2>2, <1>c
<1>15. CASE Midnight
  <2>1. Rows
    BY <1>0, <1>15 DEF Midnight, rows, TypeOK, RowsType
  <2>2. Tasks
    BY <1>b, <1>15 DEF Midnight
  <2> QED
    BY <2>1, <2>2, <1>c
<1>16. CASE UNCHANGED vars
  BY <1>16, <1>a, <1>b, <1>c DEF vars
<1> QED
  BY <1>1, <1>2, <1>3, <1>4, <1>5, <1>6, <1>7, <1>8, <1>9, <1>10, <1>11, <1>12,
     <1>13, <1>14, <1>15, <1>16, CartCheckoutAssumption DEF Next, Step

\* Every row and every request in flight is well typed in every reachable state.
THEOREM TypeCorrect == Spec => []TypeOK
<1>1. Spec => []TypeInv
  BY InitTypeInv, NextTypeInv, PTL DEF Spec
<1>2. TypeInv => TypeOK
  BY DEF TypeInv
<1> QED
  BY <1>1, <1>2, PTL

-----------------------------------------------------------------------------
(* Stock *)

\* After a sale a product has the quantity it had less what the cart sold of it;
\* a product the cart does not hold keeps its quantity.
LEMMA StockAfterValue ==
  ASSUME NEW onHand \in [Products -> Int], NEW ls \in Seq(Line), NEW p \in Products
  PROVE  /\ p \notin ProductsIn(ls) => StockAfter(onHand, ls)[p] = onHand[p]
         /\ p \in Guarded \cap ProductsIn(ls) =>
              \E i \in DOMAIN ls :
                /\ ls[i].product = p
                /\ ls[i].quantity \in Nat
                /\ StockAfter(onHand, ls)[p] = onHand[p] - ls[i].quantity
<1>1. CASE p \notin ProductsIn(ls)
  BY <1>1 DEF StockAfter, QuantityIn
<1>2. CASE p \in Guarded \cap ProductsIn(ls)
  <2> DEFINE i == LineOf(ls, p)
  <2>1. i \in DOMAIN ls /\ ls[i] \in Line /\ ls[i].product = p
    BY <1>2, LineOfFound
  <2>2. StockAfter(onHand, ls)[p] = onHand[p] - ls[i].quantity
    BY <1>2 DEF StockAfter, QuantityIn, Guarded
  <2>3. ls[i].quantity \in Nat
    BY <2>1 DEF Line
  <2> HIDE DEF i
  <2> QED
    BY <1>2, <2>1, <2>2, <2>3
<1> QED
  BY <1>1, <1>2

\* Only a sale changes a quantity on hand, and nothing else adds a transaction or a log row.
LEMMA OnlySalesSell ==
  ASSUME [Next]_vars
  PROVE  \/ UNCHANGED <<stock, transactions, inventoryLog>>
         \/ \E t \in Terminals : CompleteSale(t)
<1> DEFINE Kept == UNCHANGED <<stock, transactions, inventoryLog>>
<1>1. ASSUME NEW t \in Terminals, Rollback(t) \/ Retry(t) PROVE Kept
  BY <1>1 DEF Rollback, Retry, rows
<1>2. ASSUME NEW t \in Terminals, LockCart(t) PROVE Kept
  BY <1>1, <1>2 DEF LockCart, rows
<1>3. ASSUME NEW t \in Terminals, LockProduct(t) PROVE Kept
  BY <1>1, <1>3 DEF LockProduct, rows
<1>4. ASSUME NEW t \in Terminals, SaveLine(t) \/ SetReady(t) PROVE Kept
  BY <1>4 DEF SaveLine, SetReady
<1>5. ASSUME NEW t \in Terminals, GenerateReceiptNumber(t) \/ CreateTransaction(t) PROVE Kept
  BY <1>5 DEF GenerateReceiptNumber, CreateTransaction, rows
<1>6. ASSUME NEW t \in Terminals, InsertTransaction(t) PROVE Kept
  BY <1>1, <1>6 DEF InsertTransaction, rows
<1>7. ASSUME NEW t \in Terminals, Abort(t) \/ DetectDeadlock(t) PROVE Kept
  BY <1>1, <1>7 DEF Abort, DetectDeadlock
<1>8. ASSUME NEW t \in Terminals, NEW r, Submit(t, r) PROVE Kept
  BY <1>8 DEF Submit, rows
<1>9. ASSUME NEW c \in Carts,
             \/ Start(c) \/ \E cu \in Customers : AttachCustomer(c, cu)
             \/ \E p \in Products, price \in Prices : PriceOverride(c, p, price)
      PROVE  Kept
  BY <1>9 DEF Start, AttachCustomer, PriceOverride
<1>10. ASSUME NEW p, RemoveProduct(p) PROVE Kept
  BY <1>10 DEF RemoveProduct
<1>11. ASSUME Midnight PROVE Kept
  BY <1>11 DEF Midnight, rows
<1>12. ASSUME UNCHANGED vars PROVE Kept
  BY <1>12 DEF vars, rows
<1> HIDE DEF Kept
<1>13. Kept \/ \E t \in Terminals : CompleteSale(t)
  BY <1>2, <1>3, <1>4, <1>5, <1>6, <1>7, <1>8, <1>9, <1>10, <1>11, <1>12 DEF Next, Step
<1> QED
  BY <1>13 DEF Kept

\* The guarded decrement keeps every guarded product at or above zero.
LEMMA SaleKeepsStock ==
  ASSUME TypeInv, NEW t \in Terminals, CompleteSale(t), NoOversell
  PROVE  NoOversell'
<1>1. lines[t] \in Seq(Line) /\ stock \in [Products -> Int]
  BY DEF TypeInv, TypeOK
<1>2. stock' = StockAfter(stock, lines[t]) /\ DecrementGuard(t)
  BY DEF CompleteSale
<1>3. SUFFICES ASSUME NEW p \in Guarded PROVE stock'[p] >= 0
  BY DEF NoOversell
<1>4. p \in Products /\ stock[p] \in Int /\ stock[p] >= 0
  BY <1>1, PosDataAssumption DEF NoOversell, Guarded
<1>5. CASE p \notin ProductsIn(lines[t])
  BY <1>1, <1>2, <1>4, <1>5, StockAfterValue
<1>6. CASE p \in ProductsIn(lines[t])
  <2>1. PICK i \in DOMAIN lines[t] :
          /\ lines[t][i].product = p
          /\ lines[t][i].quantity \in Nat
          /\ stock'[p] = stock[p] - lines[t][i].quantity
    BY <1>1, <1>2, <1>4, <1>6, StockAfterValue
  <2>2. lines[t][i].quantity <= stock[p]
    BY <1>2, <2>1 DEF DecrementGuard, Sufficient
  <2> QED
    BY <1>4, <2>1, <2>2
<1> QED
  BY <1>5, <1>6

\* No interleaving of carts and checkouts sells a product that may not go
\* negative beyond its stock.
THEOREM NeverOversold == Spec => []NoOversell
<1>1. Init => TypeInv /\ NoOversell
  BY InitTypeInv, PosDataAssumption DEF Init, NoOversell
<1>2. (TypeInv /\ NoOversell) /\ [Next]_vars => (TypeInv /\ NoOversell)'
  <2> SUFFICES ASSUME TypeInv, NoOversell, [Next]_vars PROVE NoOversell'
    BY NextTypeInv
  <2>1. CASE UNCHANGED stock
    BY <2>1 DEF NoOversell
  <2>2. CASE \E t \in Terminals : CompleteSale(t)
    BY <2>2, SaleKeepsStock
  <2> QED
    BY <2>1, <2>2, OnlySalesSell
<1> QED
  BY <1>1, <1>2, PTL DEF Spec

-----------------------------------------------------------------------------
(* What a request read stays current while it holds the product's lock *)

\* Every quantity a request read belongs to a product whose row it has locked.
SeenIsLocked ==
  \A t \in Terminals : \A i \in DOMAIN seen[t] :
    productLock[lines[t][i].product] = t

SeenInv == TypeInv /\ SeenIsLocked /\ CheckedStockIsCurrent

\* A request that ends or starts again forgets what it read and frees only the
\* locks it holds itself.
LEMMA ReleaseKeepsSeen ==
  ASSUME SeenInv, NEW t \in Terminals, ReleaseLocks(t), ForgetReads(t),
         \A u \in Terminals \ {t} : \A i \in DOMAIN seen[u] :
           stock'[lines[u][i].product] = stock[lines[u][i].product]
  PROVE  SeenIsLocked' /\ CheckedStockIsCurrent'
<1> SUFFICES ASSUME NEW u \in Terminals, NEW i \in DOMAIN seen'[u]
             PROVE  /\ productLock'[lines'[u][i].product] = u
                    /\ seen'[u][i] = stock'[lines'[u][i].product]
                    /\ Sufficient(lines'[u][i].product, lines'[u][i].quantity, seen'[u][i])
  BY DEF SeenIsLocked, CheckedStockIsCurrent
<1>0. /\ lines \in [Terminals -> Seq(Line)]
      /\ seen \in [Terminals -> Seq(Int)]
      /\ productLock \in [Products -> Terminals \cup {NoOne}]
      /\ Len(seen[u]) <= Len(lines[u])
  BY DEF SeenInv, TypeInv, TypeOK, TaskOK, TaskInv
<1>1. u # t
  BY <1>0 DEF ForgetReads
<1>2. seen'[u] = seen[u] /\ lines'[u] = lines[u] /\ i \in DOMAIN seen[u]
  BY <1>0, <1>1 DEF ForgetReads
<1>3. /\ productLock[lines[u][i].product] = u
      /\ seen[u][i] = stock[lines[u][i].product]
      /\ Sufficient(lines[u][i].product, lines[u][i].quantity, seen[u][i])
  BY <1>2 DEF SeenInv, SeenIsLocked, CheckedStockIsCurrent
<1>4. lines[u][i] \in Line
  BY <1>0, <1>2
<1>5. productLock'[lines[u][i].product] = u
  BY <1>0, <1>1, <1>3, <1>4 DEF ReleaseLocks, Line
<1> QED
  BY <1>1, <1>2, <1>3, <1>5

\* A sale changes the stock of products it has locked, so of none that another
\* request has read.
LEMMA SaleSparesOthers ==
  ASSUME SeenInv, NEW t \in Terminals, CompleteSale(t),
         NEW u \in Terminals \ {t}, NEW i \in DOMAIN seen[u]
  PROVE  stock'[lines[u][i].product] = stock[lines[u][i].product]
<1> DEFINE p == lines[u][i].product
<1>0. /\ lines \in [Terminals -> Seq(Line)]
      /\ seen \in [Terminals -> Seq(Int)]
      /\ stock \in [Products -> Int]
      /\ Len(seen[u]) <= Len(lines[u])
      /\ Len(seen[t]) = Len(lines[t])
  BY DEF SeenInv, TypeInv, TypeOK, TaskOK, TaskInv, CompleteSale, CommitPath
<1>1. p \in Products
  <2>1. lines[u][i] \in Line
    BY <1>0
  <2> QED
    BY <2>1 DEF Line
<1>2. p \notin ProductsIn(lines[t])
  <2>1. SUFFICES ASSUME NEW j \in DOMAIN lines[t], lines[t][j].product = p PROVE FALSE
    BY DEF ProductsIn
  <2>2. j \in DOMAIN seen[t]
    BY <1>0
  <2>3. productLock[p] = t /\ productLock[p] = u
    BY <2>1, <2>2 DEF SeenInv, SeenIsLocked
  <2> QED
    BY <2>3
<1>3. stock' = StockAfter(stock, lines[t])
  BY DEF CompleteSale
<1>4. lines[t] \in Seq(Line)
  BY <1>0
<1> HIDE DEF p
<1>5. StockAfter(stock, lines[t])[p] = stock[p]
  BY <1>0, <1>1, <1>2, <1>4, StockAfterValue
<1> QED
  BY <1>3, <1>5 DEF p

LEMMA InitSeenInv == Init => SeenInv
BY InitTypeInv DEF Init, SeenInv, SeenIsLocked, CheckedStockIsCurrent

LEMMA NextSeenInv == SeenInv /\ [Next]_vars => SeenInv'
<1> SUFFICES ASSUME SeenInv, [Next]_vars PROVE SeenIsLocked' /\ CheckedStockIsCurrent'
  BY NextTypeInv DEF SeenInv
<1> DEFINE Goal == SeenIsLocked' /\ CheckedStockIsCurrent'
<1>0. /\ lines \in [Terminals -> Seq(Line)]
      /\ seen \in [Terminals -> Seq(Int)]
      /\ productLock \in [Products -> Terminals \cup {NoOne}]
      /\ stock \in [Products -> Int]
      /\ TaskOK
      /\ SeenIsLocked /\ CheckedStockIsCurrent
  BY DEF SeenInv, TypeInv, TypeOK
<1>a. ASSUME UNCHANGED <<stock, productLock, lines, seen>> PROVE Goal
  BY <1>0, <1>a DEF SeenIsLocked, CheckedStockIsCurrent
<1>b. ASSUME NEW t \in Terminals, ReleaseLocks(t), ForgetReads(t), UNCHANGED stock
      PROVE  Goal
  BY <1>b, ReleaseKeepsSeen
<1>c. ASSUME NEW t \in Terminals, Rollback(t) PROVE Goal
  BY <1>b, <1>c DEF Rollback, EndRequest, rows
<1>1. ASSUME NEW t \in Terminals, LockCart(t) PROVE Goal
  <2>1. CASE ~Admissible(request[t])
    BY <1>1, <1>c, <2>1 DEF LockCart
  <2>2. CASE Admissible(request[t])
    <3>1. /\ lines' = [lines EXCEPT ![t] = LinesToCheck(request[t])]
          /\ UNCHANGED <<stock, productLock, seen>>
          /\ seen[t] = <<>>
      <4>1. pc[t] = "lockCart" /\ lines' = [lines EXCEPT ![t] = LinesToCheck(request[t])]
            /\ UNCHANGED <<stock, productLock, seen>>
        BY <1>1, <2>2 DEF LockCart, rows
      <4>2. TaskInv(t)
        BY <1>0 DEF TaskOK
      <4> QED
        BY <4>1, <4>2 DEF TaskInv
    <3>2. \A o \in Terminals : \A i \in DOMAIN seen[o] : o # t /\ lines'[o] = lines[o]
      BY <1>0, <3>1
    <3>3. SeenIsLocked'
      BY <1>0, <3>1, <3>2 DEF SeenIsLocked
    <3>4. CheckedStockIsCurrent'
      BY <1>0, <3>1, <3>2 DEF CheckedStockIsCurrent
    <3> QED
      BY <3>3, <3>4
  <2> QED
    BY <2>1, <2>2
<1>2. ASSUME NEW t \in Terminals, LockProduct(t) PROVE Goal
  <2> DEFINE p == NextLine(t).product
             servable == isActive[p] /\ Sufficient(p, NextLine(t).quantity, stock[p])
             n == Len(seen[t]) + 1
  <2>1. CASE ~servable
    BY <1>2, <1>c, <2>1 DEF LockProduct
  <2>2. CASE servable
    <3>1. /\ productLock[p] = NoOne
          /\ productLock' = [productLock EXCEPT ![p] = t]
          /\ seen' = [seen EXCEPT ![t] = Append(@, stock[p])]
          /\ UNCHANGED <<stock, lines>>
          /\ Len(seen[t]) < Len(lines[t])
      BY <1>2, <2>2 DEF LockProduct, TakeProductLock, rows
    <3>2. lines[t] \in Seq(Line) /\ seen[t] \in Seq(Int)
      BY <1>0
    <3>3. lines[t][n] \in Line /\ NextLine(t) = lines[t][n]
      BY <3>1, <3>2 DEF NextLine
    <3>4. p \in Products
      BY <3>3 DEF Line
    <3> SUFFICES ASSUME NEW u \in Terminals, NEW i \in DOMAIN seen'[u]
                 PROVE  /\ productLock'[lines[u][i].product] = u
                        /\ seen'[u][i] = stock[lines[u][i].product]
                        /\ Sufficient(lines[u][i].product, lines[u][i].quantity, seen'[u][i])
      BY <3>1 DEF SeenIsLocked, CheckedStockIsCurrent
    <3>5. CASE i \in DOMAIN seen[u]
      <4>1. /\ productLock[lines[u][i].product] = u
            /\ seen[u][i] = stock[lines[u][i].product]
            /\ Sufficient(lines[u][i].product, lines[u][i].quantity, seen[u][i])
        BY <1>0, <3>5 DEF SeenIsLocked, CheckedStockIsCurrent
      <4>2. lines[u][i].product # p
        BY <3>1, <4>1, CartCheckoutAssumption
      <4>3. seen'[u][i] = seen[u][i]
        <5>1. seen[u] \in Seq(Int)
          BY <1>0
        <5>2. CASE u = t
          <6> HIDE DEF p
          <6> QED
            BY <1>0, <3>1, <3>2, <3>5, <5>2
        <5>3. CASE u # t
          BY <1>0, <3>1, <5>3
        <5> QED
          BY <5>2, <5>3
      <4>4. productLock'[lines[u][i].product] = productLock[lines[u][i].product]
        BY <1>0, <3>1, <4>2
      <4> QED
        BY <4>1, <4>3, <4>4
    <3>6. CASE i \notin DOMAIN seen[u]
      <4>1. u = t /\ i = n /\ seen'[u][i] = stock[p]
        <5> HIDE DEF p
        <5>1. CASE u # t
          BY <1>0, <3>1, <3>6, <5>1
        <5>2. CASE u = t
          <6>1. seen'[t] = Append(seen[t], stock[p])
            BY <1>0, <3>1
          <6> QED
            BY <3>2, <3>6, <5>2, <6>1
        <5> QED
          BY <5>1, <5>2
      <4>2. lines[u][i].product = p /\ lines[u][i].quantity = NextLine(t).quantity
        BY <3>3, <4>1
      <4>3. productLock'[p] = t
        BY <1>0, <3>1, <3>4
      <4> QED
        BY <2>2, <4>1, <4>2, <4>3
    <3> QED
      BY <3>5, <3>6
  <2> QED
    BY <2>1, <2>2
<1>3. ASSUME NEW t \in Terminals, SaveLine(t) \/ SetReady(t) PROVE Goal
  BY <1>3, <1>b DEF SaveLine, SetReady, EndRequest
<1>4. ASSUME NEW t \in Terminals, CompleteSale(t) PROVE Goal
  <2>1. ReleaseLocks(t) /\ ForgetReads(t)
    BY <1>4 DEF CompleteSale, EndRequest
  <2> QED
    BY <1>4, <2>1, SaleSparesOthers, ReleaseKeepsSeen
<1>5. ASSUME NEW t \in Terminals, InsertTransaction(t) PROVE Goal
  <2>1. CASE ~Used(receipt[t])
    BY <1>5, <1>a, <2>1 DEF InsertTransaction, rows, locks
  <2>2. CASE Used(receipt[t]) /\ MayRetry(t)
    BY <1>5, <1>b, <2>2 DEF InsertTransaction, Retry, rows
  <2>3. CASE Used(receipt[t]) /\ ~MayRetry(t)
    BY <1>5, <1>c, <2>3 DEF InsertTransaction
  <2> QED
    BY <2>1, <2>2, <2>3
<1>6. ASSUME NEW t \in Terminals, NEW r \in Workload, Submit(t, r) PROVE Goal
  BY <1>6, <1>a DEF Submit, rows, locks
<1>7. ASSUME NEW t \in Terminals, GenerateReceiptNumber(t) \/ CreateTransaction(t)
      PROVE  Goal
  BY <1>7, <1>a DEF GenerateReceiptNumber, CreateTransaction, rows, locks
<1>8. ASSUME NEW t \in Terminals, Abort(t) \/ DetectDeadlock(t) PROVE Goal
  BY <1>8, <1>c DEF Abort, DetectDeadlock
<1>9. ASSUME NEW c \in Carts,
             \/ Start(c)
             \/ \E p \in Products, price \in Prices : PriceOverride(c, p, price)
             \/ \E cu \in Customers : AttachCustomer(c, cu)
      PROVE  Goal
  BY <1>9, <1>a DEF Start, PriceOverride, AttachCustomer, locks, task
<1>10. ASSUME NEW p \in Removable, RemoveProduct(p) PROVE Goal
  BY <1>10, <1>a DEF RemoveProduct, locks, task
<1>11. CASE Midnight \/ UNCHANGED vars
  BY <1>11, <1>a DEF Midnight, vars, rows, locks, task
<1> QED
  BY <1>1, <1>2, <1>3, <1>4, <1>5, <1>6, <1>7, <1>8, <1>9, <1>10, <1>11
  DEF Next, Step

\* The quantity a request checked under a product's lock is still the quantity
\* on hand when the request writes, so the sale log records the truth and the
\* guard of the decrement cannot fail.
THEOREM CheckedStockStays == Spec => []CheckedStockIsCurrent
<1>1. SeenInv => CheckedStockIsCurrent
  BY DEF SeenInv
<1> QED
  BY <1>1, InitSeenInv, NextSeenInv, PTL DEF Spec

-----------------------------------------------------------------------------
(* Receipt numbers *)

\* No number is dated in the future.
DatedByToday ==
  /\ \A x \in transactions : x.receipt.day <= today
  /\ \A t \in Terminals : pc[t] \in CommitPath => receipt[t].day <= today

\* A number of today was computed from a count that can only have grown since,
\* and its transaction is created today.
CountedToday ==
  \A t \in Terminals :
    pc[t] \in CommitPath /\ receipt[t].day = today =>
      /\ receipt[t].number <= Cardinality(CreatedOn(today)) + 1
      /\ pc[t] \in {"inserting", "inserted"} => createdOn[t] = today

\* A number past its insert is neither committed nor inserted by another.
InsertedOnce ==
  \A t \in Terminals :
    pc[t] = "inserted" =>
      /\ ~Used(receipt[t])
      /\ \A u \in Terminals : pc[u] = "inserted" /\ receipt[u] = receipt[t] => u = t

NumberInv ==
  TypeInv /\ DatedByToday /\ CountedToday /\ InsertedOnce /\ NextReceiptNumberFree

\* Steps that neither sell nor pass midnight keep the numbers in order as long
\* as no request gets a number or passes its insert.
LEMMA NumbersKept ==
  ASSUME NumberInv, UNCHANGED <<transactions, today>>,
         \A u \in Terminals :
           \/ pc'[u] \notin CommitPath
           \/ pc'[u] = pc[u] /\ receipt'[u] = receipt[u] /\ createdOn'[u] = createdOn[u]
  PROVE  DatedByToday' /\ CountedToday' /\ InsertedOnce' /\ NextReceiptNumberFree'
<1>1. CreatedOn(today)' = CreatedOn(today)
  BY DEF CreatedOn
<1>2. DatedByToday'
  BY DEF NumberInv, DatedByToday
<1>3. CountedToday'
  BY <1>1 DEF NumberInv, CountedToday
<1>4. InsertedOnce'
  BY DEF NumberInv, InsertedOnce, Used, CommitPath
<1>5. NextReceiptNumberFree'
  BY <1>1 DEF NumberInv, NextReceiptNumberFree
<1> QED
  BY <1>2, <1>3, <1>4, <1>5

\* A sale adds one transaction; if it is dated today it is created today, so
\* the count grows with it.
LEMMA SaleKeepsNumbers ==
  ASSUME NumberInv, NEW t \in Terminals, CompleteSale(t)
  PROVE  DatedByToday' /\ CountedToday' /\ InsertedOnce' /\ NextReceiptNumberFree'
<1> DEFINE sale == [cart |-> Cart(t), lines |-> lines[t],
                    customer |-> customer[Cart(t)], receipt |-> receipt[t],
                    createdOn |-> createdOn[t]]
<1>0. /\ DatedByToday /\ CountedToday /\ InsertedOnce /\ NextReceiptNumberFree
      /\ pc \in [Terminals -> Program]
      /\ receipt[t] \in Receipt
      /\ today \in Nat
      /\ transactions \subseteq Transaction
      /\ IsFiniteSet(transactions)
  BY DEF NumberInv, TypeInv, TypeOK, TaskOK, TaskInv, CommitPath, CompleteSale
<1>1. /\ pc[t] = "inserted"
      /\ transactions' = transactions \cup {sale}
      /\ today' = today
      /\ pc' = [pc EXCEPT ![t] = "idle"]
      /\ \A u \in Terminals \ {t} : receipt'[u] = receipt[u] /\ createdOn'[u] = createdOn[u]
  BY DEF CompleteSale, EndRequest, ForgetReads, NumberInv, TypeInv, TypeOK
<1>2. sale.receipt = receipt[t] /\ sale.createdOn = createdOn[t]
  OBVIOUS
<1>3. sale \notin transactions
  BY <1>0, <1>1, <1>2 DEF InsertedOnce, Used
<1> HIDE DEF sale
<1>4. /\ IsFiniteSet(CreatedOn(today))
      /\ Cardinality(CreatedOn(today)) \in Nat
  BY <1>0, FS_Subset, FS_CardinalityType DEF CreatedOn
<1>5. Cardinality(CreatedOn(today)') =
        IF sale.createdOn = today THEN Cardinality(CreatedOn(today)) + 1
                                  ELSE Cardinality(CreatedOn(today))
  <2>1. CASE sale.createdOn = today
    <3>1. CreatedOn(today)' = CreatedOn(today) \cup {sale}
      BY <1>1, <2>1 DEF CreatedOn
    <3>2. sale \notin CreatedOn(today)
      BY <1>3 DEF CreatedOn
    <3> QED
      BY <1>4, <2>1, <3>1, <3>2, FS_AddElement
  <2>2. CASE sale.createdOn # today
    <3>1. CreatedOn(today)' = CreatedOn(today)
      BY <1>1, <2>2 DEF CreatedOn
    <3> QED
      BY <2>2, <3>1
  <2> QED
    BY <2>1, <2>2
<1>6. /\ Cardinality(CreatedOn(today)') \in Nat
      /\ Cardinality(CreatedOn(today)) <= Cardinality(CreatedOn(today)')
  BY <1>4, <1>5
<1>7. receipt[t].day <= today
  BY <1>0, <1>1 DEF DatedByToday, CommitPath
<1>8. DatedByToday'
  BY <1>0, <1>1, <1>2, <1>7 DEF DatedByToday, CommitPath
<1>9. CountedToday'
  <2> SUFFICES ASSUME NEW u \in Terminals, pc'[u] \in CommitPath, receipt'[u].day = today
               PROVE  /\ receipt'[u].number <= Cardinality(CreatedOn(today)') + 1
                      /\ pc'[u] \in {"inserting", "inserted"} => createdOn'[u] = today
    BY <1>1 DEF CountedToday
  <2>1. u # t /\ pc'[u] = pc[u] /\ receipt'[u] = receipt[u] /\ createdOn'[u] = createdOn[u]
    BY <1>0, <1>1 DEF CommitPath
  <2>2. /\ receipt[u].number <= Cardinality(CreatedOn(today)) + 1
        /\ pc[u] \in {"inserting", "inserted"} => createdOn[u] = today
    BY <1>0, <2>1 DEF CountedToday
  <2>3. receipt[u].number \in Nat
    BY <2>1 DEF NumberInv, TypeInv, TaskOK, TaskInv, Receipt
  <2> QED
    BY <1>4, <1>6, <2>1, <2>2, <2>3
<1>10. InsertedOnce'
  <2> SUFFICES ASSUME NEW u \in Terminals, pc'[u] = "inserted"
               PROVE  /\ ~Used(receipt[u])'
                      /\ \A v \in Terminals :
                           pc'[v] = "inserted" /\ receipt'[v] = receipt'[u] => v = u
    BY DEF InsertedOnce, Used
  <2>1. u # t /\ pc[u] = "inserted" /\ receipt'[u] = receipt[u]
    BY <1>0, <1>1
  <2>2. receipt[u] # receipt[t]
    BY <1>0, <1>1, <2>1 DEF InsertedOnce
  <2>3. ~Used(receipt[u])'
    BY <1>0, <1>1, <1>2, <2>1, <2>2 DEF InsertedOnce, Used
  <2>4. ASSUME NEW v \in Terminals, pc'[v] = "inserted", receipt'[v] = receipt'[u]
        PROVE  v = u
    <3>1. v # t /\ pc[v] = "inserted" /\ receipt'[v] = receipt[v]
      BY <1>0, <1>1, <2>4
    <3> QED
      BY <1>0, <2>1, <2>4, <3>1 DEF InsertedOnce
  <2> QED
    BY <2>3, <2>4
<1>11. NextReceiptNumberFree'
  <2> SUFFICES ASSUME NEW x \in transactions', x.receipt.day = today
               PROVE  x.receipt.number <= Cardinality(CreatedOn(today)')
    BY <1>1 DEF NextReceiptNumberFree
  <2>1. CASE x \in transactions
    <3>1. x.receipt.number <= Cardinality(CreatedOn(today))
      BY <1>0, <2>1 DEF NextReceiptNumberFree
    <3>2. x.receipt.number \in Nat
      BY <1>0, <2>1 DEF Transaction, Receipt
    <3> QED
      BY <1>4, <1>6, <3>1, <3>2
  <2>2. CASE x = sale
    <3>1. receipt[t].number <= Cardinality(CreatedOn(today)) + 1 /\ createdOn[t] = today
      BY <1>0, <1>1, <1>2, <2>2 DEF CountedToday, CommitPath
    <3> QED
      BY <1>2, <1>5, <2>2, <3>1
  <2> QED
    BY <1>1, <2>1, <2>2
<1> QED
  BY <1>8, <1>9, <1>10, <1>11

LEMMA InitNumberInv == Init => NumberInv
BY InitTypeInv
   DEF Init, NumberInv, DatedByToday, CountedToday, InsertedOnce, NextReceiptNumberFree,
       CommitPath

LEMMA NextNumberInv == NumberInv /\ [Next]_vars => NumberInv'
<1> SUFFICES ASSUME NumberInv, [Next]_vars
             PROVE  DatedByToday' /\ CountedToday' /\ InsertedOnce' /\ NextReceiptNumberFree'
  BY NextTypeInv DEF NumberInv
<1> DEFINE Goal == /\ DatedByToday' /\ CountedToday' /\ InsertedOnce'
                   /\ NextReceiptNumberFree'
<1>0. /\ pc \in [Terminals -> Program]
      /\ receipt \in [Terminals -> Receipt \cup {NoReceipt}]
      /\ createdOn \in [Terminals -> Nat]
      /\ today \in Nat
      /\ transactions \subseteq Transaction
      /\ DatedByToday /\ CountedToday /\ InsertedOnce /\ NextReceiptNumberFree
  BY DEF NumberInv, TypeInv, TypeOK
<1>a. ASSUME NEW t \in Terminals, UNCHANGED <<transactions, today>>, ForgetReads(t),
             \/ pc' = [pc EXCEPT ![t] = "idle"]
             \/ pc' = [pc EXCEPT ![t] = "lockCart"]
      PROVE  Goal
  BY <1>0, <1>a, NumbersKept DEF ForgetReads, CommitPath
<1>b. ASSUME NEW t \in Terminals, Rollback(t) PROVE Goal
  BY <1>a, <1>b DEF Rollback, EndRequest, rows
<1>c. ASSUME UNCHANGED <<transactions, today, pc, receipt, createdOn>> PROVE Goal
  BY <1>c, NumbersKept
<1>1. ASSUME NEW t \in Terminals, NEW r \in Workload, Submit(t, r) PROVE Goal
  BY <1>0, <1>1, NumbersKept DEF Submit, rows, CommitPath
<1>2. ASSUME NEW t \in Terminals, LockCart(t) PROVE Goal
  <2>1. CASE Admissible(request[t])
    BY <1>0, <1>2, <2>1, NumbersKept DEF LockCart, rows, CommitPath
  <2>2. CASE ~Admissible(request[t])
    BY <1>2, <1>b, <2>2 DEF LockCart
  <2> QED
    BY <2>1, <2>2
<1>3. ASSUME NEW t \in Terminals, LockProduct(t) PROVE Goal
  BY <1>3, <1>b, <1>c DEF LockProduct, rows
<1>4. ASSUME NEW t \in Terminals, SaveLine(t) \/ SetReady(t) PROVE Goal
  BY <1>4, <1>a DEF SaveLine, SetReady, EndRequest
<1>5. ASSUME NEW t \in Terminals, GenerateReceiptNumber(t) PROVE Goal
  <2>1. /\ UNCHANGED <<transactions, today, createdOn>>
        /\ receipt' = [receipt EXCEPT ![t] = [day |-> today, number |-> NextNumber(today)]]
        /\ pc' = [pc EXCEPT ![t] = "insert"]
    BY <1>5 DEF GenerateReceiptNumber, rows
  <2>2. CreatedOn(today)' = CreatedOn(today)
    BY <2>1 DEF CreatedOn
  <2>3. Cardinality(CreatedOn(today)) \in Nat
    BY FS_Subset, FS_CardinalityType DEF CreatedOn, NumberInv, TypeInv
  <2>4. DatedByToday'
    BY <1>0, <2>1 DEF DatedByToday, CommitPath
  <2>5. CountedToday'
    <3> SUFFICES ASSUME NEW u \in Terminals, pc'[u] \in CommitPath, receipt'[u].day = today
                 PROVE  /\ receipt'[u].number <= Cardinality(CreatedOn(today)) + 1
                        /\ pc'[u] \in {"inserting", "inserted"} => createdOn'[u] = today
      BY <2>1, <2>2 DEF CountedToday
    <3>1. CASE u = t
      BY <1>0, <2>1, <2>3, <3>1 DEF NextNumber
    <3>2. CASE u # t
      BY <1>0, <2>1, <3>2 DEF CountedToday
    <3> QED
      BY <3>1, <3>2
  <2>6. InsertedOnce'
    BY <1>0, <2>1 DEF InsertedOnce, Used
  <2>7. NextReceiptNumberFree'
    BY <1>0, <2>1, <2>2 DEF NextReceiptNumberFree
  <2> QED
    BY <2>4, <2>5, <2>6, <2>7
<1>6. ASSUME NEW t \in Terminals, CreateTransaction(t) PROVE Goal
  <2>1. /\ UNCHANGED <<transactions, today, receipt>>
        /\ createdOn' = [createdOn EXCEPT ![t] = today]
        /\ pc[t] = "insert"
        /\ pc' = [pc EXCEPT ![t] = "inserting"]
    BY <1>6 DEF CreateTransaction, rows
  <2>2. CreatedOn(today)' = CreatedOn(today)
    BY <2>1 DEF CreatedOn
  <2>3. DatedByToday'
    BY <1>0, <2>1 DEF DatedByToday, CommitPath
  <2>4. CountedToday'
    BY <1>0, <2>1, <2>2 DEF CountedToday, CommitPath
  <2>5. InsertedOnce'
    BY <1>0, <2>1 DEF InsertedOnce, Used
  <2>6. NextReceiptNumberFree'
    BY <1>0, <2>1, <2>2 DEF NextReceiptNumberFree
  <2> QED
    BY <2>3, <2>4, <2>5, <2>6
<1>7. ASSUME NEW t \in Terminals, InsertTransaction(t) PROVE Goal
  <2>1. CASE Used(receipt[t]) /\ MayRetry(t)
    BY <1>7, <1>a, <2>1 DEF InsertTransaction, Retry, rows
  <2>2. CASE Used(receipt[t]) /\ ~MayRetry(t)
    BY <1>7, <1>b, <2>2 DEF InsertTransaction
  <2>3. CASE ~Used(receipt[t])
    <3>1. /\ UNCHANGED <<transactions, today, receipt, createdOn>>
          /\ pc[t] = "inserting"
          /\ pc' = [pc EXCEPT ![t] = "inserted"]
          /\ ~Pending(receipt[t])
      BY <1>7, <2>3 DEF InsertTransaction, rows
    <3>2. CreatedOn(today)' = CreatedOn(today)
      BY <3>1 DEF CreatedOn
    <3>3. DatedByToday'
      BY <1>0, <3>1 DEF DatedByToday, CommitPath
    <3>4. CountedToday'
      BY <1>0, <3>1, <3>2 DEF CountedToday, CommitPath
    <3>5. InsertedOnce'
      BY <1>0, <2>3, <3>1 DEF InsertedOnce, Used, Pending
    <3>6. NextReceiptNumberFree'
      BY <1>0, <3>1, <3>2 DEF NextReceiptNumberFree
    <3> QED
      BY <3>3, <3>4, <3>5, <3>6
  <2> QED
    BY <2>1, <2>2, <2>3
<1>8. ASSUME NEW t \in Terminals, CompleteSale(t) PROVE Goal
  BY <1>8, SaleKeepsNumbers
<1>9. ASSUME NEW t \in Terminals, Abort(t) \/ DetectDeadlock(t) PROVE Goal
  BY <1>9, <1>b DEF Abort, DetectDeadlock
<1>10. ASSUME NEW c \in Carts,
              \/ Start(c)
              \/ \E p \in Products, price \in Prices : PriceOverride(c, p, price)
              \/ \E cu \in Customers : AttachCustomer(c, cu)
       PROVE  Goal
  BY <1>10, <1>c DEF Start, PriceOverride, AttachCustomer, task
<1>11. ASSUME NEW p \in Removable, RemoveProduct(p) PROVE Goal
  BY <1>11, <1>c DEF RemoveProduct, task
<1>12. CASE Midnight
  <2>1. UNCHANGED <<transactions, pc, receipt, createdOn>> /\ today' = today + 1
    BY <1>12 DEF Midnight, rows, task
  <2>2. ASSUME NEW x \in transactions PROVE x.receipt.day \in Nat
    BY <1>0, <2>2 DEF Transaction, Receipt
  <2>3. ASSUME NEW t \in Terminals, pc[t] \in CommitPath PROVE receipt[t].day \in Nat
    BY <2>3 DEF NumberInv, TypeInv, TaskOK, TaskInv, Receipt
  <2>4. DatedByToday'
    BY <1>0, <2>1, <2>2, <2>3 DEF DatedByToday
  <2>5. CountedToday'
    BY <1>0, <2>1, <2>3 DEF DatedByToday, CountedToday
  <2>6. InsertedOnce'
    BY <1>0, <2>1 DEF InsertedOnce, Used
  <2>7. NextReceiptNumberFree'
    BY <1>0, <2>1, <2>2 DEF DatedByToday, NextReceiptNumberFree
  <2> QED
    BY <2>4, <2>5, <2>6, <2>7
<1>13. CASE UNCHANGED vars
  BY <1>13, <1>c DEF vars, rows, task
<1> QED
  BY <1>1, <1>2, <1>3, <1>4, <1>5, <1>6, <1>7, <1>8, <1>9, <1>10, <1>11, <1>12, <1>13
  DEF Next, Step

\* The number computed from today's committed transactions is never one that a
\* committed transaction of today already has, also across midnight.
THEOREM NextNumberFree == Spec => []NextReceiptNumberFree
<1>1. NumberInv => NextReceiptNumberFree
  BY DEF NumberInv
<1> QED
  BY <1>1, InitNumberInv, NextNumberInv, PTL DEF Spec

-----------------------------------------------------------------------------
(* The lock on the cart *)

\* The request has its cart's lock, or had it and did not commit yet.
Running(t) == pc[t] \notin {"idle", "lockCart"}

\* The request holds its cart's row, so the checks it made on the cart hold
\* and its lines are the ones it would compute now.
CartIsCurrent(t) ==
  /\ cartLock[Cart(t)] = t
  /\ lines[t] = LinesToCheck(request[t])
  /\ status[Cart(t)] = IF Is(t, "checkout") THEN "ready_for_payment" ELSE "active"
  /\ Is(t, "updateQuantity") => request[t].product \in ProductsIn(items[Cart(t)])
  /\ request[t].op \in {"preparePayment", "checkout"} => items[Cart(t)] # <<>>

CartsAreCurrent == \A t \in Terminals : Running(t) => CartIsCurrent(t)

\* Who holds a row's lock is running, and it locked the row for its request.
HoldersRun ==
  /\ \A c \in Carts : cartLock[c] \in Terminals =>
       Running(cartLock[c]) /\ Cart(cartLock[c]) = c
  /\ \A p \in Products : productLock[p] \in Terminals =>
       \E i \in DOMAIN seen[productLock[p]] : lines[productLock[p]][i].product = p

\* A product that a request found in the catalogue stays there while it is locked.
SeenIsActive ==
  \A t \in Terminals : \A i \in DOMAIN seen[t] : isActive[lines[t][i].product]

LockInv == SeenInv /\ CartsAreCurrent /\ HoldersRun /\ SeenIsActive

\* A running request names a cart, and a lock it holds is not free.
LEMMA RunningRequest ==
  ASSUME TypeInv, NEW t \in Terminals, pc[t] # "idle"
  PROVE  /\ request[t] \in Request
         /\ Cart(t) \in Carts
         /\ request[t].op \in {"addBarcode", "updateQuantity", "preparePayment", "checkout"}
         /\ t # NoOne
<1>1. request[t] \in Request
  BY DEF TypeInv, TaskOK, TaskInv
<1> QED
  BY <1>1, RequestFields, CartCheckoutAssumption DEF Cart

\* A request keeps its cart as long as nobody touches the cart's row or lock.
LEMMA CartKept ==
  ASSUME TypeInv, CartsAreCurrent,
         \A u \in Terminals : Running(u)' =>
           /\ Running(u)
           /\ request'[u] = request[u]
           /\ lines'[u] = lines[u]
           /\ cartLock'[Cart(u)] = u
           /\ items'[Cart(u)] = items[Cart(u)]
           /\ status'[Cart(u)] = status[Cart(u)]
  PROVE  CartsAreCurrent'
<1> SUFFICES ASSUME NEW u \in Terminals, Running(u)' PROVE CartIsCurrent(u)'
  BY DEF CartsAreCurrent
<1>1. /\ Running(u) /\ CartIsCurrent(u)
      /\ request'[u] = request[u]
      /\ lines'[u] = lines[u]
      /\ cartLock'[Cart(u)] = u
      /\ items'[Cart(u)] = items[Cart(u)]
      /\ status'[Cart(u)] = status[Cart(u)]
  BY DEF CartsAreCurrent
<1>2. Cart(u)' = Cart(u) /\ Is(u, "checkout")' = Is(u, "checkout")
      /\ Is(u, "updateQuantity")' = Is(u, "updateQuantity")
  BY <1>1 DEF Cart, Is
<1>3. LinesToCheck(request[u])' = LinesToCheck(request[u])
  BY <1>1 DEF LinesToCheck, NewLine, Cart
<1> QED
  BY <1>1, <1>2, <1>3 DEF CartIsCurrent

\* Ending a request, or starting its next attempt, frees its own locks only.
LEMMA EndKeepsCarts ==
  ASSUME LockInv, NEW t \in Terminals, ReleaseLocks(t), ForgetReads(t),
         pc' = [pc EXCEPT ![t] = "idle"] \/ pc' = [pc EXCEPT ![t] = "lockCart"],
         \A u \in Terminals \ {t} : request'[u] = request[u],
         \A c \in Carts : cartLock[c] # t => items'[c] = items[c] /\ status'[c] = status[c]
  PROVE  CartsAreCurrent' /\ HoldersRun'
<1>0. /\ TypeInv /\ CartsAreCurrent /\ HoldersRun
      /\ pc \in [Terminals -> Program]
      /\ cartLock \in [Carts -> Terminals \cup {NoOne}]
      /\ productLock \in [Products -> Terminals \cup {NoOne}]
      /\ lines \in [Terminals -> Seq(Line)]
      /\ seen \in [Terminals -> Seq(Int)]
      /\ NoOne \notin Terminals
  BY CartCheckoutAssumption DEF LockInv, SeenInv, TypeInv, TypeOK
<1>1. ASSUME NEW u \in Terminals, Running(u)'
      PROVE  /\ u # t
             /\ Running(u)
             /\ request'[u] = request[u]
             /\ lines'[u] = lines[u]
             /\ cartLock'[Cart(u)] = u
             /\ items'[Cart(u)] = items[Cart(u)]
             /\ status'[Cart(u)] = status[Cart(u)]
  <2>1. u # t /\ Running(u)
    BY <1>0, <1>1 DEF Running
  <2>2. Cart(u) \in Carts /\ cartLock[Cart(u)] = u
    BY <1>0, <2>1, RunningRequest DEF Running, CartsAreCurrent, CartIsCurrent
  <2> QED
    BY <1>0, <2>1, <2>2 DEF ReleaseLocks, ForgetReads
<1>2. CartsAreCurrent'
  BY <1>0, <1>1, CartKept
<1>3. ASSUME NEW c \in Carts, cartLock'[c] \in Terminals
      PROVE  Running(cartLock[c])' /\ Cart(cartLock[c])' = c
  <2>1. cartLock'[c] = cartLock[c] /\ cartLock[c] # t
    BY <1>0, <1>3 DEF ReleaseLocks
  <2>2. Running(cartLock[c]) /\ Cart(cartLock[c]) = c
    BY <1>0, <1>3, <2>1 DEF HoldersRun
  <2> QED
    BY <1>0, <1>3, <2>1, <2>2 DEF Running, Cart
<1>4. ASSUME NEW p \in Products, productLock'[p] \in Terminals
      PROVE  \E i \in DOMAIN seen'[productLock'[p]] : lines'[productLock'[p]][i].product = p
  <2>1. productLock'[p] = productLock[p] /\ productLock[p] # t
    BY <1>0, <1>4 DEF ReleaseLocks
  <2> QED
    BY <1>0, <1>4, <2>1 DEF ForgetReads, HoldersRun
<1> QED
  BY <1>2, <1>3, <1>4 DEF HoldersRun

\* A step that leaves the requests and the locks alone, and the rows of every
\* locked cart, keeps the carts current.
LEMMA RowsChangeKeepsCarts ==
  ASSUME LockInv, UNCHANGED <<locks, task>>,
         \A c \in Carts : cartLock[c] # NoOne =>
           items'[c] = items[c] /\ status'[c] = status[c]
  PROVE  CartsAreCurrent' /\ HoldersRun'
<1>0. TypeInv /\ CartsAreCurrent /\ HoldersRun
  BY DEF LockInv, SeenInv
<1>1. UNCHANGED <<pc, request, lines, seen, cartLock, productLock>>
  BY DEF locks, task
<1>2. ASSUME NEW u \in Terminals, Running(u)'
      PROVE  Running(u) /\ cartLock[Cart(u)] = u /\ Cart(u) \in Carts /\ u # NoOne
  BY <1>0, <1>1, <1>2, RunningRequest DEF Running, CartsAreCurrent, CartIsCurrent
<1>3. CartsAreCurrent'
  BY <1>0, <1>1, <1>2, CartKept
<1>4. HoldersRun'
  BY <1>0, <1>1 DEF HoldersRun, Running, Cart
<1> QED
  BY <1>3, <1>4

\* A step of one request that changes neither rows nor the cart locks, and whose
\* cart and lines stay the ones it had.
LEMMA TaskStepKeepsCarts ==
  ASSUME TypeInv, CartsAreCurrent, UNCHANGED <<rows, cartLock, request, lines>>,
         \A u \in Terminals : Running(u)' => Running(u)
  PROVE  CartsAreCurrent'
<1>1. UNCHANGED <<items, status>>
  BY DEF rows
<1>2. ASSUME NEW u \in Terminals, Running(u)' PROVE Running(u) /\ cartLock[Cart(u)] = u
  BY <1>2 DEF CartsAreCurrent, CartIsCurrent
<1> QED
  BY <1>1, <1>2, CartKept

\* The cart a request locks passed its checks, and the lines are computed from it.
LEMMA LockCartKeepsCarts ==
  ASSUME LockInv, NEW t \in Terminals, LockCart(t), Admissible(request[t])
  PROVE  CartsAreCurrent' /\ HoldersRun'
<1>0. /\ TypeInv /\ CartsAreCurrent /\ HoldersRun
      /\ pc \in [Terminals -> Program]
      /\ cartLock \in [Carts -> Terminals \cup {NoOne}]
      /\ lines \in [Terminals -> Seq(Line)]
      /\ NoOne \notin Terminals
  BY CartCheckoutAssumption DEF LockInv, SeenInv, TypeInv, TypeOK
<1>1. /\ pc[t] = "lockCart"
      /\ cartLock[Cart(t)] = NoOne
      /\ cartLock' = [cartLock EXCEPT ![Cart(t)] = t]
      /\ lines' = [lines EXCEPT ![t] = LinesToCheck(request[t])]
      /\ pc' = [pc EXCEPT ![t] = "lockProducts"]
      /\ UNCHANGED <<items, status, request, seen, productLock>>
  BY DEF LockCart, TakeCartLock, rows
<1>2. request[t] \in Request /\ Cart(t) \in Carts /\ seen[t] = <<>>
  BY <1>0, <1>1, RunningRequest DEF TypeInv, TaskOK, TaskInv
<1>3. CartIsCurrent(t)'
  <2>1. Cart(t)' = Cart(t) /\ request'[t] = request[t] /\ cartLock'[Cart(t)] = t
    BY <1>0, <1>1, <1>2 DEF Cart
  <2>2. LinesToCheck(request[t])' = LinesToCheck(request[t])
    BY <1>1 DEF LinesToCheck, NewLine
  <2>3. lines'[t] = LinesToCheck(request[t])
    BY <1>0, <1>1
  <2>4. CASE Is(t, "checkout")
    BY <1>1, <2>1, <2>2, <2>3, <2>4 DEF CartIsCurrent, Admissible, PayableCart, Is, Cart
  <2>5. CASE Is(t, "preparePayment")
    BY <1>1, <2>1, <2>2, <2>3, <2>5 DEF CartIsCurrent, Admissible, ActiveCart, Is, Cart
  <2>6. CASE Is(t, "updateQuantity")
    BY <1>1, <2>1, <2>2, <2>3, <2>6 DEF CartIsCurrent, Admissible, ActiveCart, Is, Cart
  <2>7. CASE Is(t, "addBarcode")
    BY <1>1, <2>1, <2>2, <2>3, <2>7 DEF CartIsCurrent, Admissible, ActiveCart, Is, Cart
  <2> QED
    BY <1>2, <2>4, <2>5, <2>6, <2>7, RequestFields DEF Is
<1>4. ASSUME NEW u \in Terminals, u # t, Running(u)' PROVE CartIsCurrent(u)'
  <2>1. Running(u) /\ CartIsCurrent(u)
    BY <1>0, <1>1, <1>4 DEF Running, CartsAreCurrent
  <2>2. Cart(u)' = Cart(u) /\ Cart(u) # Cart(t) /\ Cart(u) \in Carts
    BY <1>0, <1>1, <2>1, RunningRequest DEF CartIsCurrent, Cart, Running
  <2>3. cartLock'[Cart(u)] = u /\ lines'[u] = lines[u] /\ request'[u] = request[u]
    BY <1>0, <1>1, <1>4, <2>1, <2>2 DEF CartIsCurrent
  <2>4. LinesToCheck(request[u])' = LinesToCheck(request[u])
    BY <1>1 DEF LinesToCheck, NewLine
  <2> QED
    BY <1>1, <2>1, <2>2, <2>3, <2>4 DEF CartIsCurrent, Is, Cart
<1>5. ASSUME NEW c \in Carts, cartLock'[c] \in Terminals
      PROVE  Running(cartLock[c])' /\ Cart(cartLock[c])' = c
  <2>1. CASE c = Cart(t)
    BY <1>0, <1>1, <1>2, <2>1 DEF Running, Cart
  <2>2. CASE c # Cart(t)
    BY <1>0, <1>1, <1>2, <1>5, <2>2 DEF HoldersRun, Running, Cart
  <2> QED
    BY <2>1, <2>2
<1>6. ASSUME NEW p \in Products, productLock'[p] \in Terminals
      PROVE  \E i \in DOMAIN seen'[productLock'[p]] : lines'[productLock'[p]][i].product = p
  <2>1. PICK i \in DOMAIN seen[productLock[p]] : lines[productLock[p]][i].product = p
    BY <1>0, <1>1, <1>6 DEF HoldersRun
  <2>2. productLock[p] # t
    BY <1>2, <2>1
  <2> QED
    BY <1>0, <1>1, <1>6, <2>1, <2>2
<1> QED
  BY <1>3, <1>4, <1>5, <1>6 DEF CartsAreCurrent, HoldersRun

\* The product a request locks is the one of its next line.
LEMMA LockProductKeepsHolders ==
  ASSUME LockInv, NEW t \in Terminals, LockProduct(t),
         isActive[NextLine(t).product],
         Sufficient(NextLine(t).product, NextLine(t).quantity, stock[NextLine(t).product])
  PROVE  HoldersRun' /\ SeenIsActive'
<1> DEFINE p == NextLine(t).product
           n == Len(seen[t]) + 1
<1>0. /\ HoldersRun /\ SeenIsActive
      /\ productLock \in [Products -> Terminals \cup {NoOne}]
      /\ lines \in [Terminals -> Seq(Line)]
      /\ seen \in [Terminals -> Seq(Int)]
      /\ stock \in [Products -> Int]
      /\ lines[t] \in Seq(Line)
      /\ seen[t] \in Seq(Int)
  BY DEF LockInv, SeenInv, TypeInv, TypeOK
<1>1. /\ seen' = [seen EXCEPT ![t] = Append(@, stock[p])]
      /\ productLock' = [productLock EXCEPT ![p] = t]
      /\ UNCHANGED <<isActive, pc, request, lines, cartLock>>
      /\ Len(seen[t]) < Len(lines[t])
  BY DEF LockProduct, TakeProductLock, rows
<1>2. NextLine(t) = lines[t][n] /\ n \in DOMAIN lines[t] /\ lines[t][n] \in Line
  BY <1>0, <1>1 DEF NextLine
<1>3. p \in Products /\ p = lines[t][n].product /\ isActive[p]
  BY <1>2 DEF Line
<1> HIDE DEF p
<1>4. /\ DOMAIN seen'[t] = DOMAIN seen[t] \cup {n}
      /\ \A u \in Terminals \ {t} : seen'[u] = seen[u]
  BY <1>0, <1>1
<1>5. SeenIsActive'
  BY <1>0, <1>1, <1>3, <1>4 DEF SeenIsActive
<1>6. ASSUME NEW c \in Carts, cartLock'[c] \in Terminals
      PROVE  Running(cartLock[c])' /\ Cart(cartLock[c])' = c
  BY <1>0, <1>1, <1>6 DEF HoldersRun, Running, Cart
<1>7. ASSUME NEW q \in Products, productLock'[q] \in Terminals
      PROVE  \E i \in DOMAIN seen'[productLock'[q]] : lines'[productLock'[q]][i].product = q
  <2>1. CASE q = p
    BY <1>0, <1>1, <1>3, <1>4, <2>1
  <2>2. CASE q # p
    <3>1. productLock'[q] = productLock[q]
      BY <1>0, <1>1, <2>2
    <3>2. PICK i \in DOMAIN seen[productLock[q]] : lines[productLock[q]][i].product = q
      BY <1>0, <1>7, <3>1 DEF HoldersRun
    <3>3. i \in DOMAIN seen'[productLock[q]]
      BY <1>4, <1>7, <3>1, <3>2
    <3> QED
      BY <1>1, <3>1, <3>2, <3>3
  <2> QED
    BY <2>1, <2>2
<1> QED
  BY <1>5, <1>6, <1>7 DEF HoldersRun

LEMMA InitLockInv == Init => LockInv
<1> SUFFICES ASSUME Init PROVE CartsAreCurrent /\ HoldersRun /\ SeenIsActive
  BY InitSeenInv DEF LockInv
<1> QED
  BY CartCheckoutAssumption
     DEF Init, CartsAreCurrent, HoldersRun, SeenIsActive, Running

LEMMA NextLockInv == LockInv /\ [Next]_vars => LockInv'
<1> SUFFICES ASSUME LockInv, [Next]_vars
             PROVE  CartsAreCurrent' /\ HoldersRun' /\ SeenIsActive'
  BY NextSeenInv DEF LockInv
<1> DEFINE Goal == CartsAreCurrent' /\ HoldersRun' /\ SeenIsActive'
<1>0. /\ TypeInv /\ CartsAreCurrent /\ HoldersRun /\ SeenIsActive /\ SeenIsLocked
      /\ pc \in [Terminals -> Program]
      /\ request \in [Terminals -> Request \cup {NoRequest}]
      /\ lines \in [Terminals -> Seq(Line)]
      /\ seen \in [Terminals -> Seq(Int)]
      /\ isActive \in [Products -> BOOLEAN]
      /\ items \in [Carts -> Seq(Line)]
      /\ status \in [Carts -> CartStatus]
      /\ cartLock \in [Carts -> Terminals \cup {NoOne}]
      /\ NoOne \notin Terminals
  BY CartCheckoutAssumption DEF LockInv, SeenInv, TypeInv, TypeOK
<1>a. ASSUME NEW t \in Terminals, isActive' = isActive, ForgetReads(t) PROVE SeenIsActive'
  BY <1>0, <1>a DEF ForgetReads, SeenIsActive
<1>b. ASSUME NEW t \in Terminals, Rollback(t) PROVE Goal
  BY <1>0, <1>a, <1>b, EndKeepsCarts DEF Rollback, EndRequest, rows
<1>c. ASSUME NEW t \in Terminals, EndRequest(t), isActive' = isActive,
             \A c \in Carts : c # Cart(t) => items'[c] = items[c] /\ status'[c] = status[c],
             cartLock[Cart(t)] = t
      PROVE  Goal
  BY <1>0, <1>a, <1>c, EndKeepsCarts DEF EndRequest
<1>d. ASSUME UNCHANGED <<locks, task, isActive>>,
             \A c \in Carts : cartLock[c] # NoOne =>
               items'[c] = items[c] /\ status'[c] = status[c]
      PROVE  Goal
  <2>1. SeenIsActive'
    BY <1>0, <1>d DEF task, SeenIsActive
  <2> QED
    BY <1>d, <2>1, RowsChangeKeepsCarts
<1>1. ASSUME NEW t \in Terminals, NEW r \in Workload, Submit(t, r) PROVE Goal
  <2>1. /\ pc[t] = "idle"
        /\ pc' = [pc EXCEPT ![t] = "lockCart"]
        /\ request' = [request EXCEPT ![t] = r]
        /\ UNCHANGED <<items, status, isActive, cartLock, productLock, lines, seen>>
    BY <1>1 DEF Submit, rows, locks
  <2>2. ASSUME NEW u \in Terminals, Running(u)'
        PROVE  Running(u) /\ request'[u] = request[u] /\ cartLock[Cart(u)] = u
    BY <1>0, <2>1, <2>2 DEF Running, CartsAreCurrent, CartIsCurrent
  <2>3. CartsAreCurrent'
    BY <1>0, <2>1, <2>2, CartKept
  <2>4. HoldersRun'
    BY <1>0, <2>1 DEF HoldersRun, Running, Cart
  <2> QED
    BY <1>0, <2>1, <2>3, <2>4 DEF SeenIsActive
<1>2. ASSUME NEW t \in Terminals, LockCart(t) PROVE Goal
  <2>1. CASE Admissible(request[t])
    <3>1. seen[t] = <<>>
      BY <1>0, <1>2 DEF LockCart, TypeInv, TaskOK, TaskInv
    <3>2. lines' = [lines EXCEPT ![t] = LinesToCheck(request[t])]
          /\ UNCHANGED <<isActive, seen>>
      BY <1>2, <2>1 DEF LockCart, rows
    <3>3. SeenIsActive'
      BY <1>0, <3>1, <3>2 DEF SeenIsActive
    <3> QED
      BY <1>2, <2>1, <3>3, LockCartKeepsCarts
  <2>2. CASE ~Admissible(request[t])
    BY <1>2, <1>b, <2>2 DEF LockCart
  <2> QED
    BY <2>1, <2>2
<1>3. ASSUME NEW t \in Terminals, LockProduct(t) PROVE Goal
  <2> DEFINE p == NextLine(t).product
             servable == isActive[p] /\ Sufficient(p, NextLine(t).quantity, stock[p])
  <2>1. CASE servable
    <3>1. UNCHANGED <<rows, cartLock, request, lines, pc>>
      BY <1>3, <2>1 DEF LockProduct
    <3>2. CartsAreCurrent'
      BY <1>0, <3>1, TaskStepKeepsCarts DEF Running
    <3> QED
      BY <1>3, <2>1, <3>2, LockProductKeepsHolders
  <2>2. CASE ~servable
    BY <1>3, <1>b, <2>2 DEF LockProduct
  <2> QED
    BY <2>1, <2>2
<1>4. ASSUME NEW t \in Terminals, pc[t] # "idle", pc[t] # "lockCart"
      PROVE  Cart(t) \in Carts /\ cartLock[Cart(t)] = t
  BY <1>0, <1>4, RunningRequest DEF CartsAreCurrent, CartIsCurrent, Running
<1>5. ASSUME NEW t \in Terminals, SaveLine(t) PROVE Goal
  BY <1>0, <1>4, <1>5, <1>c DEF SaveLine, Checked
<1>6. ASSUME NEW t \in Terminals, SetReady(t) PROVE Goal
  BY <1>0, <1>4, <1>6, <1>c DEF SetReady, Checked
<1>7. ASSUME NEW t \in Terminals, CompleteSale(t) PROVE Goal
  BY <1>0, <1>4, <1>7, <1>c DEF CompleteSale
<1>8. ASSUME NEW t \in Terminals,
             UNCHANGED <<rows, locks, request, lines, seen>>,
             pc[t] \notin {"idle", "lockCart"},
             \E s \in CommitPath : pc' = [pc EXCEPT ![t] = s]
      PROVE  Goal
  <2>1. UNCHANGED <<rows, cartLock, productLock, request, lines, seen, isActive>>
    BY <1>8 DEF locks, rows
  <2>2. ASSUME NEW u \in Terminals PROVE Running(u)' <=> Running(u)
    BY <1>0, <1>8 DEF Running, CommitPath
  <2>3. CartsAreCurrent'
    BY <1>0, <2>1, <2>2, TaskStepKeepsCarts
  <2>4. HoldersRun'
    BY <1>0, <2>1, <2>2 DEF HoldersRun, Cart
  <2> QED
    BY <1>0, <2>1, <2>3, <2>4 DEF SeenIsActive
<1>9. ASSUME NEW t \in Terminals, GenerateReceiptNumber(t) \/ CreateTransaction(t)
      PROVE  Goal
  BY <1>9, <1>8 DEF GenerateReceiptNumber, CreateTransaction, Checked, CommitPath
<1>10. ASSUME NEW t \in Terminals, InsertTransaction(t) PROVE Goal
  <2>1. CASE ~Used(receipt[t])
    BY <1>10, <1>8, <2>1 DEF InsertTransaction, CommitPath
  <2>2. CASE Used(receipt[t]) /\ MayRetry(t)
    BY <1>0, <1>10, <1>a, <2>2, EndKeepsCarts DEF InsertTransaction, Retry, rows
  <2>3. CASE Used(receipt[t]) /\ ~MayRetry(t)
    BY <1>10, <1>b, <2>3 DEF InsertTransaction
  <2> QED
    BY <2>1, <2>2, <2>3
<1>11. ASSUME NEW t \in Terminals, Abort(t) \/ DetectDeadlock(t) PROVE Goal
  BY <1>11, <1>b DEF Abort, DetectDeadlock
<1>12. ASSUME NEW c \in Carts, Start(c) PROVE Goal
  <2>1. status[c] = "none" /\ status' = [status EXCEPT ![c] = "active"]
        /\ UNCHANGED <<locks, task, isActive, items>>
    BY <1>12 DEF Start
  <2>2. cartLock[c] = NoOne
    <3>1. ASSUME cartLock[c] \in Terminals
          PROVE  status[c] \in {"active", "ready_for_payment"}
      <4>1. Running(cartLock[c]) /\ Cart(cartLock[c]) = c
        BY <1>0, <3>1 DEF HoldersRun
      <4>2. CartIsCurrent(cartLock[c])
        BY <1>0, <3>1, <4>1 DEF CartsAreCurrent
      <4> QED
        BY <4>1, <4>2 DEF CartIsCurrent
    <3> QED
      BY <1>0, <2>1, <3>1
  <2> QED
    BY <1>0, <1>d, <2>1, <2>2
<1>13. ASSUME NEW c \in Carts, NEW p \in Products, NEW price \in Prices,
              PriceOverride(c, p, price)
       PROVE  Goal
  BY <1>0, <1>d, <1>13 DEF PriceOverride
<1>14. ASSUME NEW c \in Carts, NEW cu \in Customers, AttachCustomer(c, cu) PROVE Goal
  BY <1>d, <1>14 DEF AttachCustomer
<1>15. ASSUME NEW p \in Products, RemoveProduct(p) PROVE Goal
  <2>1. /\ productLock[p] = NoOne
        /\ isActive' = [isActive EXCEPT ![p] = FALSE]
        /\ UNCHANGED <<status, items, locks, task>>
    BY <1>15 DEF RemoveProduct
  <2>2. ASSUME NEW u \in Terminals, NEW i \in DOMAIN seen[u]
        PROVE  isActive'[lines[u][i].product]
    <3>1. productLock[lines[u][i].product] = u /\ isActive[lines[u][i].product]
      BY <1>0 DEF SeenIsLocked, SeenIsActive
    <3> QED
      BY <1>0, <2>1, <3>1
  <2>3. SeenIsActive'
    BY <2>1, <2>2 DEF SeenIsActive, task
  <2> QED
    BY <2>1, <2>3, RowsChangeKeepsCarts
<1>16. CASE Midnight \/ UNCHANGED vars
  BY <1>16, <1>d DEF Midnight, vars, rows
<1> QED
  BY <1>1, <1>2, <1>3, <1>5, <1>6, <1>7, <1>9, <1>10, <1>11, <1>12, <1>13, <1>14,
     <1>15, <1>16, CartCheckoutAssumption DEF Next, Step

-----------------------------------------------------------------------------
(* A cart that is ready for payment *)

FrozenCarts ==
  \A c \in Carts :
    status[c] \in {"ready_for_payment", "completed"} =>
      /\ items'[c] = items[c]
      /\ customer'[c] = customer[c]
      /\ status'[c] \in {status[c], "completed"}

LEMMA NextFrozenCarts == LockInv /\ [Next]_vars => FrozenCarts
<1> SUFFICES ASSUME LockInv, [Next]_vars, NEW c \in Carts,
                    status[c] \in {"ready_for_payment", "completed"}
             PROVE  /\ items'[c] = items[c]
                    /\ customer'[c] = customer[c]
                    /\ status'[c] \in {status[c], "completed"}
  BY DEF FrozenCarts
<1> DEFINE Goal == /\ items'[c] = items[c]
                   /\ customer'[c] = customer[c]
                   /\ status'[c] \in {status[c], "completed"}
<1>0. /\ CartsAreCurrent
      /\ items \in [Carts -> Seq(Line)]
      /\ status \in [Carts -> CartStatus]
      /\ customer \in [Carts -> Customers \cup {NoCustomer}]
  BY DEF LockInv, SeenInv, TypeInv, TypeOK
<1>a. ASSUME UNCHANGED <<items, customer, status>> PROVE Goal
  BY <1>a
<1>b. ASSUME NEW t \in Terminals, Rollback(t) PROVE Goal
  BY <1>a, <1>b DEF Rollback, rows
<1>1. ASSUME NEW t \in Terminals, SaveLine(t) PROVE Goal
  <2>1. CartIsCurrent(t) /\ ~Is(t, "checkout")
    BY <1>0, <1>1 DEF SaveLine, Checked, CartsAreCurrent, Running, Is
  <2>2. Cart(t) # c
    BY <2>1 DEF CartIsCurrent
  <2> QED
    BY <1>0, <1>1, <2>2 DEF SaveLine
<1>2. ASSUME NEW t \in Terminals, SetReady(t) PROVE Goal
  <2>1. CartIsCurrent(t) /\ ~Is(t, "checkout")
    BY <1>0, <1>2 DEF SetReady, Checked, CartsAreCurrent, Running, Is
  <2>2. Cart(t) # c
    BY <2>1 DEF CartIsCurrent
  <2> QED
    BY <1>0, <1>2, <2>2 DEF SetReady
<1>3. ASSUME NEW t \in Terminals, CompleteSale(t) PROVE Goal
  BY <1>0, <1>3 DEF CompleteSale
<1>4. ASSUME NEW t \in Terminals, LockCart(t) PROVE Goal
  <2>1. CASE Admissible(request[t])
    BY <1>4, <1>a, <2>1 DEF LockCart, rows
  <2>2. CASE ~Admissible(request[t])
    BY <1>4, <1>b, <2>2 DEF LockCart
  <2> QED
    BY <2>1, <2>2
<1>5. ASSUME NEW t \in Terminals, LockProduct(t) PROVE Goal
  BY <1>5, <1>a, <1>b DEF LockProduct, rows
<1>6. ASSUME NEW t \in Terminals, InsertTransaction(t) PROVE Goal
  BY <1>6, <1>a, <1>b DEF InsertTransaction, Retry, rows
<1>7. ASSUME NEW t \in Terminals,
             \/ \E r \in Workload : Submit(t, r)
             \/ GenerateReceiptNumber(t)
             \/ CreateTransaction(t)
      PROVE  Goal
  BY <1>7, <1>a DEF Submit, GenerateReceiptNumber, CreateTransaction, rows
<1>8. ASSUME NEW t \in Terminals, Abort(t) \/ DetectDeadlock(t) PROVE Goal
  BY <1>8, <1>b DEF Abort, DetectDeadlock
<1>9. ASSUME NEW d \in Carts,
             \/ Start(d)
             \/ \E p \in Products, price \in Prices : PriceOverride(d, p, price)
             \/ \E cu \in Customers : AttachCustomer(d, cu)
      PROVE  Goal
  <2>1. status[d] \in {"none", "active"}
    BY <1>9 DEF Start, PriceOverride, AttachCustomer, ActiveCart
  <2>2. d # c
    BY <2>1
  <2> QED
    BY <1>0, <1>9, <2>2 DEF Start, PriceOverride, AttachCustomer
<1>10. ASSUME NEW p \in Removable, RemoveProduct(p) PROVE Goal
  BY <1>10, <1>a DEF RemoveProduct
<1>11. CASE Midnight \/ UNCHANGED vars
  BY <1>11, <1>a DEF Midnight, vars, rows
<1> QED
  BY <1>1, <1>2, <1>3, <1>4, <1>5, <1>6, <1>7, <1>8, <1>9, <1>10, <1>11 DEF Next, Step

\* While a request runs, nobody else touches its cart: the status it checked and
\* the lines it computed are those of the committed cart until it commits.
THEOREM LocksHold == Spec => []LockInv
<1> QED
  BY InitLockInv, NextLockInv, PTL DEF Spec

\* From preparePayment on no item, price or customer of a cart changes, whoever
\* edits it at the same time.
THEOREM ReadyCartsFrozen == Spec => ReadyCartFrozen
<1>1. LockInv /\ [Next]_vars => FrozenCarts
  BY NextFrozenCarts
<1> QED
  BY <1>1, LocksHold, PTL DEF Spec, ReadyCartFrozen, FrozenCarts

-----------------------------------------------------------------------------
(* Sales *)

SaleInv == LockInv /\ SoldOnce /\ SaleMatchesCart /\ LogExplainsStock

\* What a sale writes: one transaction, for a cart that was ready, with the cart's
\* items and customer.
LEMMA SaleWrites ==
  ASSUME LockInv, NEW t \in Terminals, CompleteSale(t)
  PROVE  /\ Cart(t) \in Carts
         /\ status[Cart(t)] = "ready_for_payment"
         /\ items[Cart(t)] # <<>>
         /\ lines[t] = items[Cart(t)]
         /\ lines[t] \in Seq(Line)
         /\ status' = [status EXCEPT ![Cart(t)] = "completed"]
         /\ transactions' = transactions \cup
              {[cart |-> Cart(t), lines |-> lines[t], customer |-> customer[Cart(t)],
                receipt |-> receipt[t], createdOn |-> createdOn[t]]}
         /\ UNCHANGED <<isActive, items, customer>>
<1>1. pc[t] = "inserted" /\ TypeInv /\ CartsAreCurrent
  BY DEF CompleteSale, LockInv, SeenInv
<1>2. Is(t, "checkout") /\ Cart(t) \in Carts
  BY <1>1, RunningRequest DEF TypeInv, TaskOK, TaskInv, CommitPath, Is
<1>3. CartIsCurrent(t)
  BY <1>1 DEF CartsAreCurrent, Running
<1>4. lines[t] = items[Cart(t)]
  BY <1>2, <1>3 DEF CartIsCurrent, LinesToCheck, Is, Cart
<1>5. lines[t] \in Seq(Line)
  BY <1>1 DEF TypeInv, TypeOK
<1> QED
  BY <1>2, <1>3, <1>4, <1>5 DEF CartIsCurrent, Is, CompleteSale

\* What a checkout read of its products is what is on hand when it commits.
LEMMA OnHandIsSeen ==
  ASSUME SeenInv, NEW t \in Terminals, pc[t] \in CommitPath
  PROVE  OnHandSeen(t) = stock
<1>1. /\ lines[t] \in Seq(Line)
      /\ seen[t] \in Seq(Int)
      /\ Len(seen[t]) = Len(lines[t])
      /\ stock \in [Products -> Int]
      /\ CheckedStockIsCurrent
  BY DEF SeenInv, TypeInv, TypeOK, TaskOK, TaskInv
<1>2. ASSUME NEW p \in Products PROVE OnHandSeen(t)[p] = stock[p]
  <2>1. CASE p \in ProductsIn(lines[t])
    <3>1. LineOf(lines[t], p) \in DOMAIN lines[t] /\ lines[t][LineOf(lines[t], p)].product = p
      BY <1>1, <2>1, LineOfFound
    <3>2. LineOf(lines[t], p) \in DOMAIN seen[t]
      BY <1>1, <3>1
    <3>3. seen[t][LineOf(lines[t], p)] = stock[p]
      BY <1>1, <3>1, <3>2 DEF CheckedStockIsCurrent
    <3> QED
      BY <2>1, <3>3 DEF OnHandSeen
  <2>2. CASE p \notin ProductsIn(lines[t])
    BY <2>2 DEF OnHandSeen
  <2> QED
    BY <2>1, <2>2
<1> QED
  BY <1>1, <1>2 DEF OnHandSeen

\* Only a sale completes a cart, sells stock and writes transactions and sale logs.
LEMMA OnlySalesComplete ==
  ASSUME LockInv, [Next]_vars
  PROVE  \/ \E t \in Terminals : CompleteSale(t)
         \/ /\ UNCHANGED <<stock, transactions, inventoryLog>>
            /\ \A c \in Carts : status'[c] = "completed" => status[c] = "completed"
<1>1. status \in [Carts -> CartStatus]
  BY DEF LockInv, SeenInv, TypeInv, TypeOK
<1>2. \/ UNCHANGED status
      \/ \E t \in Terminals : SetReady(t) \/ CompleteSale(t)
      \/ \E c \in Carts : Start(c)
  <2>1. ASSUME NEW t \in Terminals, Rollback(t) \/ Retry(t) PROVE UNCHANGED status
    BY <2>1 DEF Rollback, Retry, rows
  <2>2. ASSUME NEW t \in Terminals, LockCart(t) \/ LockProduct(t) PROVE UNCHANGED status
    BY <2>1, <2>2 DEF LockCart, LockProduct, rows
  <2>3. ASSUME NEW t \in Terminals,
               SaveLine(t) \/ GenerateReceiptNumber(t) \/ CreateTransaction(t)
        PROVE  UNCHANGED status
    BY <2>3 DEF SaveLine, GenerateReceiptNumber, CreateTransaction, rows
  <2>4. ASSUME NEW t \in Terminals, InsertTransaction(t) PROVE UNCHANGED status
    BY <2>1, <2>4 DEF InsertTransaction, rows
  <2>5. ASSUME NEW t \in Terminals, Abort(t) \/ DetectDeadlock(t) PROVE UNCHANGED status
    BY <2>1, <2>5 DEF Abort, DetectDeadlock
  <2>6. ASSUME NEW t \in Terminals, NEW r, Submit(t, r) PROVE UNCHANGED status
    BY <2>6 DEF Submit, rows
  <2>7. ASSUME NEW c \in Carts,
               \/ \E cu \in Customers : AttachCustomer(c, cu)
               \/ \E p \in Products, price \in Prices : PriceOverride(c, p, price)
        PROVE  UNCHANGED status
    BY <2>7 DEF AttachCustomer, PriceOverride
  <2>8. ASSUME NEW p, RemoveProduct(p) PROVE UNCHANGED status
    BY <2>8 DEF RemoveProduct
  <2>9. CASE Midnight \/ UNCHANGED vars
    BY <2>9 DEF Midnight, vars, rows
  <2> QED
    BY <2>2, <2>3, <2>4, <2>5, <2>6, <2>7, <2>8, <2>9 DEF Next, Step
<1>3. UNCHANGED <<stock, transactions, inventoryLog>> \/ (\E t \in Terminals : CompleteSale(t))
  BY OnlySalesSell
<1> QED
  BY <1>1, <1>2, <1>3 DEF SetReady, Start

\* Where row i of a product's log has to start.
RowStart(log, p, i) == IF i = 1 THEN InitialStock[p] ELSE log[i - 1].quantityAfter

LogExplains(p, log, onHand) ==
  /\ \A i \in DOMAIN log : log[i].quantityBefore = RowStart(log, p, i)
  /\ onHand = RowStart(log, p, Len(log) + 1)

LEMMA LogExplainsSplit ==
  LogExplainsStock <=> \A p \in Products : LogExplains(p, inventoryLog[p], stock[p])
BY DEF LogExplainsStock, LogExplains, RowStart

\* A row that starts at the quantity on hand and ends at the new one continues a log.
LEMMA LogGrows ==
  ASSUME NEW p \in Products, NEW log \in Seq(SaleLog), NEW row \in SaleLog,
         LogExplains(p, log, row.quantityBefore)
  PROVE  LogExplains(p, Append(log, row), row.quantityAfter)
<1> DEFINE new == Append(log, row)
           n == Len(log) + 1
<1>1. Len(log) \in Nat /\ Len(new) = n /\ DOMAIN new = DOMAIN log \cup {n} /\ new[n] = row
  OBVIOUS
<1>2. \A i \in DOMAIN log : new[i] = log[i]
  OBVIOUS
<1>3. \A i \in 1 .. n : RowStart(new, p, i) = RowStart(log, p, i)
  <2> SUFFICES ASSUME NEW i \in 1 .. n, i # 1 PROVE new[i - 1] = log[i - 1]
    BY DEF RowStart
  <2> QED
    BY <1>1, <1>2
<1>4. row.quantityBefore = RowStart(log, p, n)
  BY DEF LogExplains
<1>5. RowStart(new, p, n + 1) = row.quantityAfter
  BY <1>1 DEF RowStart
<1> HIDE DEF new
<1> QED
  BY <1>1, <1>2, <1>3, <1>4, <1>5 DEF LogExplains, new

\* The sale logs are written from quantities read several statements earlier, which
\* the product locks keep current: every log continues.
LEMMA SaleKeepsLog ==
  ASSUME LockInv, LogExplainsStock, NEW t \in Terminals, CompleteSale(t)
  PROVE  LogExplainsStock'
<1>1. /\ lines[t] \in Seq(Line)
      /\ stock \in [Products -> Int]
      /\ inventoryLog \in [Products -> Seq(SaleLog)]
      /\ Cart(t) \in Carts
      /\ OnHandSeen(t) = stock
  BY SaleWrites, OnHandIsSeen DEF LockInv, SeenInv, TypeInv, TypeOK, CompleteSale, CommitPath
<1>2. /\ stock' = StockAfter(stock, lines[t])
      /\ inventoryLog' = LogAfter(inventoryLog, stock, lines[t], Cart(t))
  BY <1>1 DEF CompleteSale
<1>3. ASSUME NEW p \in Products PROVE LogExplains(p, inventoryLog'[p], stock'[p])
  <2> DEFINE after == stock[p] - QuantityIn(lines[t], p)
             row == [cart |-> Cart(t), quantityBefore |-> stock[p], quantityAfter |-> after]
  <2>0. LogExplains(p, inventoryLog[p], stock[p])
    BY LogExplainsSplit
  <2>1. CASE p \in Tracked \cap ProductsIn(lines[t])
    <3>1. row \in SaleLog
      BY <1>1, QuantityInType DEF SaleLog
    <3>2. inventoryLog'[p] = Append(inventoryLog[p], row) /\ stock'[p] = after
      BY <1>2, <2>1 DEF LogAfter, StockAfter
    <3>3. row.quantityBefore = stock[p] /\ row.quantityAfter = after
      OBVIOUS
    <3> HIDE DEF row, after
    <3> QED
      BY <1>1, <2>0, <3>1, <3>2, <3>3, LogGrows
  <2>2. CASE p \notin Tracked \cap ProductsIn(lines[t])
    <3>1. inventoryLog'[p] = inventoryLog[p]
      BY <1>2, <2>2 DEF LogAfter
    <3>2. stock'[p] = stock[p]
      BY <1>1, <1>2, <2>2 DEF StockAfter, QuantityIn
    <3> QED
      BY <2>0, <3>1, <3>2
  <2> QED
    BY <2>1, <2>2
<1> QED
  BY <1>3, LogExplainsSplit DEF LogExplainsStock, LogExplains, RowStart

\* The cart of a sale was not completed before, so no transaction sold it.
LEMMA SaleKeepsSoldOnce ==
  ASSUME LockInv, SoldOnce, NEW t \in Terminals, CompleteSale(t)
  PROVE  SoldOnce'
<1> DEFINE sale == [cart |-> Cart(t), lines |-> lines[t], customer |-> customer[Cart(t)],
                    receipt |-> receipt[t], createdOn |-> createdOn[t]]
<1>1. /\ Cart(t) \in Carts
      /\ status[Cart(t)] = "ready_for_payment"
      /\ status' = [status EXCEPT ![Cart(t)] = "completed"]
      /\ transactions' = transactions \cup {sale}
      /\ status \in [Carts -> CartStatus]
  BY SaleWrites DEF LockInv, SeenInv, TypeInv, TypeOK
<1>2. sale.cart = Cart(t)
  OBVIOUS
<1> HIDE DEF sale
<1>3. \A x \in transactions : x.cart # Cart(t)
  BY <1>1 DEF SoldOnce
<1>4. ASSUME NEW c \in Carts
      PROVE  status'[c] = "completed" <=> \E x \in transactions' : x.cart = c
  BY <1>1, <1>2 DEF SoldOnce
<1>5. \A x, y \in transactions' : x.cart = y.cart => x = y
  BY <1>1, <1>2, <1>3 DEF SoldOnce
<1> QED
  BY <1>4, <1>5 DEF SoldOnce

LEMMA SaleKeepsMatch ==
  ASSUME LockInv, SaleMatchesCart, NEW t \in Terminals, CompleteSale(t)
  PROVE  SaleMatchesCart'
<1> DEFINE sale == [cart |-> Cart(t), lines |-> lines[t], customer |-> customer[Cart(t)],
                    receipt |-> receipt[t], createdOn |-> createdOn[t]]
<1>1. /\ lines[t] = items[Cart(t)]
      /\ transactions' = transactions \cup {sale}
      /\ UNCHANGED <<items, customer>>
  BY SaleWrites
<1>2. /\ sale.cart = Cart(t)
      /\ sale.lines = items[Cart(t)]
      /\ sale.customer = customer[Cart(t)]
  BY <1>1
<1> HIDE DEF sale
<1> QED
  BY <1>1, <1>2 DEF SaleMatchesCart

LEMMA InitSaleInv == Init => SaleInv
<1> SUFFICES ASSUME Init PROVE SoldOnce /\ SaleMatchesCart /\ LogExplainsStock
  BY InitLockInv DEF SaleInv
<1>1. SoldOnce /\ SaleMatchesCart
  BY DEF Init, SoldOnce, SaleMatchesCart
<1>2. LogExplainsStock
  BY LogExplainsSplit DEF Init, LogExplains, RowStart
<1> QED
  BY <1>1, <1>2

LEMMA NextSaleInv == SaleInv /\ [Next]_vars => SaleInv'
<1> SUFFICES ASSUME SaleInv, [Next]_vars
             PROVE  SoldOnce' /\ SaleMatchesCart' /\ LogExplainsStock'
  BY NextLockInv DEF SaleInv
<1>0. /\ LockInv /\ SoldOnce /\ SaleMatchesCart /\ LogExplainsStock
      /\ FrozenCarts
      /\ transactions \subseteq Transaction
  BY NextFrozenCarts DEF SaleInv, LockInv, SeenInv, TypeInv, TypeOK
<1>1. CASE \E t \in Terminals : CompleteSale(t)
  BY <1>0, <1>1, SaleKeepsSoldOnce, SaleKeepsMatch, SaleKeepsLog
<1>2. CASE /\ UNCHANGED <<stock, transactions, inventoryLog>>
           /\ \A c \in Carts : status'[c] = "completed" => status[c] = "completed"
  <2>1. \A c \in Carts : status'[c] = "completed" <=> status[c] = "completed"
    BY <1>0, <1>2 DEF FrozenCarts
  <2>2. SoldOnce'
    BY <1>0, <1>2, <2>1 DEF SoldOnce
  <2>3. LogExplainsStock'
    BY <1>0, <1>2 DEF LogExplainsStock
  <2>4. ASSUME NEW x \in transactions
        PROVE  x.lines = items'[x.cart] /\ x.customer = customer'[x.cart]
    <3>1. x.cart \in Carts /\ x.lines = items[x.cart] /\ x.customer = customer[x.cart]
      BY <1>0 DEF Transaction, SaleMatchesCart
    <3>2. status[x.cart] = "completed"
      BY <1>0, <3>1 DEF SoldOnce
    <3> QED
      BY <1>0, <3>1, <3>2 DEF FrozenCarts
  <2>5. SaleMatchesCart'
    BY <1>2, <2>4 DEF SaleMatchesCart
  <2> QED
    BY <2>2, <2>3, <2>5
<1> QED
  BY <1>0, <1>1, <1>2, OnlySalesComplete

LEMMA SalesInvariant == Spec => []SaleInv
<1> QED
  BY InitSaleInv, NextSaleInv, PTL DEF Spec

\* A cart is completed exactly when one transaction sold it, and never sold twice,
\* whatever the number of concurrent or repeated checkouts of the cart.
THEOREM CartsSoldOnce == Spec => []SoldOnce
<1>1. SaleInv => SoldOnce
  BY DEF SaleInv
<1> QED
  BY <1>1, SalesInvariant, PTL

\* What was paid for is what the cart holds: items, prices and customer.
THEOREM SalesMatchCarts == Spec => []SaleMatchesCart
<1>1. SaleInv => SaleMatchesCart
  BY DEF SaleInv
<1> QED
  BY <1>1, SalesInvariant, PTL

\* The inventory log of every product is the history of its stock.
THEOREM LogsExplainStock == Spec => []LogExplainsStock
<1>1. SaleInv => LogExplainsStock
  BY DEF SaleInv
<1> QED
  BY <1>1, SalesInvariant, PTL

-----------------------------------------------------------------------------
(* Every request that commits is one step of SalesDesk *)

DeskInv == SaleInv /\ NumberInv

\* The operators on rows are the same in both specifications.
LEMMA SameOperators ==
  /\ \A ls, line : Desk!WithLine(ls, line) = WithLine(ls, line)
  /\ \A ls, p, q : Desk!AddedLine(ls, p, q) = AddedLine(ls, p, q)
  /\ \A ls, p, q : Desk!UpdatedLine(ls, p, q) = UpdatedLine(ls, p, q)
  /\ \A ls : Desk!ProductsIn(ls) = ProductsIn(ls)
  /\ \A ls, p : Desk!LineOf(ls, p) = LineOf(ls, p)
  /\ \A ls, p : Desk!QuantityIn(ls, p) = QuantityIn(ls, p)
  /\ \A p, q, onHand : Desk!Sufficient(p, q, onHand) = Sufficient(p, q, onHand)
  /\ \A onHand, ls : Desk!StockAfter(onHand, ls) = StockAfter(onHand, ls)
  /\ \A log, onHand, ls, c : Desk!LogAfter(log, onHand, ls, c) = LogAfter(log, onHand, ls, c)
BY DEF Desk!WithLine, WithLine, Desk!AddedLine, AddedLine, Desk!UpdatedLine, UpdatedLine,
       Desk!ProductsIn, ProductsIn, Desk!LineOf, LineOf, Desk!QuantityIn, QuantityIn,
       Desk!Sufficient, Sufficient, Desk!Guarded, Guarded, Desk!StockAfter, StockAfter,
       Desk!LogAfter, LogAfter

\* All lines of a request that locked and checked all its products can be served.
LEMMA CheckedLinesServable ==
  ASSUME LockInv, NEW t \in Terminals, Len(seen[t]) = Len(lines[t])
  PROVE  Desk!Servable(lines[t])
<1>1. /\ lines[t] \in Seq(Line) /\ seen[t] \in Seq(Int)
      /\ SeenIsActive /\ CheckedStockIsCurrent
  BY DEF LockInv, SeenInv, TypeInv, TypeOK
<1>2. ASSUME NEW i \in DOMAIN lines[t]
      PROVE  /\ isActive[lines[t][i].product]
             /\ Sufficient(lines[t][i].product, lines[t][i].quantity,
                           stock[lines[t][i].product])
  <2>1. i \in DOMAIN seen[t]
    BY <1>1
  <2> QED
    BY <1>1, <2>1 DEF SeenIsActive, CheckedStockIsCurrent
<1> QED
  BY <1>2, SameOperators DEF Desk!Servable

LEMMA SaveLineIsDesk ==
  ASSUME LockInv, NEW t \in Terminals, SaveLine(t)
  PROVE  \E c \in Carts, p \in Products, q \in Quantities :
           Desk!AddBarcode(c, p, q) \/ Desk!UpdateQuantity(c, p, q)
<1> DEFINE r == request[t]
           c == Cart(t)
<1>1. TypeInv /\ CartIsCurrent(t) /\ pc[t] = "lockProducts" /\ Len(seen[t]) = Len(lines[t])
  BY DEF SaveLine, Checked, LockInv, SeenInv, CartsAreCurrent, Running
<1>2. /\ r.op \in {"addBarcode", "updateQuantity"}
      /\ r \in Request /\ c \in Carts
      /\ r.product \in Products /\ r.quantity \in Quantities
  BY <1>1, RunningRequest, RequestFields DEF SaveLine, Is
<1>3. lines[t] = <<NewLine(r)>> /\ status[c] = "active"
  BY <1>1, <1>2 DEF CartIsCurrent, LinesToCheck, Is
<1>4. lines[t][1] = NewLine(r)
  BY <1>3
<1>5. Desk!Servable(<<NewLine(r)>>)
  BY <1>1, <1>3, CheckedLinesServable
<1>6. /\ items' = [items EXCEPT ![c] = WithLine(@, NewLine(r))]
      /\ UNCHANGED <<stock, isActive, status, customer, transactions, inventoryLog>>
  BY <1>4 DEF SaveLine
<1>7. Desk!WriteLine(c, NewLine(r))
  BY <1>3, <1>5, <1>6, SameOperators DEF Desk!WriteLine
<1>8. CASE r.op = "addBarcode"
  <2>1. NewLine(r) = Desk!AddedLine(items[c], r.product, r.quantity)
    BY <1>8, SameOperators DEF NewLine, Cart
  <2> QED
    BY <1>2, <1>7, <2>1 DEF Desk!AddBarcode
<1>9. CASE r.op = "updateQuantity"
  <2>1. NewLine(r) = Desk!UpdatedLine(items[c], r.product, r.quantity)
    BY <1>9, SameOperators DEF NewLine, Cart
  <2>2. r.product \in Desk!ProductsIn(items[c])
    BY <1>1, <1>9, SameOperators DEF CartIsCurrent, Is
  <2> QED
    BY <1>2, <1>7, <2>1, <2>2 DEF Desk!UpdateQuantity
<1> QED
  BY <1>2, <1>8, <1>9

LEMMA SetReadyIsDesk ==
  ASSUME LockInv, NEW t \in Terminals, SetReady(t)
  PROVE  \E c \in Carts : Desk!PreparePayment(c)
<1> DEFINE c == Cart(t)
<1>1. /\ TypeInv /\ CartIsCurrent(t)
      /\ pc[t] = "lockProducts"
      /\ Len(seen[t]) = Len(lines[t])
      /\ request[t].op = "preparePayment"
  BY DEF SetReady, Checked, LockInv, SeenInv, CartsAreCurrent, Running, Is
<1>2. lines[t] = items[c] /\ status[c] = "active" /\ items[c] # <<>>
  BY <1>1 DEF CartIsCurrent, LinesToCheck, Is, Cart
<1>3. Desk!Servable(items[c])
  BY <1>1, <1>2, CheckedLinesServable
<1>4. c \in Carts
  BY <1>1, RunningRequest
<1>5. Desk!PreparePayment(c)
  BY <1>2, <1>3 DEF Desk!PreparePayment, SetReady
<1> QED
  BY <1>4, <1>5

LEMMA CompleteSaleIsDesk ==
  ASSUME DeskInv, NEW t \in Terminals, CompleteSale(t)
  PROVE  \E c \in Carts : \E x \in transactions' : Desk!Checkout(c, x.receipt, x.createdOn)
<1> DEFINE c == Cart(t)
           sale == [cart |-> c, lines |-> lines[t], customer |-> customer[c],
                    receipt |-> receipt[t], createdOn |-> createdOn[t]]
<1>1. LockInv /\ SeenInv /\ InsertedOnce /\ pc[t] = "inserted" /\ pc[t] \in CommitPath
  BY DEF DeskInv, SaleInv, LockInv, NumberInv, CompleteSale, CommitPath
<1>2. /\ c \in Carts
      /\ status[c] = "ready_for_payment"
      /\ items[c] # <<>>
      /\ lines[t] = items[c]
      /\ status' = [status EXCEPT ![c] = "completed"]
      /\ transactions' = transactions \cup {sale}
      /\ UNCHANGED <<isActive, items, customer>>
  BY <1>1, SaleWrites
<1>3. Len(seen[t]) = Len(lines[t])
  BY <1>1 DEF SeenInv, TypeInv, TaskOK, TaskInv
<1>4. Desk!Servable(items[c])
  BY <1>1, <1>2, <1>3, CheckedLinesServable
<1>5. \A x \in transactions : x.receipt # receipt[t]
  BY <1>1 DEF InsertedOnce, Used
<1>6. /\ stock' = Desk!StockAfter(stock, items[c])
      /\ inventoryLog' = Desk!LogAfter(inventoryLog, stock, items[c], c)
  BY <1>1, <1>2, OnHandIsSeen, SameOperators DEF CompleteSale
<1>7. Desk!Checkout(c, receipt[t], createdOn[t])
  BY <1>2, <1>4, <1>5, <1>6 DEF Desk!Checkout
<1>8. sale \in transactions' /\ sale.receipt = receipt[t] /\ sale.createdOn = createdOn[t]
  BY <1>2
<1> HIDE DEF sale
<1> QED
  BY <1>2, <1>7, <1>8

LEMMA InitDesk == Init => Desk!DeskInit
BY DEF Init, Desk!DeskInit

LEMMA NextDesk == DeskInv /\ [Next]_vars => [Desk!DeskNext]_Desk!deskVars
<1> SUFFICES ASSUME DeskInv, [Next]_vars PROVE [Desk!DeskNext]_Desk!deskVars
  OBVIOUS
<1>0. LockInv
  BY DEF DeskInv, SaleInv
<1>a. ASSUME UNCHANGED rows PROVE UNCHANGED Desk!deskVars
  BY <1>a DEF rows, Desk!deskVars
<1>1. ASSUME NEW t \in Terminals, SaveLine(t) PROVE Desk!DeskNext
  <2>1. \E c \in Carts, p \in Products, q \in Quantities :
          Desk!AddBarcode(c, p, q) \/ Desk!UpdateQuantity(c, p, q)
    BY <1>0, <1>1, SaveLineIsDesk
  <2> QED
    BY <2>1 DEF Desk!DeskNext
<1>2. ASSUME NEW t \in Terminals, SetReady(t) PROVE Desk!DeskNext
  <2>1. \E c \in Carts : Desk!PreparePayment(c)
    BY <1>0, <1>2, SetReadyIsDesk
  <2> QED
    BY <2>1 DEF Desk!DeskNext
<1>3. ASSUME NEW t \in Terminals, CompleteSale(t) PROVE Desk!DeskNext
  <2>1. \E c \in Carts : \E x \in transactions' : Desk!Checkout(c, x.receipt, x.createdOn)
    BY <1>3, CompleteSaleIsDesk
  <2> QED
    BY <2>1 DEF Desk!DeskNext
<1>4. ASSUME NEW c \in Carts, Start(c) PROVE Desk!DeskNext
  <2>1. Desk!Start(c)
    BY <1>4 DEF Start, Desk!Start
  <2> QED
    BY <2>1 DEF Desk!DeskNext
<1>5. ASSUME NEW c \in Carts, NEW p \in Products, NEW price \in Prices,
             PriceOverride(c, p, price)
      PROVE  Desk!DeskNext
  <2>1. Desk!PriceOverride(c, p, price)
    BY <1>5, SameOperators DEF PriceOverride, ActiveCart, Desk!PriceOverride
  <2> QED
    BY <2>1 DEF Desk!DeskNext
<1>6. ASSUME NEW c \in Carts, NEW cu \in Customers, AttachCustomer(c, cu)
      PROVE  Desk!DeskNext
  <2>1. Desk!AttachCustomer(c, cu)
    BY <1>6 DEF AttachCustomer, ActiveCart, Desk!AttachCustomer
  <2> QED
    BY <2>1 DEF Desk!DeskNext
<1>7. ASSUME NEW p \in Products, RemoveProduct(p) PROVE Desk!DeskNext
  <2>1. Desk!RemoveProduct(p)
    BY <1>7 DEF RemoveProduct, Desk!RemoveProduct
  <2> QED
    BY <2>1 DEF Desk!DeskNext
<1>8. ASSUME NEW t \in Terminals,
             \/ \E r \in Workload : Submit(t, r)
             \/ LockCart(t)
             \/ LockProduct(t)
             \/ GenerateReceiptNumber(t)
             \/ CreateTransaction(t)
             \/ InsertTransaction(t)
             \/ Abort(t)
             \/ DetectDeadlock(t)
      PROVE  UNCHANGED rows
  BY <1>8 DEF Submit, LockCart, LockProduct, GenerateReceiptNumber, CreateTransaction,
              InsertTransaction, Retry, Rollback, Abort, DetectDeadlock
<1>9. CASE Midnight \/ UNCHANGED vars
  BY <1>9, <1>a DEF Midnight, vars
<1> QED
  BY <1>a, <1>1, <1>2, <1>3, <1>4, <1>5, <1>6, <1>7, <1>8, <1>9, CartCheckoutAssumption
  DEF Next, Step

\* Every interleaving of requests under row locks, with their aborts, deadlocks and
\* retries, is equivalent to running the requests that answer 2xx one at a time.
THEOREM RequestsAtomic == Spec => RequestsAreAtomic
<1>1. Spec => []DeskInv
  <2>1. Spec => []NumberInv
    BY InitNumberInv, NextNumberInv, PTL DEF Spec
  <2> QED
    BY <2>1, SalesInvariant, PTL DEF DeskInv
<1>2. Init => Desk!DeskInit
  BY InitDesk
<1>3. DeskInv /\ [Next]_vars => [Desk!DeskNext]_Desk!deskVars
  BY NextDesk
<1> QED
  BY <1>1, <1>2, <1>3, PTL DEF Spec, RequestsAreAtomic, Desk!DeskSpec

-----------------------------------------------------------------------------
(* Receipt numbers of a day *)

\* A number was computed from a count of its day that can only have grown since.
CountedOnItsDay ==
  \A t \in Terminals : pc[t] \in CommitPath =>
    receipt[t].number <= Cardinality(CreatedOn(receipt[t].day)) + 1

\* Unless a transaction dated otherwise was created on it, a day's numbers run from
\* one without a gap.
Gapless(day) ==
  (\A x \in CreatedOn(day) : x.receipt.day = day) =>
    \A k \in 1 .. Cardinality(CreatedOn(day)) : \E x \in CreatedOn(day) : x.receipt.number = k

DaysGapless == \A day \in Nat : Gapless(day)

\* A number was free when it was computed: that it is taken means another sale.
TakenMeansSold ==
  \A t \in Terminals :
    pc[t] \in CommitPath /\ Used(receipt[t]) => attempt[t] <= Cardinality(transactions)

ReceiptInv ==
  NumberInv /\ CountedOnItsDay /\ DaysGapless /\ TakenMeansSold /\ RetriesMeanSales

LEMMA CountType ==
  ASSUME TypeInv, NEW day
  PROVE  /\ IsFiniteSet(CreatedOn(day))
         /\ Cardinality(CreatedOn(day)) \in Nat
         /\ Cardinality(transactions) \in Nat
BY FS_Subset, FS_CardinalityType DEF CreatedOn, TypeInv

\* Two receipts of a day with the same number are the same.
LEMMA SameReceipt ==
  ASSUME NEW r \in Receipt, NEW s \in Receipt, r.day = s.day, r.number = s.number
  PROVE  r = s
BY DEF Receipt

\* If a day has no gap, a request about to sell has the number after the last one.
LEMMA NextInLine ==
  ASSUME ReceiptInv, NEW t \in Terminals, pc[t] = "inserted",
         \A x \in CreatedOn(receipt[t].day) : x.receipt.day = receipt[t].day
  PROVE  receipt[t].number = Cardinality(CreatedOn(receipt[t].day)) + 1
<1> DEFINE day == receipt[t].day
           n == Cardinality(CreatedOn(day))
<1>1. /\ receipt[t] \in Receipt
      /\ transactions \subseteq Transaction
      /\ ~Used(receipt[t])
      /\ n \in Nat
      /\ receipt[t].number <= n + 1
      /\ Gapless(day)
  BY CountType
     DEF ReceiptInv, NumberInv, TypeInv, TypeOK, TaskOK, TaskInv, CommitPath, InsertedOnce,
         CountedOnItsDay, DaysGapless, Receipt
<1>2. day \in Nat /\ receipt[t].number \in Nat \ {0}
  BY <1>1 DEF Receipt
<1>3. receipt[t].number \notin 1 .. n
  <2> SUFFICES ASSUME receipt[t].number \in 1 .. n PROVE FALSE
    OBVIOUS
  <2>1. PICK x \in CreatedOn(day) : x.receipt.number = receipt[t].number
    BY <1>1 DEF Gapless
  <2>2. x \in transactions /\ x.receipt \in Receipt
    BY <1>1, <2>1 DEF CreatedOn, Transaction
  <2>3. x.receipt = receipt[t]
    BY <1>1, <2>1, <2>2, SameReceipt
  <2> QED
    BY <1>1, <2>2, <2>3 DEF Used
<1> HIDE DEF n
<1>4. receipt[t].number = n + 1
  BY <1>1, <1>2, <1>3
<1> QED
  BY <1>4 DEF n

\* Steps that sell nothing keep the counts; a request on its way to a sale keeps its
\* number.
LEMMA CountsKept ==
  ASSUME ReceiptInv, UNCHANGED transactions,
         \A u \in Terminals :
           \/ pc'[u] \notin CommitPath /\ attempt'[u] <= Cardinality(transactions) + 1
           \/ /\ pc'[u] \in CommitPath => pc[u] \in CommitPath
              /\ receipt'[u] = receipt[u]
              /\ attempt'[u] = attempt[u]
  PROVE  CountedOnItsDay' /\ DaysGapless' /\ TakenMeansSold' /\ RetriesMeanSales'
<1>1. \A day : CreatedOn(day)' = CreatedOn(day)
  BY DEF CreatedOn
<1>2. CountedOnItsDay'
  BY <1>1 DEF ReceiptInv, CountedOnItsDay
<1>3. DaysGapless'
  BY <1>1 DEF ReceiptInv, DaysGapless, Gapless
<1>4. TakenMeansSold'
  BY DEF ReceiptInv, TakenMeansSold, Used
<1>5. RetriesMeanSales'
  BY DEF ReceiptInv, RetriesMeanSales
<1> QED
  BY <1>2, <1>3, <1>4, <1>5

\* A sale has the next number of a day without gaps, or leaves the day to one that
\* has no claim.
LEMMA SaleKeepsCounts ==
  ASSUME ReceiptInv, NEW t \in Terminals, CompleteSale(t)
  PROVE  CountedOnItsDay' /\ DaysGapless' /\ TakenMeansSold' /\ RetriesMeanSales'
<1> DEFINE sale == [cart |-> Cart(t), lines |-> lines[t], customer |-> customer[Cart(t)],
                    receipt |-> receipt[t], createdOn |-> createdOn[t]]
           Count(day) == Cardinality(CreatedOn(day))
<1>0. /\ TypeInv /\ InsertedOnce /\ CountedOnItsDay /\ DaysGapless
      /\ TakenMeansSold /\ RetriesMeanSales
      /\ pc \in [Terminals -> Program]
      /\ attempt \in [Terminals -> 0 .. MaxAttempts]
      /\ receipt \in [Terminals -> Receipt \cup {NoReceipt}]
      /\ transactions \subseteq Transaction
      /\ IsFiniteSet(transactions)
      /\ MaxAttempts \in Nat
      /\ receipt[t] \in Receipt
  BY CartCheckoutAssumption
     DEF ReceiptInv, NumberInv, TypeInv, TypeOK, TaskOK, TaskInv, CommitPath, CompleteSale
<1>1. /\ pc[t] = "inserted"
      /\ transactions' = transactions \cup {sale}
      /\ pc' = [pc EXCEPT ![t] = "idle"]
      /\ attempt' = [attempt EXCEPT ![t] = 0]
      /\ receipt' = [receipt EXCEPT ![t] = NoReceipt]
  BY DEF CompleteSale, EndRequest, ForgetReads
<1>2. sale.receipt = receipt[t] /\ sale.createdOn = createdOn[t]
  OBVIOUS
<1> HIDE DEF sale
<1>3. sale \notin transactions
  BY <1>0, <1>1, <1>2 DEF InsertedOnce, Used
<1>4. Cardinality(transactions') = Cardinality(transactions) + 1
  BY <1>0, <1>1, <1>3, FS_AddElement
<1>5. Cardinality(transactions) \in Nat
  BY <1>0, CountType
<1>6. ASSUME NEW day
      PROVE  /\ CreatedOn(day)' = IF day = createdOn[t] THEN CreatedOn(day) \cup {sale}
                                                        ELSE CreatedOn(day)
             /\ Count(day)' = IF day = createdOn[t] THEN Count(day) + 1 ELSE Count(day)
             /\ Count(day) \in Nat
  <2>1. CASE day = createdOn[t]
    <3>1. CreatedOn(day)' = CreatedOn(day) \cup {sale}
      BY <1>1, <1>2, <2>1 DEF CreatedOn
    <3>2. sale \notin CreatedOn(day)
      BY <1>3 DEF CreatedOn
    <3> QED
      BY <1>0, <2>1, <3>1, <3>2, CountType, FS_AddElement
  <2>2. CASE day # createdOn[t]
    <3>1. CreatedOn(day)' = CreatedOn(day)
      BY <1>1, <1>2, <2>2 DEF CreatedOn
    <3> QED
      BY <1>0, <2>2, <3>1, CountType
  <2> QED
    BY <2>1, <2>2
<1>7. CountedOnItsDay'
  <2> SUFFICES ASSUME NEW u \in Terminals, pc'[u] \in CommitPath
               PROVE  (receipt[u].number <= Cardinality(CreatedOn(receipt[u].day)) + 1)'
    BY DEF CountedOnItsDay
  <2>1. u # t /\ pc[u] \in CommitPath /\ receipt'[u] = receipt[u]
    BY <1>0, <1>1 DEF CommitPath
  <2>2. PICK day : day = receipt[u].day
    OBVIOUS
  <2>3. receipt[u].number <= Count(day) + 1 /\ receipt[u].number \in Nat
    BY <1>0, <2>1, <2>2 DEF CountedOnItsDay, TypeInv, TaskOK, TaskInv, Receipt
  <2>4. Count(day)' \in Nat /\ Count(day) <= Count(day)' /\ Count(day) \in Nat
    BY <1>6
  <2>5. receipt[u].number <= Count(day)' + 1
    <3> HIDE DEF Count
    <3> QED
      BY <2>3, <2>4
  <2>6. receipt'[u].number <= Cardinality(CreatedOn(day)') + 1
    BY <2>1, <2>5
  <2> QED
    BY <2>1, <2>2, <2>6 DEF CreatedOn
<1>8. ASSUME NEW day \in Nat PROVE Gapless(day)'
  <2>1. CASE day # createdOn[t]
    BY <1>0, <1>6, <2>1 DEF Gapless, DaysGapless
  <2>2. CASE day = createdOn[t]
    <3> SUFFICES ASSUME \A x \in CreatedOn(day)' : x.receipt.day = day,
                        NEW k \in 1 .. Count(day)'
                 PROVE  \E x \in CreatedOn(day)' : x.receipt.number = k
      BY DEF Gapless
    <3>1. sale \in CreatedOn(day)' /\ CreatedOn(day) \subseteq CreatedOn(day)'
      BY <1>6, <2>2
    <3>2. receipt[t].day = day /\ \A x \in CreatedOn(day) : x.receipt.day = day
      BY <1>2, <3>1
    <3>3. receipt[t].number = Count(day) + 1
      BY <1>1, <3>2, NextInLine
    <3>4. Count(day)' = Count(day) + 1 /\ Count(day) \in Nat
      BY <1>6, <2>2
    <3>5. CASE k \in 1 .. Count(day)
      BY <1>0, <3>1, <3>2, <3>5 DEF Gapless, DaysGapless
    <3>6. CASE k = Count(day) + 1
      BY <1>2, <3>1, <3>3, <3>6
    <3> HIDE DEF Count
    <3>7. k \in 1 .. Count(day) \/ k = Count(day) + 1
      BY <3>4
    <3> QED
      BY <3>5, <3>6, <3>7
  <2> QED
    BY <2>1, <2>2
<1>9. RetriesMeanSales'
  BY <1>0, <1>1, <1>4, <1>5 DEF RetriesMeanSales
<1>10. TakenMeansSold'
  <2> SUFFICES ASSUME NEW u \in Terminals, pc'[u] \in CommitPath
               PROVE  attempt'[u] <= Cardinality(transactions')
    BY DEF TakenMeansSold
  <2>1. u # t /\ attempt'[u] = attempt[u]
    BY <1>0, <1>1 DEF CommitPath
  <2> QED
    BY <1>0, <1>4, <2>1 DEF RetriesMeanSales
<1> QED
  BY <1>7, <1>8, <1>9, <1>10 DEF DaysGapless

\* A number is free when it is computed.
LEMMA GenerateKeepsCounts ==
  ASSUME ReceiptInv, NEW t \in Terminals, GenerateReceiptNumber(t)
  PROVE  CountedOnItsDay' /\ DaysGapless' /\ TakenMeansSold' /\ RetriesMeanSales'
<1> DEFINE n == Cardinality(CreatedOn(today))
           new == [day |-> today, number |-> n + 1]
<1>0. /\ TypeInv /\ CountedOnItsDay /\ DaysGapless /\ TakenMeansSold /\ RetriesMeanSales
      /\ NextReceiptNumberFree
      /\ pc \in [Terminals -> Program]
      /\ receipt \in [Terminals -> Receipt \cup {NoReceipt}]
      /\ transactions \subseteq Transaction
      /\ n \in Nat
  BY CountType DEF ReceiptInv, NumberInv, TypeInv, TypeOK
<1>1. /\ UNCHANGED <<transactions, today, attempt>>
      /\ receipt' = [receipt EXCEPT ![t] = new]
      /\ pc' = [pc EXCEPT ![t] = "insert"]
  BY DEF GenerateReceiptNumber, rows, NextNumber
<1>2. new.day = today /\ new.number = n + 1
  OBVIOUS
<1>3. ASSUME NEW x \in transactions PROVE x.receipt # new
  <2> SUFFICES ASSUME x.receipt = new PROVE FALSE
    OBVIOUS
  <2>1. x.receipt.number <= n
    BY <1>0, <1>2 DEF NextReceiptNumberFree
  <2> QED
    BY <1>0, <1>2, <2>1
<1>4. \A day : CreatedOn(day)' = CreatedOn(day)
  BY <1>1 DEF CreatedOn
<1>5. n' = n
  BY <1>1, <1>4
<1> HIDE DEF new
<1>6. CountedOnItsDay'
  <2> SUFFICES ASSUME NEW u \in Terminals, pc'[u] \in CommitPath
               PROVE  (receipt[u].number <= Cardinality(CreatedOn(receipt[u].day)) + 1)'
    BY DEF CountedOnItsDay
  <2>1. CASE u = t
    BY <1>0, <1>1, <1>2, <1>4, <2>1
  <2>2. CASE u # t
    BY <1>0, <1>1, <1>4, <2>2 DEF CountedOnItsDay
  <2> QED
    BY <2>1, <2>2
<1>7. DaysGapless'
  BY <1>0, <1>4 DEF DaysGapless, Gapless
<1>8. TakenMeansSold'
  <2> SUFFICES ASSUME NEW u \in Terminals, pc'[u] \in CommitPath, Used(receipt[u])'
               PROVE  attempt'[u] <= Cardinality(transactions')
    BY DEF TakenMeansSold
  <2>1. u # t
    BY <1>0, <1>1, <1>3 DEF Used
  <2> QED
    BY <1>0, <1>1, <2>1 DEF TakenMeansSold, Used
<1>9. RetriesMeanSales'
  BY <1>0, <1>1 DEF RetriesMeanSales
<1> QED
  BY <1>6, <1>7, <1>8, <1>9

LEMMA InitReceiptInv == Init => ReceiptInv
<1> SUFFICES ASSUME Init PROVE ReceiptInv
  OBVIOUS
<1>1. NumberInv
  BY InitNumberInv
<1>2. \A t \in Terminals : pc[t] \notin CommitPath
  BY DEF Init, CommitPath
<1>3. \A day : CreatedOn(day) = {}
  BY DEF Init, CreatedOn
<1>4. DaysGapless
  BY <1>3, FS_EmptySet DEF DaysGapless, Gapless
<1>5. RetriesMeanSales
  BY FS_EmptySet DEF Init, RetriesMeanSales
<1> QED
  BY <1>1, <1>2, <1>4, <1>5 DEF ReceiptInv, CountedOnItsDay, TakenMeansSold

LEMMA NextReceiptInv == ReceiptInv /\ [Next]_vars => ReceiptInv'
<1> SUFFICES ASSUME ReceiptInv, [Next]_vars
             PROVE  CountedOnItsDay' /\ DaysGapless' /\ TakenMeansSold' /\ RetriesMeanSales'
  BY NextNumberInv DEF ReceiptInv
<1> DEFINE Goal == CountedOnItsDay' /\ DaysGapless' /\ TakenMeansSold' /\ RetriesMeanSales'
<1>0. /\ TypeInv /\ TakenMeansSold
      /\ pc \in [Terminals -> Program]
      /\ attempt \in [Terminals -> 0 .. MaxAttempts]
      /\ receipt \in [Terminals -> Receipt \cup {NoReceipt}]
      /\ MaxAttempts \in Nat
      /\ Cardinality(transactions) \in Nat
  BY CountType, CartCheckoutAssumption DEF ReceiptInv, NumberInv, TypeInv, TypeOK
<1>a. ASSUME UNCHANGED <<transactions, attempt, receipt>>,
             \A u \in Terminals : pc'[u] \in CommitPath => pc[u] \in CommitPath
      PROVE  Goal
  BY <1>a, CountsKept
<1>b. ASSUME NEW t \in Terminals, UNCHANGED transactions, EndRequest(t) PROVE Goal
  BY <1>0, <1>b, CountsKept DEF EndRequest, ForgetReads, CommitPath
<1>c. ASSUME NEW t \in Terminals, Rollback(t) PROVE Goal
  BY <1>b, <1>c DEF Rollback, rows
<1>1. ASSUME NEW t \in Terminals, NEW r \in Workload, Submit(t, r) PROVE Goal
  <2>1. /\ pc' = [pc EXCEPT ![t] = "lockCart"]
        /\ attempt' = [attempt EXCEPT ![t] = 1]
        /\ UNCHANGED <<transactions, receipt>>
    BY <1>1 DEF Submit, rows
  <2> QED
    BY <1>0, <2>1, CountsKept DEF CommitPath
<1>2. ASSUME NEW t \in Terminals, LockCart(t) PROVE Goal
  <2>1. CASE Admissible(request[t])
    <3>1. /\ UNCHANGED <<transactions, attempt, receipt>>
          /\ pc' = [pc EXCEPT ![t] = "lockProducts"]
      BY <1>2, <2>1 DEF LockCart, rows
    <3> QED
      BY <1>0, <1>a, <3>1 DEF CommitPath
  <2>2. CASE ~Admissible(request[t])
    BY <1>2, <1>c, <2>2 DEF LockCart
  <2> QED
    BY <2>1, <2>2
<1>3. ASSUME NEW t \in Terminals, LockProduct(t) PROVE Goal
  BY <1>3, <1>a, <1>c DEF LockProduct, rows
<1>4. ASSUME NEW t \in Terminals, SaveLine(t) \/ SetReady(t) PROVE Goal
  BY <1>4, <1>b DEF SaveLine, SetReady
<1>5. ASSUME NEW t \in Terminals, GenerateReceiptNumber(t) PROVE Goal
  BY <1>5, GenerateKeepsCounts
<1>6. ASSUME NEW t \in Terminals, CreateTransaction(t) PROVE Goal
  <2>1. /\ UNCHANGED <<transactions, attempt, receipt>>
        /\ pc[t] \in CommitPath
        /\ pc' = [pc EXCEPT ![t] = "inserting"]
    BY <1>6 DEF CreateTransaction, rows, CommitPath
  <2> QED
    BY <1>0, <1>a, <2>1
<1>7. ASSUME NEW t \in Terminals, InsertTransaction(t) PROVE Goal
  <2>1. CASE ~Used(receipt[t])
    <3>1. /\ UNCHANGED <<transactions, attempt, receipt>>
          /\ pc[t] \in CommitPath
          /\ pc' = [pc EXCEPT ![t] = "inserted"]
      BY <1>7, <2>1 DEF InsertTransaction, rows, CommitPath
    <3> QED
      BY <1>0, <1>a, <3>1
  <2>2. CASE Used(receipt[t]) /\ MayRetry(t)
    <3>1. /\ UNCHANGED transactions
          /\ receipt' = [receipt EXCEPT ![t] = NoReceipt]
          /\ pc' = [pc EXCEPT ![t] = "lockCart"]
          /\ attempt' = [attempt EXCEPT ![t] = attempt[t] + 1]
          /\ pc[t] \in CommitPath
      BY <1>7, <2>2 DEF InsertTransaction, Retry, ForgetReads, rows, CommitPath
    <3>2. attempt[t] <= Cardinality(transactions)
      BY <1>0, <2>2, <3>1 DEF TakenMeansSold
    <3>3. attempt'[t] <= Cardinality(transactions) + 1 /\ pc'[t] \notin CommitPath
      BY <1>0, <3>1, <3>2 DEF CommitPath
    <3>4. \A u \in Terminals \ {t} :
            pc'[u] = pc[u] /\ receipt'[u] = receipt[u] /\ attempt'[u] = attempt[u]
      BY <1>0, <3>1
    <3> QED
      BY <3>1, <3>3, <3>4, CountsKept
  <2>3. CASE Used(receipt[t]) /\ ~MayRetry(t)
    BY <1>7, <1>c, <2>3 DEF InsertTransaction
  <2> QED
    BY <2>1, <2>2, <2>3
<1>8. ASSUME NEW t \in Terminals, CompleteSale(t) PROVE Goal
  BY <1>8, SaleKeepsCounts
<1>9. ASSUME NEW t \in Terminals, Abort(t) \/ DetectDeadlock(t) PROVE Goal
  BY <1>9, <1>c DEF Abort, DetectDeadlock
<1>10. ASSUME NEW c \in Carts,
              \/ Start(c)
              \/ \E p \in Products, price \in Prices : PriceOverride(c, p, price)
              \/ \E cu \in Customers : AttachCustomer(c, cu)
       PROVE  Goal
  BY <1>10, <1>a DEF Start, PriceOverride, AttachCustomer, task
<1>11. ASSUME NEW p \in Removable, RemoveProduct(p) PROVE Goal
  BY <1>11, <1>a DEF RemoveProduct, task
<1>12. CASE Midnight \/ UNCHANGED vars
  BY <1>12, <1>a DEF Midnight, vars, rows, task
<1> QED
  BY <1>1, <1>2, <1>3, <1>4, <1>5, <1>6, <1>7, <1>8, <1>9, <1>10, <1>11, <1>12
  DEF Next, Step

LEMMA ReceiptsInvariant == Spec => []ReceiptInv
<1> QED
  BY InitReceiptInv, NextReceiptInv, PTL DEF Spec

\* Two checkouts are past the insert of a number of the same day only if a
\* transaction dated otherwise was created on that day.
THEOREM SalesOneAtATime == Spec => []OneSaleAtATime
<1>1. ReceiptInv => OneSaleAtATime
  <2> SUFFICES ASSUME ReceiptInv, NEW t \in Terminals, NEW u \in Terminals, t # u,
                      pc[t] = "inserted", pc[u] = "inserted",
                      receipt[t].day = receipt[u].day,
                      \A x \in CreatedOn(receipt[t].day) : x.receipt.day = receipt[t].day
               PROVE  FALSE
    BY DEF OneSaleAtATime
  <2>1. receipt[t].number = receipt[u].number
    BY NextInLine
  <2>2. receipt[t] \in Receipt /\ receipt[u] \in Receipt /\ InsertedOnce
    BY DEF ReceiptInv, NumberInv, TypeInv, TaskOK, TaskInv, CommitPath
  <2>3. receipt[t] = receipt[u]
    BY <2>1, <2>2, SameReceipt
  <2> QED
    BY <2>2, <2>3 DEF InsertedOnce
<1> QED
  BY <1>1, ReceiptsInvariant, PTL

\* A checkout is at attempt n + 1 only after n sales: its attempts cannot run out
\* while nothing is sold.
THEOREM RetriesNeedSales == Spec => []RetriesMeanSales
<1>1. ReceiptInv => RetriesMeanSales
  BY DEF ReceiptInv
<1> QED
  BY <1>1, ReceiptsInvariant, PTL

-----------------------------------------------------------------------------
(* Deadlocks *)

\* Who has locked a product has read its quantity.
LEMMA HoldersHaveSeen ==
  ASSUME LockInv, NEW t \in Terminals, NEW u \in Terminals, WaitsForProduct(t, u)
  PROVE  seen[u] # <<>>
<1>1. lines[t] \in Seq(Line) /\ seen[t] \in Seq(Int) /\ HoldersRun
  BY DEF LockInv, SeenInv, TypeInv, TypeOK
<1>2. NextLine(t) \in Line
  BY <1>1 DEF WaitsForProduct, NextLine
<1>3. NextLine(t).product \in Products /\ productLock[NextLine(t).product] = u
  BY <1>2 DEF Line, WaitsForProduct
<1> QED
  BY <1>1, <1>3 DEF HoldersRun

\* Nobody waits for a request that waits for its cart: it holds nothing.
LEMMA NobodyWaitsForStarters ==
  ASSUME LockInv, NEW t \in Terminals, NEW u \in Terminals, WaitsFor(t, u)
  PROVE  pc[u] # "lockCart"
<1>1. TypeInv /\ HoldersRun
  BY DEF LockInv, SeenInv
<1>2. CASE WaitsForProduct(t, u)
  BY <1>1, <1>2, HoldersHaveSeen DEF TypeInv, TaskOK, TaskInv
<1>3. CASE WaitsForCart(t, u)
  BY <1>1, <1>3, RunningRequest DEF WaitsForCart, HoldersRun, Running
<1>4. CASE WaitsForInsert(t, u)
  BY <1>4 DEF WaitsForInsert
<1> QED
  BY <1>2, <1>3, <1>4 DEF WaitsFor

\* In a cycle everybody waits for a product while somebody waits for one it has
\* locked: that takes a request with more lines than one.
LEMMA CyclesNeedBaskets == LockInv => DeadlockNeedsBaskets
<1> SUFFICES ASSUME LockInv, NEW t \in Terminals, Deadlocked(t)
             PROVE  /\ pc[t] = "lockProducts"
                    /\ Len(lines[t]) > 1
                    /\ request[t].op \in {"preparePayment", "checkout"}
  BY DEF DeadlockNeedsBaskets
<1>1. PICK T \in SUBSET Terminals : t \in T /\ Cycle(T)
  BY DEF Deadlocked
<1>2. TypeInv /\ HoldersRun
  BY DEF LockInv, SeenInv
<1>3. ASSUME NEW u \in T
      PROVE  \E w \in T : WaitsForProduct(u, w)
  <2>1. PICK w \in T : WaitsFor(u, w)
    BY <1>1 DEF Cycle
  <2>2. ~WaitsForCart(u, w)
    <3>1. PICK v \in T : WaitsFor(v, u)
      BY <1>1 DEF Cycle
    <3> QED
      BY <1>1, <3>1, NobodyWaitsForStarters DEF WaitsForCart
  <2>3. ~WaitsForInsert(u, w)
    <3>1. PICK v \in T : WaitsFor(w, v)
      BY <1>1 DEF Cycle
    <3>2. pc[w] \in {"lockProducts", "lockCart", "inserting"}
      BY <3>1 DEF WaitsFor, WaitsForProduct, WaitsForCart, WaitsForInsert
    <3> QED
      BY <3>2 DEF WaitsForInsert
  <2> QED
    BY <2>1, <2>2, <2>3 DEF WaitsFor
<1>4. pc[t] = "lockProducts" /\ Len(seen[t]) < Len(lines[t])
  BY <1>1, <1>3 DEF WaitsForProduct
<1>5. PICK u \in T : WaitsFor(u, t)
  BY <1>1 DEF Cycle
<1>6. WaitsForProduct(u, t)
  <2>1. pc[u] = "lockProducts"
    BY <1>3, <1>5 DEF WaitsForProduct
  <2> QED
    BY <1>5, <2>1 DEF WaitsFor, WaitsForCart, WaitsForInsert
<1>7. seen[t] # <<>>
  BY <1>1, <1>5, <1>6, HoldersHaveSeen
<1>8. lines[t] \in Seq(Line) /\ seen[t] \in Seq(Int)
  BY <1>2 DEF TypeInv, TypeOK
<1>9. Len(lines[t]) \in Nat /\ Len(lines[t]) > 1
  BY <1>4, <1>7, <1>8
<1>10. request[t].op \in {"addBarcode", "updateQuantity"} => Len(lines[t]) = 1
  BY <1>2, <1>4 DEF TypeInv, TaskOK, TaskInv
<1>11. request[t].op \in {"addBarcode", "updateQuantity", "preparePayment", "checkout"}
  BY <1>2, <1>4, RunningRequest
<1>12. Len(lines[t]) # 1
  <2>1. \A n \in Nat : n > 1 => n # 1
    OBVIOUS
  <2> QED
    BY <1>9, <2>1, Zenon
<1>13. request[t].op \in {"preparePayment", "checkout"}
  BY <1>10, <1>11, <1>12, Zenon
<1> QED
  BY <1>4, <1>9, <1>13

\* Only requests over several products deadlock.
THEOREM DeadlocksNeedBaskets == Spec => []DeadlockNeedsBaskets
<1> QED
  BY CyclesNeedBaskets, LocksHold, PTL
=============================================================================

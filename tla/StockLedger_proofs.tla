------------------------- MODULE StockLedger_proofs --------------------------
(***************************************************************************)
(* What the writers of the stock ledger keep, for any number of clerks,    *)
(* products and requests: none takes a product below zero that may not go  *)
(* there, the rows of sales are true, and the log explains the stock of    *)
(* every product that nobody wrote from an overtaken read.                 *)
(***************************************************************************)
EXTENDS StockLedger, TLAPS

USE StockLedgerAssumption

Quantities == Int \cup {Unwritten}

Guarded == Products \ AllowNegative

\* The part of the type invariant that the quantities depend on: the log is only
\* written.
QuantityTypes ==
  /\ stock \in [Products -> Int]
  /\ order \in [Clerks -> Orders \cup {NoOrder}]
  /\ todo \in [Clerks -> Seq(Item)]
  /\ read \in [Clerks -> Int \cup {NoRead}]
  /\ staged \in [Clerks -> [Products -> Quantities]]

\* What is left to do of a request fits its kind.
TodoFits ==
  \A k \in Clerks : ~Idle(k) => \A i \in DOMAIN todo[k] : Fits(order[k].kind, todo[k][i])

\* Quantities in the hands of requests are not below zero either.
NoneBelowZero ==
  \A p \in Guarded :
    /\ stock[p] >= 0
    /\ \A k \in Clerks :
         /\ staged[k][p] # Unwritten => staged[k][p] >= 0
         /\ read[k] # NoRead /\ todo[k] # <<>> /\ AtHand(k).product = p => read[k] >= 0

\* Only a request in flight has something left to do.
IdleDone == \A k \in Clerks : Idle(k) => todo[k] = <<>> /\ read[k] = NoRead

LedgerInv == QuantityTypes /\ TodoFits /\ NoneBelowZero /\ IdleDone

-----------------------------------------------------------------------------
\* What a request sees of a product is a quantity, and not below zero.
LEMMA ViewType ==
  ASSUME LedgerInv, NEW k \in Clerks, NEW p \in Products
  PROVE  View(k, p) \in Int /\ (p \in Guarded => View(k, p) >= 0)
<1>1. staged[k][p] \in Quantities /\ stock[p] \in Int
  BY DEF LedgerInv, QuantityTypes
<1> QED
  BY <1>1 DEF LedgerInv, NoneBelowZero, View, Quantities

\* The item at hand is one that fits the request, and the rest are items that do.
LEMMA ItemAtHand ==
  ASSUME LedgerInv, NEW k \in Clerks, todo[k] # <<>>
  PROVE  /\ ~Idle(k) /\ order[k] \in Orders /\ order[k].kind \in Kind
         /\ AtHand(k) \in Item
         /\ Fits(order[k].kind, AtHand(k))
         /\ Tail(todo[k]) \in Seq(Item)
         /\ \A i \in DOMAIN Tail(todo[k]) : Fits(order[k].kind, Tail(todo[k])[i])
<1>1. todo[k] \in Seq(Item) /\ ~Idle(k)
  BY DEF LedgerInv, QuantityTypes, IdleDone
<1>2. order[k] \in Orders /\ order[k].kind \in Kind
  BY <1>1 DEF LedgerInv, QuantityTypes, Idle, Order
<1>3. \A i \in DOMAIN todo[k] : Fits(order[k].kind, todo[k][i])
  BY <1>1 DEF LedgerInv, TodoFits
<1>4. AtHand(k) = todo[k][1] /\ 1 \in DOMAIN todo[k] /\ AtHand(k) \in Item
  BY <1>1 DEF AtHand
<1>5. /\ Tail(todo[k]) \in Seq(Item)
      /\ \A i \in DOMAIN Tail(todo[k]) :
           i + 1 \in DOMAIN todo[k] /\ Tail(todo[k])[i] = todo[k][i + 1]
  BY <1>1
<1> QED
  BY <1>1, <1>2, <1>3, <1>4, <1>5

\* What a request writes is not below zero: a manual edit writes such a quantity,
\* a receipt adds to one, and the others are checked.
LEMMA AfterNotNegative ==
  ASSUME NEW kind \in Kind, NEW item \in Item, NEW onHand \in Int,
         Fits(kind, item),
         item.product \in Guarded => onHand >= 0,
         ~Rejected(kind, item.product, After(item, onHand))
  PROVE  /\ After(item, onHand) \in Int
         /\ item.product \in Guarded => After(item, onHand) >= 0
<1>1. item.amount \in Int /\ item.product \in Products
  BY DEF Item
<1>2. CASE kind = "manual_edit"
  BY <1>1, <1>2 DEF Fits, After
<1>3. CASE kind = "receive"
  BY <1>1, <1>3 DEF Fits, After
<1>4. CASE kind \in {"sale", "adjustment", "purchase"}
  BY <1>1, <1>4 DEF Fits, After, Rejected, Guarded
<1> QED
  BY <1>2, <1>3, <1>4 DEF Kind

-----------------------------------------------------------------------------
(* One step at a time *)

\* At the start nothing is below zero and nothing is in flight.
LEMMA LedgerInitInv == LedgerInit => LedgerInv
  BY DEF LedgerInit, LedgerInv, QuantityTypes, TodoFits, NoneBelowZero, IdleDone, Idle,
         Quantities, Guarded

\* A new request has fitting items and has read nothing.
LEMMA BeginInv ==
  ASSUME LedgerInv, NEW k \in Clerks, NEW o \in Orders, Begin(k, o)
  PROVE  LedgerInv'
<1>1. o \in Order /\ o.items \in Seq(Item) /\ o # NoOrder
  BY DEF Order
<1>2. \A i \in DOMAIN o.items : Fits(o.kind, o.items[i])
  OBVIOUS
<1>3. QuantityTypes'
  BY <1>1 DEF Begin, committed, LedgerInv, QuantityTypes
<1>4. \A j \in Clerks \ {k} : order'[j] = order[j] /\ todo'[j] = todo[j]
  BY DEF Begin, LedgerInv, QuantityTypes
<1>5. order'[k] = o /\ todo'[k] = o.items
  BY DEF Begin, LedgerInv, QuantityTypes
<1>6. read[k] = NoRead /\ read' = read /\ staged' = staged /\ stock' = stock
  BY DEF Begin, committed, LedgerInv, IdleDone
<1>7. TodoFits' /\ IdleDone'
  BY <1>1, <1>2, <1>4, <1>5, <1>6 DEF LedgerInv, TodoFits, IdleDone, Idle
<1>8. NoneBelowZero'
  BY <1>4, <1>6 DEF LedgerInv, NoneBelowZero, AtHand
<1> QED
  BY <1>3, <1>7, <1>8 DEF LedgerInv

\* Reading, with or without the lock, reads a quantity that is not below zero.
LEMMA ReadItemInv ==
  ASSUME LedgerInv, NEW k \in Clerks, ReadItem(k)
  PROVE  LedgerInv'
<1> DEFINE q == AtHand(k).product
<1>1. todo[k] # <<>> /\ read[k] = NoRead /\ UNCHANGED <<committed, order, todo, rows>>
  BY DEF ReadItem
<1>2. q \in Products /\ ~Idle(k)
  BY <1>1, ItemAtHand DEF Item
<1>3. View(k, q) \in Int /\ (q \in Guarded => View(k, q) >= 0)
  BY <1>2, ViewType
<1>4. read' = [read EXCEPT ![k] = View(k, q)]
  BY DEF ReadItem
<1>5. staged' = staged \/ staged' = [staged EXCEPT ![k][q] = View(k, q)]
  BY DEF ReadItem
<1>6. QuantityTypes'
  <2>1. /\ read \in [Clerks -> Int \cup {NoRead}]
        /\ staged \in [Clerks -> [Products -> Quantities]]
        /\ View(k, q) \in Quantities
    BY <1>3 DEF LedgerInv, QuantityTypes, Quantities
  <2>2. read' \in [Clerks -> Int \cup {NoRead}]
    BY <1>3, <1>4, <2>1
  <2>3. staged' \in [Clerks -> [Products -> Quantities]]
    BY <1>2, <1>5, <2>1
  <2> QED
    BY <1>1, <2>2, <2>3 DEF LedgerInv, QuantityTypes, committed
<1>7. TodoFits' /\ IdleDone'
  <2>1. order' = order /\ todo' = todo
    BY <1>1
  <2>2. \A j \in Clerks \ {k} : read'[j] = read[j]
    BY <1>4 DEF LedgerInv, QuantityTypes
  <2> QED
    BY <1>2, <2>1, <2>2 DEF LedgerInv, TodoFits, IdleDone, Idle
<1>8. NoneBelowZero'
  <2> SUFFICES ASSUME NEW p \in Guarded, NEW j \in Clerks
               PROVE  /\ stock'[p] >= 0
                      /\ staged'[j][p] # Unwritten => staged'[j][p] >= 0
                      /\ read'[j] # NoRead /\ todo'[j] # <<>> /\ AtHand(j)'.product = p
                           => read'[j] >= 0
    BY <1>1 DEF NoneBelowZero, committed, LedgerInv
  <2>1. stock'[p] >= 0
    BY <1>1 DEF committed, LedgerInv, NoneBelowZero
  <2>2. staged'[j][p] # Unwritten => staged'[j][p] >= 0
    <3>1. staged[j][p] # Unwritten => staged[j][p] >= 0
      BY DEF LedgerInv, NoneBelowZero
    <3>2. staged \in [Clerks -> [Products -> Quantities]]
      BY DEF LedgerInv, QuantityTypes
    <3> QED
      BY <1>2, <1>3, <1>5, <3>1, <3>2 DEF Guarded
  <2>3. CASE j = k
    BY <1>1, <1>3, <1>4, <2>1, <2>2, <2>3 DEF LedgerInv, QuantityTypes, AtHand
  <2>4. CASE j # k
    BY <1>1, <1>4, <2>1, <2>2, <2>4 DEF LedgerInv, NoneBelowZero, QuantityTypes, AtHand
  <2> QED
    BY <2>3, <2>4
<1> QED
  BY <1>6, <1>7, <1>8 DEF LedgerInv

\* Writing writes one that is not below zero, or is rejected.
LEMMA WriteItemInv ==
  ASSUME LedgerInv, NEW k \in Clerks, WriteItem(k)
  PROVE  LedgerInv'
<1> DEFINE q == AtHand(k).product
           after == After(AtHand(k), read[k])
<1>1. /\ todo[k] # <<>> /\ read[k] # NoRead
      /\ ~Rejected(order[k].kind, q, after)
      /\ staged' = [staged EXCEPT ![k][q] = after]
      /\ todo' = [todo EXCEPT ![k] = Tail(@)]
      /\ read' = [read EXCEPT ![k] = NoRead]
      /\ stock' = stock /\ order' = order
  BY DEF WriteItem
<1>2. /\ ~Idle(k) /\ order[k].kind \in Kind /\ AtHand(k) \in Item
      /\ Fits(order[k].kind, AtHand(k))
      /\ Tail(todo[k]) \in Seq(Item)
      /\ \A i \in DOMAIN Tail(todo[k]) : Fits(order[k].kind, Tail(todo[k])[i])
  BY <1>1, ItemAtHand
<1>3. q \in Products
  BY <1>2 DEF Item
<1>4. read[k] \in Int /\ (q \in Guarded => read[k] >= 0)
  BY <1>1, <1>3 DEF LedgerInv, QuantityTypes, NoneBelowZero
<1>5. after \in Int /\ (q \in Guarded => after >= 0)
  BY <1>1, <1>2, <1>4, AfterNotNegative
<1>6. QuantityTypes'
  BY <1>1, <1>2, <1>3, <1>5 DEF LedgerInv, QuantityTypes, Quantities
<1>7. TodoFits' /\ IdleDone'
  BY <1>1, <1>2 DEF LedgerInv, TodoFits, IdleDone, Idle, QuantityTypes
<1>8. NoneBelowZero'
  <2> SUFFICES ASSUME NEW p \in Guarded, NEW j \in Clerks
               PROVE  /\ stock'[p] >= 0
                      /\ staged'[j][p] # Unwritten => staged'[j][p] >= 0
                      /\ read'[j] # NoRead /\ todo'[j] # <<>> /\ AtHand(j)'.product = p
                           => read'[j] >= 0
    BY <1>1 DEF NoneBelowZero, LedgerInv
  <2>1. stock'[p] >= 0
    BY <1>1 DEF LedgerInv, NoneBelowZero
  <2>2. staged'[j][p] # Unwritten => staged'[j][p] >= 0
    BY <1>1, <1>3, <1>5 DEF LedgerInv, NoneBelowZero, QuantityTypes, Guarded
  <2>3. CASE j = k
    BY <1>1, <2>1, <2>2, <2>3 DEF LedgerInv, QuantityTypes
  <2>4. CASE j # k
    BY <1>1, <2>1, <2>2, <2>4 DEF LedgerInv, NoneBelowZero, QuantityTypes, AtHand
  <2> QED
    BY <2>3, <2>4
<1> QED
  BY <1>6, <1>7, <1>8 DEF LedgerInv

\* A request that ends, with its quantities committed or without.
LEMMA EndInv ==
  ASSUME LedgerInv, NEW k \in Clerks, Forget(k),
         stock' \in [Products -> Int], \A p \in Guarded : stock'[p] >= 0
  PROVE  LedgerInv'
<1>1. /\ order' = [order EXCEPT ![k] = NoOrder]
      /\ todo' = [todo EXCEPT ![k] = <<>>]
      /\ read' = [read EXCEPT ![k] = NoRead]
      /\ staged' = [staged EXCEPT ![k] = [p \in Products |-> Unwritten]]
  BY DEF Forget
<1>2. QuantityTypes'
  BY <1>1 DEF LedgerInv, QuantityTypes, Quantities
<1>3. TodoFits' /\ IdleDone'
  BY <1>1 DEF LedgerInv, QuantityTypes, TodoFits, IdleDone, Idle
<1>4. NoneBelowZero'
  BY <1>1 DEF LedgerInv, QuantityTypes, NoneBelowZero, AtHand, Guarded
<1> QED
  BY <1>2, <1>3, <1>4 DEF LedgerInv

\* A commit publishes what the request sees.
LEMMA CommitInv ==
  ASSUME LedgerInv, NEW k \in Clerks, Commit(k)
  PROVE  LedgerInv'
<1>1. stock' = [p \in Products |-> View(k, p)] /\ Forget(k)
  BY DEF Commit
<1>2. stock' \in [Products -> Int] /\ \A p \in Guarded : stock'[p] >= 0
  BY <1>1, ViewType DEF Guarded
<1> QED
  BY <1>1, <1>2, EndInv

\* A rollback publishes nothing.
LEMMA RollbackInv ==
  ASSUME LedgerInv, NEW k \in Clerks, Rollback(k)
  PROVE  LedgerInv'
<1>1. stock' = stock /\ Forget(k)
  BY DEF Rollback, committed
<1> QED
  BY <1>1, EndInv DEF LedgerInv, QuantityTypes, NoneBelowZero

\* Every step keeps the invariant.
LEMMA LedgerNextInv == LedgerInv /\ [LedgerNext]_ledgerVars => LedgerInv'
<1> SUFFICES ASSUME LedgerInv, [LedgerNext]_ledgerVars PROVE LedgerInv'
  OBVIOUS
<1>1. ASSUME NEW k \in Clerks, NEW o \in Orders, Begin(k, o) PROVE LedgerInv'
  BY <1>1, BeginInv
<1>2. ASSUME NEW k \in Clerks, ReadItem(k) PROVE LedgerInv'
  BY <1>2, ReadItemInv
<1>3. ASSUME NEW k \in Clerks, WriteItem(k) PROVE LedgerInv'
  BY <1>3, WriteItemInv
<1>4. ASSUME NEW k \in Clerks, Commit(k) PROVE LedgerInv'
  BY <1>4, CommitInv
<1>5. ASSUME NEW k \in Clerks, Rollback(k) PROVE LedgerInv'
  BY <1>5, RollbackInv
<1>6. CASE UNCHANGED ledgerVars
  BY <1>6 DEF ledgerVars, LedgerInv, QuantityTypes, TodoFits, NoneBelowZero, IdleDone,
              Idle, AtHand
<1> QED
  BY <1>1, <1>2, <1>3, <1>4, <1>5, <1>6 DEF LedgerNext, LedgerStep

-----------------------------------------------------------------------------
\* No receipt, adjustment, manual edit, purchase or sale ever takes a product below
\* zero that may not go there, although most of them compute what they write from a
\* read that others may have overtaken.
THEOREM StockNeverNegative == LedgerSpec => []NeverBelowZero
<1>1. LedgerInv => NeverBelowZero
  BY DEF LedgerInv, NoneBelowZero, NeverBelowZero, Guarded
<1> QED
  BY LedgerInitInv, LedgerNextInv, <1>1, PTL DEF LedgerSpec

-----------------------------------------------------------------------------
(* Histories *)

\* The rows s lead from one quantity to another, each from where the last one ended.
Leads(s, from, to) ==
  /\ \A i \in DOMAIN s :
       s[i].quantityBefore = IF i = 1 THEN from ELSE s[i - 1].quantityAfter
  /\ to = IF s = <<>> THEN from ELSE s[Len(s)].quantityAfter

LEMMA NoRowsLead ==
  ASSUME NEW from
  PROVE  Leads(<<>>, from, from)
  BY DEF Leads

\* One more row.
LEMMA OneMoreRow ==
  ASSUME NEW s \in Seq(Row), NEW from, NEW to, NEW row \in Row,
         Leads(s, from, to), row.quantityBefore = to
  PROVE  Leads(Append(s, row), from, row.quantityAfter)
<1> DEFINE t == Append(s, row)
<1>1. /\ t \in Seq(Row) /\ Len(t) = Len(s) + 1 /\ t[Len(t)] = row
      /\ \A i \in 1 .. Len(s) : t[i] = s[i]
  OBVIOUS
<1>2. /\ DOMAIN t = 1 .. Len(s) + 1 /\ DOMAIN s = 1 .. Len(s) /\ t # <<>>
      /\ Len(s) \in Nat /\ (s = <<>> <=> Len(s) = 0)
  BY <1>1
<1> HIDE DEF t
<1>3. ASSUME NEW i \in DOMAIN t
      PROVE  t[i].quantityBefore = IF i = 1 THEN from ELSE t[i - 1].quantityAfter
  <2>1. CASE i \in 1 .. Len(s)
    <3>1. t[i] = s[i] /\ (i # 1 => t[i - 1] = s[i - 1])
      BY <1>1, <1>2, <2>1
    <3> QED
      BY <1>2, <2>1, <3>1 DEF Leads
  <2>2. CASE i = Len(s) + 1
    <3>1. t[i] = row /\ (i # 1 => i - 1 = Len(s) /\ t[i - 1] = s[Len(s)] /\ s # <<>>)
      BY <1>1, <1>2, <2>2
    <3>2. i = 1 => s = <<>>
      BY <1>2, <2>2
    <3> QED
      BY <3>1, <3>2 DEF Leads
  <2> QED
    BY <1>2, <2>1, <2>2
<1> QED
  BY <1>1, <1>2, <1>3 DEF Leads, t

\* One history after the other.
LEMMA OneAfterTheOther ==
  ASSUME NEW s \in Seq(Row), NEW t \in Seq(Row), NEW from, NEW via, NEW to,
         Leads(s, from, via), Leads(t, via, to)
  PROVE  Leads(s \o t, from, to)
<1> DEFINE u == s \o t
<1>1. /\ u \in Seq(Row) /\ Len(u) = Len(s) + Len(t)
      /\ \A i \in 1 .. Len(s) : u[i] = s[i]
      /\ \A i \in 1 .. Len(t) : u[Len(s) + i] = t[i]
  OBVIOUS
<1>2. /\ DOMAIN u = 1 .. Len(s) + Len(t) /\ DOMAIN s = 1 .. Len(s) /\ DOMAIN t = 1 .. Len(t)
      /\ Len(s) \in Nat /\ Len(t) \in Nat
      /\ (s = <<>> <=> Len(s) = 0) /\ (t = <<>> <=> Len(t) = 0) /\ (u = <<>> <=> Len(u) = 0)
  BY <1>1
<1> HIDE DEF u
<1>3. ASSUME NEW i \in DOMAIN u
      PROVE  u[i].quantityBefore = IF i = 1 THEN from ELSE u[i - 1].quantityAfter
  <2>1. CASE i \in 1 .. Len(s)
    <3>1. u[i] = s[i] /\ (i # 1 => u[i - 1] = s[i - 1])
      BY <1>1, <1>2, <2>1
    <3> QED
      BY <1>2, <2>1, <3>1 DEF Leads
  <2>2. CASE i = Len(s) + 1 /\ t # <<>>
    <3>1. 1 \in DOMAIN t /\ u[i] = t[1]
      BY <1>1, <1>2, <2>2
    <3>2. t[1].quantityBefore = via
      BY <3>1 DEF Leads
    <3>3. i # 1 => s # <<>> /\ u[i - 1] = s[Len(s)]
      BY <1>1, <1>2, <2>2
    <3>4. i = 1 => s = <<>>
      BY <1>2, <2>2
    <3> QED
      BY <3>1, <3>2, <3>3, <3>4 DEF Leads
  <2>3. CASE i > Len(s) + 1
    <3> DEFINE n == i - Len(s)
    <3>1. n \in DOMAIN t /\ i = Len(s) + n /\ n # 1 /\ n - 1 \in DOMAIN t
      BY <1>2, <2>3
    <3> HIDE DEF n
    <3>2. u[i] = t[n] /\ u[i - 1] = t[n - 1] /\ i # 1
      BY <1>1, <1>2, <3>1
    <3> QED
      BY <3>1, <3>2 DEF Leads
  <2> QED
    BY <1>1, <1>2, <2>1, <2>2, <2>3
<1>4. to = IF u = <<>> THEN from ELSE u[Len(u)].quantityAfter
  <2>1. CASE t = <<>>
    BY <1>1, <1>2, <2>1 DEF Leads
  <2>2. CASE t # <<>>
    BY <1>1, <1>2, <2>2 DEF Leads
  <2> QED
    BY <2>1, <2>2
<1> QED
  BY <1>3, <1>4 DEF Leads, u

-----------------------------------------------------------------------------
(* What a request knows of a product *)

\* The rest of the type invariant.
RowTypes ==
  /\ log \in [Products -> Seq(Row)]
  /\ rows \in [Clerks -> [Products -> Seq(Row)]]
  /\ overtaken \subseteq Clerks

\* A product is written, or locked, by one request at a time.
HoldersApart ==
  \A j, k \in Clerks, p \in Products :
    staged[j][p] # Unwritten /\ staged[k][p] # Unwritten => j = k

\* Only a request in flight has written or locked something.
IdleHoldsNothing ==
  \A k \in Clerks : Idle(k) => \A p \in Products : staged[k][p] = Unwritten

\* A request that did not write a product has no row of it.
RowsAreStaged ==
  \A k \in Clerks, p \in Products : staged[k][p] = Unwritten => rows[k][p] = <<>>

Reading(k) == todo[k] # <<>> /\ read[k] # NoRead

\* What a request read is still so, unless it was overtaken.
ReadIsCurrent ==
  \A k \in Clerks : Reading(k) /\ k \notin overtaken => read[k] = View(k, AtHand(k).product)

\* Its rows of a product lead from the quantity on hand to the one it sees.
RowsLead ==
  \A k \in Clerks, p \in Products \ drifted : Leads(rows[k][p], stock[p], View(k, p))

LogLeads == \A p \in Products \ drifted : Leads(log[p], InitialStock[p], stock[p])

HistoryInv ==
  /\ RowTypes /\ HoldersApart /\ IdleHoldsNothing /\ RowsAreStaged
  /\ ReadIsCurrent /\ RowsLead /\ LogLeads

\* A sale keeps the lock on what it reads until it has written it, so its rows are
\* true of every product; a product has one row, and none before the item's turn.
SaleOK(k) ==
  Is(k, "sale") =>
    /\ Reading(k) => staged[k][AtHand(k).product] = read[k]
    /\ \A i, j \in DOMAIN todo[k] : i # j => todo[k][i].product # todo[k][j].product
    /\ \A i \in DOMAIN todo[k] : rows[k][todo[k][i].product] = <<>>
    /\ \A p \in Products : Len(rows[k][p]) <= 1 /\ Leads(rows[k][p], stock[p], View(k, p))

\* The rows of a request are of its kind.
RowsAreOfKind ==
  \A k \in Clerks, p \in Products : \A i \in DOMAIN rows[k][p] :
    rows[k][p][i].kind = order[k].kind

SaleInv == RowsAreOfKind /\ \A k \in Clerks : SaleOK(k)

-----------------------------------------------------------------------------
(* One step at a time *)

\* A new request has read and written nothing.
LEMMA BeginHistory ==
  ASSUME LedgerInv, HistoryInv, NEW k \in Clerks, NEW o \in Orders, Begin(k, o)
  PROVE  HistoryInv'
<1>1. /\ UNCHANGED <<committed, read, staged, rows, overtaken>>
      /\ read[k] = NoRead /\ Idle(k)
      /\ \A j \in Clerks \ {k} : todo'[j] = todo[j] /\ order'[j] = order[j]
  BY DEF Begin, LedgerInv, QuantityTypes, IdleDone
<1>2. RowTypes' /\ HoldersApart' /\ RowsAreStaged' /\ RowsLead' /\ LogLeads'
  BY <1>1 DEF HistoryInv, RowTypes, HoldersApart, RowsAreStaged, RowsLead, LogLeads,
              committed, View
<1>3. IdleHoldsNothing'
  BY <1>1 DEF HistoryInv, IdleHoldsNothing, Idle
<1>4. ReadIsCurrent'
  BY <1>1 DEF HistoryInv, ReadIsCurrent, Reading, AtHand, View, committed
<1> QED
  BY <1>2, <1>3, <1>4 DEF HistoryInv

\* Reading shows a request what it sees; locking changes nothing of that.
LEMMA ReadItemHistory ==
  ASSUME LedgerInv, HistoryInv, NEW k \in Clerks, ReadItem(k)
  PROVE  HistoryInv'
<1> DEFINE q == AtHand(k).product
<1>1. /\ todo[k] # <<>> /\ UNCHANGED <<committed, order, todo, rows>>
      /\ read' = [read EXCEPT ![k] = View(k, q)]
      /\ overtaken' = overtaken \ {k}
  BY DEF ReadItem
<1>2. \/ staged' = staged
      \/ ~Busy(k, q) /\ staged' = [staged EXCEPT ![k][q] = View(k, q)]
  BY DEF ReadItem
<1>3. /\ q \in Products /\ ~Idle(k) /\ View(k, q) \in Int
      /\ staged \in [Clerks -> [Products -> Quantities]]
      /\ read \in [Clerks -> Int \cup {NoRead}]
  BY <1>1, ItemAtHand, ViewType DEF Item, LedgerInv, QuantityTypes
<1> HIDE DEF q
<1>4. ASSUME NEW j \in Clerks, NEW p \in Products
      PROVE  /\ (IF staged'[j][p] # Unwritten THEN staged'[j][p] ELSE stock[p]) = View(j, p)
             /\ \/ staged'[j][p] = staged[j][p]
                \/ j = k /\ p = q /\ ~Busy(k, q) /\ staged'[j][p] # Unwritten
  BY <1>2, <1>3 DEF View
<1>5. \A j \in Clerks, p \in Products : View(j, p)' = View(j, p)
  BY <1>1, <1>4 DEF View, committed
<1>6. RowTypes' /\ LogLeads'
  BY <1>1 DEF HistoryInv, RowTypes, LogLeads, committed
<1>7. HoldersApart'
  BY <1>3, <1>4 DEF HistoryInv, HoldersApart, Busy
<1>8. RowsAreStaged' /\ IdleHoldsNothing'
  BY <1>1, <1>3, <1>4 DEF HistoryInv, RowsAreStaged, IdleHoldsNothing, Idle
<1>9. RowsLead'
  BY <1>1, <1>5 DEF HistoryInv, RowsLead, committed
<1>10. ReadIsCurrent'
  <2> SUFFICES ASSUME NEW j \in Clerks, Reading(j)', j \notin overtaken'
               PROVE  read'[j] = View(j, AtHand(j).product)'
    BY DEF ReadIsCurrent
  <2>1. AtHand(j)' = AtHand(j) /\ todo[j] # <<>>
    BY <1>1 DEF AtHand, Reading
  <2>2. AtHand(j).product \in Products
    BY <2>1, ItemAtHand DEF Item
  <2>3. View(j, AtHand(j).product)' = View(j, AtHand(j).product)
    BY <1>5, <2>1, <2>2
  <2>4. CASE j = k
    BY <1>1, <1>3, <2>3, <2>4 DEF q
  <2>5. CASE j # k
    BY <1>1, <1>3, <2>1, <2>3, <2>5 DEF HistoryInv, ReadIsCurrent, Reading
  <2> QED
    BY <2>4, <2>5
<1> QED
  BY <1>6, <1>7, <1>8, <1>9, <1>10 DEF HistoryInv

\* What a request writes of the item at hand.
ItemWritten(k, q, after) ==
  /\ Reading(k) /\ ~Idle(k) /\ q \in Products /\ read[k] \in Int /\ after \in Int
  /\ ~Busy(k, q)
  /\ UNCHANGED <<stock, log, order, overtaken>>
  /\ drifted' = IF k \in overtaken THEN drifted \cup {q} ELSE drifted
  /\ todo' = [todo EXCEPT ![k] = Tail(@)] /\ todo[k] \in Seq(Item)
  /\ read' = [read EXCEPT ![k] = NoRead]
  /\ staged' = [staged EXCEPT ![k][q] = after]
  /\ \A j \in Clerks \ {k} : rows'[j] = rows[j]
  /\ \A p \in Products \ {q} : rows'[k][p] = rows[k][p]
  /\ rows' \in [Clerks -> [Products -> Seq(Row)]]
  /\ \/ rows'[k][q] = Append(rows[k][q], LogRow(k, after)) /\ LogRow(k, after) \in Row
     \/ rows'[k][q] = rows[k][q] /\ after = read[k]

LEMMA WriteItemEffect ==
  ASSUME LedgerInv, HistoryInv, NEW k \in Clerks, WriteItem(k), NEW q, NEW after,
         q = AtHand(k).product, after = After(AtHand(k), read[k])
  PROVE  ItemWritten(k, q, after)
<1>1. /\ todo[k] # <<>> /\ read[k] # NoRead /\ ~Busy(k, q)
      /\ UNCHANGED <<stock, log, order, overtaken>>
      /\ drifted' = IF k \in overtaken THEN drifted \cup {q} ELSE drifted
      /\ todo' = [todo EXCEPT ![k] = Tail(@)]
      /\ read' = [read EXCEPT ![k] = NoRead]
      /\ staged' = [staged EXCEPT ![k][q] = after]
      /\ rows' = [rows EXCEPT ![k][q] = IF Logged(AtHand(k), read[k])
                                         THEN Append(@, LogRow(k, after)) ELSE @]
  BY DEF WriteItem
<1>2. /\ ~Idle(k) /\ order[k].kind \in Kind /\ AtHand(k) \in Item
      /\ Fits(order[k].kind, AtHand(k)) /\ todo[k] \in Seq(Item)
  BY <1>1, ItemAtHand DEF LedgerInv, QuantityTypes
<1>3. q \in Products /\ read[k] \in Int /\ AtHand(k).amount \in Int
  BY <1>1, <1>2 DEF Item, LedgerInv, QuantityTypes
<1>4. after \in Int
  BY <1>2, <1>3 DEF After, Item
<1>5. LogRow(k, after) \in Row
  BY <1>2, <1>3, <1>4 DEF LogRow, Row
<1>6. ~Logged(AtHand(k), read[k]) => after = read[k]
  BY <1>2 DEF Logged, After, Item
<1>7. rows \in [Clerks -> [Products -> Seq(Row)]]
  BY DEF HistoryInv, RowTypes
<1> DEFINE more == IF Logged(AtHand(k), read[k]) THEN Append(rows[k][q], LogRow(k, after))
                                                 ELSE rows[k][q]
<1>8. more \in Seq(Row) /\ rows' = [rows EXCEPT ![k][q] = more]
  BY <1>1, <1>3, <1>5, <1>7
<1>9. \/ more = Append(rows[k][q], LogRow(k, after))
      \/ more = rows[k][q] /\ after = read[k]
  BY <1>6
<1> HIDE DEF more
<1>10. /\ \A j \in Clerks \ {k} : rows'[j] = rows[j]
       /\ \A p \in Products \ {q} : rows'[k][p] = rows[k][p]
       /\ rows' \in [Clerks -> [Products -> Seq(Row)]]
       /\ rows'[k][q] = more
  BY <1>3, <1>7, <1>8
<1> QED
  BY <1>1, <1>2, <1>3, <1>4, <1>5, <1>9, <1>10 DEF Reading, ItemWritten

\* The row a request writes continues what it sees, unless it was overtaken.
LEMMA WriteItemHistory ==
  ASSUME LedgerInv, HistoryInv, NEW k \in Clerks, WriteItem(k)
  PROVE  HistoryInv'
<1>0. PICK q, after : q = AtHand(k).product /\ after = After(AtHand(k), read[k])
  OBVIOUS
<1>w. ItemWritten(k, q, after)
  BY <1>0, WriteItemEffect
<1>1. /\ Reading(k) /\ ~Idle(k) /\ q \in Products /\ read[k] \in Int /\ after \in Int
      /\ ~Busy(k, q)
      /\ UNCHANGED <<stock, log, order, overtaken>>
      /\ drifted' = IF k \in overtaken THEN drifted \cup {q} ELSE drifted
      /\ todo' = [todo EXCEPT ![k] = Tail(@)]
      /\ read' = [read EXCEPT ![k] = NoRead]
      /\ staged' = [staged EXCEPT ![k][q] = after]
      /\ \A j \in Clerks \ {k} : rows'[j] = rows[j]
      /\ \A p \in Products \ {q} : rows'[k][p] = rows[k][p]
      /\ rows' \in [Clerks -> [Products -> Seq(Row)]]
      /\ \/ rows'[k][q] = Append(rows[k][q], LogRow(k, after)) /\ LogRow(k, after) \in Row
         \/ rows'[k][q] = rows[k][q] /\ after = read[k]
  BY <1>w DEF ItemWritten
<1>2. /\ staged \in [Clerks -> [Products -> Quantities]]
      /\ todo \in [Clerks -> Seq(Item)] /\ read \in [Clerks -> Int \cup {NoRead}]
      /\ rows \in [Clerks -> [Products -> Seq(Row)]]
  BY DEF LedgerInv, QuantityTypes, HistoryInv, RowTypes
<1>3. k \notin overtaken => read[k] = View(k, q)
  BY <1>0, <1>1 DEF HistoryInv, ReadIsCurrent
<1>4. LogRow(k, after).quantityBefore = read[k] /\ LogRow(k, after).quantityAfter = after
  BY DEF LogRow
<1>5. /\ staged'[k][q] = after /\ after # Unwritten
      /\ \A j \in Clerks, p \in Products : j # k \/ p # q => staged'[j][p] = staged[j][p]
  BY <1>1, <1>2
<1>6. /\ View(k, q)' = after
      /\ \A j \in Clerks, p \in Products : j # k \/ p # q => View(j, p)' = View(j, p)
  BY <1>1, <1>5 DEF View
<1>7. RowTypes' /\ IdleHoldsNothing' /\ RowsAreStaged'
  <2>1. RowTypes'
    BY <1>1 DEF HistoryInv, RowTypes
  <2>2. IdleHoldsNothing'
    BY <1>1, <1>5 DEF HistoryInv, IdleHoldsNothing, Idle
  <2>3. \A j \in Clerks, p \in Products :
          j # k \/ p # q => staged'[j][p] = staged[j][p] /\ rows'[j][p] = rows[j][p]
    BY <1>1, <1>5
  <2>4. RowsAreStaged'
    BY <1>5, <2>3 DEF HistoryInv, RowsAreStaged
  <2> QED
    BY <2>1, <2>2, <2>4
<1>8. HoldersApart'
  BY <1>1, <1>5 DEF HistoryInv, HoldersApart, Busy
<1>9. LogLeads'
  BY <1>1 DEF HistoryInv, LogLeads
<1>10. ReadIsCurrent'
  <2> SUFFICES ASSUME NEW j \in Clerks, Reading(j)', j \notin overtaken'
               PROVE  read'[j] = View(j, AtHand(j).product)'
    BY DEF ReadIsCurrent
  <2>1. j # k
    BY <1>1, <1>2 DEF Reading
  <2>2. todo'[j] = todo[j] /\ read'[j] = read[j] /\ Reading(j)
    BY <1>1, <1>2, <2>1 DEF Reading
  <2>3. AtHand(j)' = AtHand(j) /\ AtHand(j).product \in Products
    BY <2>2, ItemAtHand DEF AtHand, Item, Reading
  <2>4. View(j, AtHand(j).product)' = View(j, AtHand(j).product)
    BY <1>6, <2>1, <2>3
  <2> QED
    BY <1>1, <2>2, <2>4 DEF HistoryInv, ReadIsCurrent
<1>11. RowsLead'
  <2> SUFFICES ASSUME NEW j \in Clerks, NEW p \in Products \ drifted'
               PROVE  Leads(rows'[j][p], stock'[p], View(j, p)')
    BY DEF RowsLead
  <2>1. p \notin drifted /\ Leads(rows[j][p], stock[p], View(j, p))
    BY <1>1 DEF HistoryInv, RowsLead
  <2>2. CASE j # k \/ p # q
    BY <1>1, <1>6, <2>1, <2>2
  <2>3. CASE j = k /\ p = q
    <3>1. read[k] = View(k, q)
      BY <1>1, <1>3, <2>3
    <3>2. CASE rows'[k][q] = rows[k][q] /\ after = read[k]
      BY <1>1, <1>6, <2>1, <2>3, <3>1, <3>2
    <3>3. CASE rows'[k][q] = Append(rows[k][q], LogRow(k, after)) /\ LogRow(k, after) \in Row
      <4> DEFINE row == LogRow(k, after)
      <4>1. row \in Row /\ row.quantityBefore = read[k] /\ row.quantityAfter = after
        BY <1>4, <3>3
      <4>2. rows[k][q] \in Seq(Row) /\ Leads(rows[k][q], stock[q], read[k])
        BY <1>1, <1>2, <2>1, <2>3, <3>1
      <4> HIDE DEF row
      <4>3. Leads(Append(rows[k][q], row), stock[q], row.quantityAfter)
        BY <4>1, <4>2, OneMoreRow
      <4>4. Leads(Append(rows[k][q], LogRow(k, after)), stock[q], after)
        BY <4>1, <4>3 DEF row
      <4> QED
        BY <1>1, <1>6, <2>3, <3>3, <4>4
    <3> QED
      BY <1>1, <3>2, <3>3
  <2> QED
    BY <2>2, <2>3
<1> QED
  BY <1>7, <1>8, <1>9, <1>10, <1>11 DEF HistoryInv

\* A request that ends leaves no rows behind.  Of a product that it had written nobody
\* else had written anything; who had read another quantity of it is overtaken.
LEMMA EndHistory ==
  ASSUME LedgerInv, HistoryInv, NEW k \in Clerks, Forget(k), drifted' = drifted,
         \A p \in Products : stock'[p] = stock[p] \/ stock'[p] = View(k, p),
         overtaken' \in SUBSET Clerks,
         \A j \in Clerks \ {k} : j \in overtaken => j \in overtaken',
         \A j \in Clerks \ {k} : Reading(j) /\ j \notin overtaken' =>
           stock'[AtHand(j).product] = stock[AtHand(j).product],
         log' \in [Products -> Seq(Row)], LogLeads'
  PROVE  HistoryInv'
<1>1. /\ order' = [order EXCEPT ![k] = NoOrder]
      /\ todo' = [todo EXCEPT ![k] = <<>>]
      /\ read' = [read EXCEPT ![k] = NoRead]
      /\ staged' = [staged EXCEPT ![k] = [p \in Products |-> Unwritten]]
      /\ rows' = [rows EXCEPT ![k] = [p \in Products |-> <<>>]]
  BY DEF Forget
<1>2. /\ staged \in [Clerks -> [Products -> Quantities]]
      /\ todo \in [Clerks -> Seq(Item)] /\ read \in [Clerks -> Int \cup {NoRead}]
      /\ rows \in [Clerks -> [Products -> Seq(Row)]]
      /\ order \in [Clerks -> Orders \cup {NoOrder}]
  BY DEF LedgerInv, QuantityTypes, HistoryInv, RowTypes
<1>3. /\ todo'[k] = <<>> /\ read'[k] = NoRead
      /\ \A p \in Products : staged'[k][p] = Unwritten /\ rows'[k][p] = <<>>
      /\ \A j \in Clerks \ {k} :
           /\ order'[j] = order[j] /\ todo'[j] = todo[j] /\ read'[j] = read[j]
           /\ staged'[j] = staged[j] /\ rows'[j] = rows[j]
      /\ rows' \in [Clerks -> [Products -> Seq(Row)]]
  BY <1>1, <1>2
<1>4. ASSUME NEW j \in Clerks, NEW p \in Products
      PROVE  \/ j = k /\ staged'[j][p] = Unwritten /\ rows'[j][p] = <<>>
             \/ j # k /\ staged'[j][p] = staged[j][p] /\ rows'[j][p] = rows[j][p]
  BY <1>3
<1>5. RowTypes' /\ HoldersApart' /\ IdleHoldsNothing' /\ RowsAreStaged'
  <2>1. RowTypes'
    BY <1>3 DEF HistoryInv, RowTypes
  <2>2. HoldersApart'
    BY <1>4 DEF HistoryInv, HoldersApart
  <2>3. \A j \in Clerks : j = k \/ order'[j] = order[j]
    BY <1>3
  <2>4. IdleHoldsNothing'
    <3> SUFFICES ASSUME NEW j \in Clerks, order'[j] = NoOrder, NEW p \in Products
                 PROVE  staged'[j][p] = Unwritten
      BY DEF IdleHoldsNothing, Idle
    <3>1. CASE j = k
      BY <1>4, <3>1
    <3>2. CASE j # k
      <4>1. staged[j][p] = Unwritten
        BY <2>3, <3>2 DEF HistoryInv, IdleHoldsNothing, Idle
      <4> QED
        BY <1>4, <3>2, <4>1
    <3> QED
      BY <3>1, <3>2
  <2>5. RowsAreStaged'
    BY <1>4 DEF HistoryInv, RowsAreStaged
  <2> QED
    BY <2>1, <2>2, <2>4, <2>5
<1>6. ASSUME NEW j \in Clerks \ {k}, NEW p \in Products
      PROVE  /\ staged[j][p] # Unwritten => stock'[p] = stock[p]
             /\ staged[j][p] = Unwritten => rows[j][p] = <<>> /\ View(j, p)' = stock'[p]
             /\ stock'[p] = stock[p] => View(j, p)' = View(j, p)
  <2>1. staged[j][p] # Unwritten => staged[k][p] = Unwritten
    BY DEF HistoryInv, HoldersApart
  <2>2. staged[k][p] = Unwritten => View(k, p) = stock[p]
    BY DEF View
  <2> QED
    BY <1>3, <2>1, <2>2 DEF View, HistoryInv, RowsAreStaged
<1>7. ReadIsCurrent'
  <2> SUFFICES ASSUME NEW j \in Clerks, Reading(j)', j \notin overtaken'
               PROVE  read'[j] = View(j, AtHand(j).product)'
    BY DEF ReadIsCurrent
  <2>1. j # k
    BY <1>3 DEF Reading
  <2>2. Reading(j) /\ AtHand(j)' = AtHand(j) /\ AtHand(j).product \in Products
    BY <1>3, <2>1, ItemAtHand DEF Reading, AtHand, Item
  <2>3. stock'[AtHand(j).product] = stock[AtHand(j).product] /\ j \notin overtaken
    BY <2>1, <2>2
  <2>4. View(j, AtHand(j).product)' = View(j, AtHand(j).product)
    BY <1>6, <2>1, <2>2, <2>3
  <2> QED
    BY <1>3, <2>1, <2>2, <2>3, <2>4 DEF HistoryInv, ReadIsCurrent
<1>8. RowsLead'
  <2> SUFFICES ASSUME NEW j \in Clerks, NEW p \in Products \ drifted
               PROVE  Leads(rows'[j][p], stock'[p], View(j, p)')
    BY DEF RowsLead
  <2>1. CASE j = k
    <3>1. rows'[j][p] = <<>> /\ View(j, p)' = stock'[p]
      BY <1>4, <2>1 DEF View
    <3> QED
      BY <3>1, NoRowsLead
  <2>2. CASE j # k /\ staged[j][p] = Unwritten
    <3>1. rows'[j][p] = <<>> /\ View(j, p)' = stock'[p]
      BY <1>4, <1>6, <2>2
    <3> QED
      BY <3>1, NoRowsLead
  <2>3. CASE j # k /\ staged[j][p] # Unwritten
    <3>1. rows'[j][p] = rows[j][p] /\ View(j, p)' = View(j, p) /\ stock'[p] = stock[p]
      BY <1>4, <1>6, <2>3
    <3> QED
      BY <3>1 DEF HistoryInv, RowsLead
  <2> QED
    BY <2>1, <2>2, <2>3
<1> QED
  BY <1>5, <1>7, <1>8 DEF HistoryInv

\* A commit appends its rows to the logs and overtakes who had read something else.
LEMMA CommitHistory ==
  ASSUME LedgerInv, HistoryInv, NEW k \in Clerks, Commit(k)
  PROVE  HistoryInv'
<1>1. /\ Forget(k) /\ drifted' = drifted
      /\ stock' = [p \in Products |-> View(k, p)]
      /\ log' = [p \in Products |-> log[p] \o rows[k][p]]
      /\ overtaken' = (overtaken \cup Overtakes(k)) \ {k}
  BY DEF Commit
<1>2. RowTypes
  BY DEF HistoryInv
<1>3. log' \in [Products -> Seq(Row)]
  BY <1>1, <1>2 DEF RowTypes
<1>4. overtaken' \in SUBSET Clerks
  BY <1>1, <1>2 DEF RowTypes, Overtakes
<1>5. LogLeads'
  <2> SUFFICES ASSUME NEW p \in Products \ drifted
               PROVE  Leads(log'[p], InitialStock[p], stock'[p])
    BY <1>1 DEF LogLeads
  <2>1. Leads(log[p], InitialStock[p], stock[p]) /\ Leads(rows[k][p], stock[p], View(k, p))
    BY DEF HistoryInv, LogLeads, RowsLead
  <2>2. log[p] \in Seq(Row) /\ rows[k][p] \in Seq(Row)
    BY <1>2 DEF RowTypes
  <2>3. Leads(log[p] \o rows[k][p], InitialStock[p], View(k, p))
    BY <2>1, <2>2, OneAfterTheOther
  <2> QED
    BY <1>1, <2>3
<1>6. ASSUME NEW j \in Clerks \ {k}, Reading(j), j \notin overtaken'
      PROVE  stock'[AtHand(j).product] = stock[AtHand(j).product]
  <2>1. AtHand(j).product \in Products
    BY <1>6, ItemAtHand DEF Reading, Item
  <2>2. j \notin Overtakes(k)
    BY <1>1, <1>6
  <2>3. View(k, AtHand(j).product) = stock[AtHand(j).product]
    BY <1>6, <2>2 DEF Overtakes, Reading
  <2> QED
    BY <1>1, <2>1, <2>3
<1> QED
  BY <1>1, <1>3, <1>4, <1>5, <1>6, EndHistory

LEMMA RollbackHistory ==
  ASSUME LedgerInv, HistoryInv, NEW k \in Clerks, Rollback(k)
  PROVE  HistoryInv'
<1>1. /\ Forget(k) /\ stock' = stock /\ log' = log /\ drifted' = drifted
      /\ overtaken' = overtaken \ {k}
  BY DEF Rollback, committed
<1>2. /\ log' \in [Products -> Seq(Row)] /\ LogLeads' /\ overtaken' \in SUBSET Clerks
  BY <1>1 DEF HistoryInv, RowTypes, LogLeads
<1> QED
  BY <1>1, <1>2, EndHistory

-----------------------------------------------------------------------------
(* The rows of sales *)

\* What somebody else writes, commits or gives up does not change what a sale knows of
\* the products it has locked, and it has no rows of the others.
LEMMA SaleKept ==
  ASSUME LedgerInv, HistoryInv, NEW k \in Clerks, NEW j \in Clerks \ {k}, SaleOK(j),
         order'[j] = order[j], todo'[j] = todo[j], read'[j] = read[j],
         staged'[j] = staged[j], rows'[j] = rows[j],
         \A p \in Products : stock'[p] = stock[p] \/ stock'[p] = View(k, p)
  PROVE  SaleOK(j)'
<1> SUFFICES ASSUME Is(j, "sale") PROVE SaleOK(j)'
  BY DEF SaleOK, Is, Idle
<1>1. ASSUME NEW p \in Products
      PROVE  Len(rows[j][p]) <= 1 /\ Leads(rows[j][p], stock'[p], View(j, p)')
  <2>1. Len(rows[j][p]) <= 1 /\ Leads(rows[j][p], stock[p], View(j, p))
    BY DEF SaleOK
  <2>2. CASE staged[j][p] = Unwritten
    <3>1. rows[j][p] = <<>> /\ View(j, p)' = stock'[p]
      BY <2>2 DEF HistoryInv, RowsAreStaged, View
    <3> QED
      BY <2>1, <3>1, NoRowsLead
  <2>3. CASE staged[j][p] # Unwritten
    <3>1. staged[k][p] = Unwritten
      BY <2>3 DEF HistoryInv, HoldersApart
    <3>2. stock'[p] = stock[p]
      BY <3>1 DEF View
    <3>3. View(j, p)' = View(j, p)
      BY <3>2 DEF View
    <3> QED
      BY <2>1, <3>2, <3>3
  <2> QED
    BY <2>2, <2>3
<1>2. Reading(j)' => Reading(j) /\ AtHand(j)' = AtHand(j)
  BY DEF Reading, AtHand
<1> QED
  BY <1>1, <1>2 DEF SaleOK, Is, Idle

\* A new sale has written nothing and names each product once.
LEMMA BeginSale ==
  ASSUME LedgerInv, HistoryInv, SaleInv, NEW k \in Clerks, NEW o \in Orders, Begin(k, o)
  PROVE  SaleInv'
<1>1. /\ Idle(k) /\ read[k] = NoRead
      /\ UNCHANGED <<committed, read, staged, rows, overtaken>>
      /\ order'[k] = o /\ todo'[k] = o.items
      /\ \A j \in Clerks \ {k} : order'[j] = order[j] /\ todo'[j] = todo[j]
  BY DEF Begin, LedgerInv, QuantityTypes, IdleDone
<1>2. \A p \in Products : staged[k][p] = Unwritten /\ rows[k][p] = <<>>
  BY <1>1 DEF HistoryInv, IdleHoldsNothing, RowsAreStaged
<1>3. RowsAreOfKind'
  <2>1. \A p \in Products : DOMAIN rows[k][p] = {}
    BY <1>2
  <2> QED
    BY <1>1, <2>1 DEF SaleInv, RowsAreOfKind
<1>4. \A j \in Clerks \ {k} : SaleOK(j)'
  BY <1>1, SaleKept DEF SaleInv, committed
<1>5. SaleOK(k)'
  <2> SUFFICES ASSUME o.kind = "sale" PROVE SaleOK(k)'
    BY <1>1 DEF SaleOK, Is
  <2>1. /\ \A i, j \in DOMAIN o.items : i # j => o.items[i].product # o.items[j].product
        /\ \A i \in DOMAIN o.items : o.items[i].product \in Products
    <3>1. o.items \in Seq(Item)
      BY DEF Order
    <3>2. \A i \in DOMAIN o.items : o.items[i] \in Item
      BY <3>1
    <3> QED
      BY <3>2 DEF Item
  <2>2. ~Reading(k)'
    BY <1>1 DEF Reading
  <2>3. \A p \in Products :
          Len(rows[k][p]) <= 1 /\ Leads(rows[k][p], stock[p], stock[p]) /\ View(k, p)' = stock[p]
    BY <1>1, <1>2, NoRowsLead DEF View, committed
  <2> QED
    BY <1>1, <1>2, <2>1, <2>2, <2>3 DEF SaleOK, committed
<1> QED
  BY <1>3, <1>4, <1>5 DEF SaleInv

\* A sale locks what it reads.
LEMMA ReadItemSale ==
  ASSUME LedgerInv, HistoryInv, SaleInv, NEW k \in Clerks, ReadItem(k)
  PROVE  SaleInv'
<1>0. PICK q : q = AtHand(k).product
  OBVIOUS
<1>1. /\ todo[k] # <<>> /\ UNCHANGED <<committed, order, todo, rows>>
      /\ read' = [read EXCEPT ![k] = View(k, q)]
      /\ staged' = IF LocksFirst(k) THEN [staged EXCEPT ![k][q] = View(k, q)] ELSE staged
  BY <1>0 DEF ReadItem
<1>2. /\ q \in Products /\ View(k, q) \in Int
      /\ staged \in [Clerks -> [Products -> Quantities]]
      /\ read \in [Clerks -> Int \cup {NoRead}]
  BY <1>0, <1>1, ItemAtHand, ViewType DEF Item, LedgerInv, QuantityTypes
<1>3. \A j \in Clerks \ {k} : read'[j] = read[j] /\ staged'[j] = staged[j]
  BY <1>1, <1>2
<1>4. RowsAreOfKind'
  BY <1>1 DEF SaleInv, RowsAreOfKind
<1>5. \A j \in Clerks \ {k} : SaleOK(j)'
  BY <1>1, <1>3, SaleKept DEF SaleInv, committed
<1>6. SaleOK(k)'
  <2> SUFFICES ASSUME Is(k, "sale") PROVE SaleOK(k)'
    BY <1>1 DEF SaleOK, Is, Idle
  <2>1. /\ staged'[k][q] = View(k, q) /\ read'[k] = View(k, q)
        /\ \A p \in Products \ {q} : staged'[k][p] = staged[k][p]
    BY <1>1, <1>2 DEF LocksFirst
  <2>2. \A p \in Products : View(k, p)' = View(k, p)
    BY <1>1, <1>2, <2>1 DEF View, committed
  <2>3. SaleOK(k) /\ AtHand(k)' = AtHand(k)
    BY <1>1 DEF SaleInv, AtHand
  <2> QED
    BY <1>0, <1>1, <2>1, <2>2, <2>3 DEF SaleOK, committed
<1> QED
  BY <1>4, <1>5, <1>6 DEF SaleInv

\* A sale writes the first row of the item at hand, from what it locked; the products
\* still to come are others.
LEMMA WriteItemSale ==
  ASSUME LedgerInv, HistoryInv, SaleInv, NEW k \in Clerks, WriteItem(k)
  PROVE  SaleInv'
<1>0. PICK q, after : q = AtHand(k).product /\ after = After(AtHand(k), read[k])
  OBVIOUS
<1>w. ItemWritten(k, q, after)
  BY <1>0, WriteItemEffect
<1>1. /\ Reading(k) /\ ~Idle(k) /\ q \in Products /\ read[k] \in Int /\ after \in Int
      /\ UNCHANGED <<stock, log, order, overtaken>>
      /\ todo' = [todo EXCEPT ![k] = Tail(@)] /\ todo[k] \in Seq(Item)
      /\ read' = [read EXCEPT ![k] = NoRead]
      /\ staged' = [staged EXCEPT ![k][q] = after]
      /\ \A j \in Clerks \ {k} : rows'[j] = rows[j]
      /\ \A p \in Products \ {q} : rows'[k][p] = rows[k][p]
      /\ \/ rows'[k][q] = Append(rows[k][q], LogRow(k, after)) /\ LogRow(k, after) \in Row
         \/ rows'[k][q] = rows[k][q] /\ after = read[k]
  BY <1>w DEF ItemWritten
<1>2. /\ staged \in [Clerks -> [Products -> Quantities]]
      /\ todo \in [Clerks -> Seq(Item)] /\ read \in [Clerks -> Int \cup {NoRead}]
      /\ rows \in [Clerks -> [Products -> Seq(Row)]]
  BY DEF LedgerInv, QuantityTypes, HistoryInv, RowTypes
<1>3. \A j \in Clerks \ {k} : todo'[j] = todo[j] /\ read'[j] = read[j] /\ staged'[j] = staged[j]
  BY <1>1, <1>2
<1>4. RowsAreOfKind'
  <2> SUFFICES ASSUME NEW j \in Clerks, NEW p \in Products, NEW i \in DOMAIN rows'[j][p]
               PROVE  rows'[j][p][i].kind = order[j].kind
    BY <1>1 DEF RowsAreOfKind
  <2>1. CASE rows'[j][p] = rows[j][p]
    BY <2>1 DEF SaleInv, RowsAreOfKind
  <2>2. CASE j = k /\ p = q /\ rows'[k][q] = Append(rows[k][q], LogRow(k, after))
    <3>1. \/ i \in DOMAIN rows[k][q] /\ rows'[k][q][i] = rows[k][q][i]
          \/ rows'[k][q][i] = LogRow(k, after)
      BY <1>1, <1>2, <2>2
    <3>2. LogRow(k, after).kind = order[k].kind
      BY DEF LogRow
    <3> QED
      BY <1>1, <2>2, <3>1, <3>2 DEF SaleInv, RowsAreOfKind
  <2> QED
    BY <1>1, <2>1, <2>2
<1>5. \A j \in Clerks \ {k} : SaleOK(j)'
  BY <1>1, <1>3, SaleKept DEF SaleInv
<1>6. SaleOK(k)'
  <2> SUFFICES ASSUME Is(k, "sale") PROVE SaleOK(k)'
    BY <1>1 DEF SaleOK, Is, Idle
  <2>1. SaleOK(k) /\ AtHand(k) = todo[k][1] /\ 1 \in DOMAIN todo[k] /\ todo[k] # <<>>
    BY <1>1 DEF SaleInv, AtHand, Reading
  <2>2. /\ rows[k][q] = <<>> /\ staged[k][q] = read[k] /\ View(k, q) = read[k]
    <3>1. staged[k][q] = read[k] /\ \A i \in DOMAIN todo[k] : rows[k][todo[k][i].product] = <<>>
      BY <1>0, <1>1, <2>1 DEF SaleOK
    <3>2. todo[k][1].product = q
      BY <1>0, <2>1
    <3>3. rows[k][q] = <<>>
      BY <2>1, <3>1, <3>2
    <3> QED
      BY <1>1, <3>1, <3>3 DEF View
  <2>3. /\ staged'[k][q] = after /\ \A p \in Products \ {q} : staged'[k][p] = staged[k][p]
        /\ todo'[k] = Tail(todo[k]) /\ ~Reading(k)'
    BY <1>1, <1>2 DEF Reading
  <2>4. View(k, q)' = after /\ \A p \in Products \ {q} : View(k, p)' = View(k, p)
    BY <1>1, <2>3 DEF View
  <2>5. Len(rows'[k][q]) <= 1 /\ Leads(rows'[k][q], stock[q], after)
    <3>1. Leads(rows[k][q], stock[q], read[k])
      BY <1>1, <2>1, <2>2 DEF SaleOK
    <3>2. CASE rows'[k][q] = rows[k][q] /\ after = read[k]
      BY <2>2, <3>1, <3>2
    <3>3. CASE rows'[k][q] = Append(rows[k][q], LogRow(k, after)) /\ LogRow(k, after) \in Row
      <4> DEFINE row == LogRow(k, after)
      <4>1. row \in Row /\ row.quantityBefore = read[k] /\ row.quantityAfter = after
        BY <3>3 DEF LogRow
      <4>2. rows'[k][q] = Append(rows[k][q], row) /\ rows[k][q] \in Seq(Row)
        BY <1>1, <1>2, <3>3
      <4> HIDE DEF row
      <4>3. Leads(Append(rows[k][q], row), stock[q], row.quantityAfter)
        BY <3>1, <4>1, <4>2, OneMoreRow
      <4>4. Len(Append(rows[k][q], row)) = 1
        BY <2>2
      <4> QED
        BY <4>1, <4>2, <4>3, <4>4
    <3> QED
      BY <1>1, <3>2, <3>3
  <2>6. \A p \in Products :
          Len(rows'[k][p]) <= 1 /\ Leads(rows'[k][p], stock[p], View(k, p)')
    <3>1. \A p \in Products : Len(rows[k][p]) <= 1 /\ Leads(rows[k][p], stock[p], View(k, p))
      BY <2>1 DEF SaleOK
    <3>2. \A p \in Products \ {q} : rows'[k][p] = rows[k][p]
      BY <1>1
    <3> QED
      BY <2>4, <2>5, <3>1, <3>2
  <2>7. \A i \in DOMAIN Tail(todo[k]) :
          i + 1 \in DOMAIN todo[k] /\ i + 1 # 1 /\ Tail(todo[k])[i] = todo[k][i + 1]
    BY <1>1, <2>1
  <2>8. /\ \A i, j \in DOMAIN Tail(todo[k]) :
             i # j => Tail(todo[k])[i].product # Tail(todo[k])[j].product
        /\ \A i \in DOMAIN Tail(todo[k]) :
             /\ Tail(todo[k])[i].product \in Products \ {q}
             /\ rows[k][Tail(todo[k])[i].product] = <<>>
    <3>1. \A i, j \in DOMAIN Tail(todo[k]) : i # j => i + 1 # j + 1
      BY <1>1
    <3>2. \A i \in DOMAIN todo[k] : todo[k][i].product \in Products
      <4>1. \A i \in DOMAIN todo[k] : todo[k][i] \in Item
        BY <1>1
      <4> QED
        BY <4>1 DEF Item
    <3> QED
      BY <1>0, <2>1, <2>7, <3>1, <3>2 DEF SaleOK
  <2>9. /\ todo'[k] = Tail(todo[k]) /\ stock' = stock
        /\ \A i \in DOMAIN Tail(todo[k]) : rows'[k][Tail(todo[k])[i].product] = <<>>
    BY <1>1, <2>3, <2>8
  <2> QED
    BY <2>3, <2>6, <2>8, <2>9 DEF SaleOK
<1> QED
  BY <1>4, <1>5, <1>6 DEF SaleInv

\* A request that ends is no sale any more.
LEMMA EndSale ==
  ASSUME LedgerInv, HistoryInv, SaleInv, NEW k \in Clerks, Forget(k),
         \A p \in Products : stock'[p] = stock[p] \/ stock'[p] = View(k, p)
  PROVE  SaleInv'
<1>1. /\ order'[k] = NoOrder /\ \A p \in Products : rows'[k][p] = <<>>
      /\ \A j \in Clerks \ {k} :
           /\ order'[j] = order[j] /\ todo'[j] = todo[j] /\ read'[j] = read[j]
           /\ staged'[j] = staged[j] /\ rows'[j] = rows[j]
  BY DEF Forget, LedgerInv, QuantityTypes, HistoryInv, RowTypes
<1>2. \A p \in Products : DOMAIN rows'[k][p] = {}
  BY <1>1
<1>3. RowsAreOfKind'
  BY <1>1, <1>2 DEF SaleInv, RowsAreOfKind
<1>4. \A j \in Clerks \ {k} : SaleOK(j)'
  BY <1>1, SaleKept DEF SaleInv
<1>5. SaleOK(k)'
  BY <1>1 DEF SaleOK, Is, Idle
<1> QED
  BY <1>3, <1>4, <1>5 DEF SaleInv

-----------------------------------------------------------------------------
RowsInv == LedgerInv /\ HistoryInv /\ SaleInv

LEMMA RowsInitInv == LedgerInit => RowsInv
<1> SUFFICES ASSUME LedgerInit PROVE RowsInv
  OBVIOUS
<1>1. HistoryInv
  BY NoRowsLead DEF LedgerInit, HistoryInv, RowTypes, HoldersApart, IdleHoldsNothing,
     RowsAreStaged, ReadIsCurrent, Reading, RowsLead, LogLeads, View
<1>2. \A k \in Clerks, p \in Products : DOMAIN rows[k][p] = {}
  BY DEF LedgerInit
<1>3. SaleInv
  BY <1>2 DEF LedgerInit, SaleInv, RowsAreOfKind, SaleOK, Is, Idle
<1> QED
  BY <1>1, <1>3, LedgerInitInv DEF RowsInv

\* Every step keeps the histories.
LEMMA RowsNextInv == RowsInv /\ [LedgerNext]_ledgerVars => RowsInv'
<1> SUFFICES ASSUME RowsInv, [LedgerNext]_ledgerVars PROVE RowsInv'
  OBVIOUS
<1>1. LedgerInv /\ HistoryInv /\ SaleInv /\ LedgerInv'
  BY LedgerNextInv DEF RowsInv
<1>2. ASSUME NEW k \in Clerks, NEW o \in Orders, Begin(k, o) PROVE HistoryInv' /\ SaleInv'
  BY <1>1, <1>2, BeginHistory, BeginSale
<1>3. ASSUME NEW k \in Clerks, ReadItem(k) PROVE HistoryInv' /\ SaleInv'
  BY <1>1, <1>3, ReadItemHistory, ReadItemSale
<1>4. ASSUME NEW k \in Clerks, WriteItem(k) PROVE HistoryInv' /\ SaleInv'
  BY <1>1, <1>4, WriteItemHistory, WriteItemSale
<1>5. ASSUME NEW k \in Clerks, Commit(k) PROVE HistoryInv' /\ SaleInv'
  <2>1. Forget(k) /\ \A p \in Products : stock'[p] = View(k, p)
    BY <1>5 DEF Commit
  <2> QED
    BY <1>1, <1>5, <2>1, CommitHistory, EndSale
<1>6. ASSUME NEW k \in Clerks, Rollback(k) PROVE HistoryInv' /\ SaleInv'
  <2>1. Forget(k) /\ stock' = stock
    BY <1>6 DEF Rollback, committed
  <2> QED
    BY <1>1, <1>6, <2>1, RollbackHistory, EndSale
<1>7. CASE UNCHANGED ledgerVars
  <2>1. HistoryInv'
    BY <1>1, <1>7 DEF ledgerVars, HistoryInv, RowTypes, HoldersApart, IdleHoldsNothing, Idle,
       RowsAreStaged, ReadIsCurrent, Reading, AtHand, RowsLead, LogLeads, View
  <2>2. SaleInv'
    BY <1>1, <1>7 DEF ledgerVars, SaleInv, RowsAreOfKind, SaleOK, Is, Idle, Reading, AtHand, View
  <2> QED
    BY <1>1, <2>1, <2>2 DEF RowsInv
<1> QED
  BY <1>1, <1>2, <1>3, <1>4, <1>5, <1>6, <1>7 DEF LedgerNext, LedgerStep, RowsInv

LEMMA RowsAlways == LedgerSpec => []RowsInv
  BY RowsInitInv, RowsNextInv, PTL DEF LedgerSpec

\* The log of a product that nobody wrote from an overtaken read is the history of its
\* quantity, although rows and quantities are committed by many requests at a time.
THEOREM LogsExplainUndrifted == LedgerSpec => []LogExplainsUndriftedStock
<1>1. RowsInv => LogExplainsUndriftedStock
  <2> SUFFICES ASSUME RowsInv, NEW p \in Products \ drifted
               PROVE  /\ \A i \in DOMAIN log[p] : log[p][i].quantityBefore = Before(p, i)
                      /\ stock[p] = Before(p, Len(log[p]) + 1)
    BY DEF LogExplainsUndriftedStock
  <2>1. log[p] \in Seq(Row) /\ Leads(log[p], InitialStock[p], stock[p])
    BY DEF RowsInv, HistoryInv, RowTypes, LogLeads
  <2>2. \A i \in DOMAIN log[p] : log[p][i].quantityBefore = Before(p, i)
    BY <2>1 DEF Leads, Before
  <2>3. CASE log[p] = <<>>
    BY <2>1, <2>3 DEF Leads, Before
  <2>4. CASE log[p] # <<>>
    <3>1. Len(log[p]) \in Nat /\ Len(log[p]) + 1 # 1 /\ Len(log[p]) + 1 - 1 = Len(log[p])
      BY <2>1, <2>4
    <3> QED
      BY <2>1, <2>2, <2>4, <3>1 DEF Leads, Before
  <2> QED
    BY <2>2, <2>3, <2>4
<1> QED
  BY RowsAlways, <1>1, PTL

\* A row of s \o t that is none of s is one of t.
LEMMA AddedRow ==
  ASSUME NEW s \in Seq(Row), NEW t \in Seq(Row), NEW i \in DOMAIN (s \o t) \ DOMAIN s
  PROVE  i - Len(s) \in DOMAIN t /\ (s \o t)[i] = t[i - Len(s)]
<1>1. /\ DOMAIN (s \o t) = 1 .. Len(s) + Len(t) /\ DOMAIN s = 1 .. Len(s)
      /\ DOMAIN t = 1 .. Len(t) /\ Len(s) \in Nat /\ Len(t) \in Nat
  OBVIOUS
<1>2. i \in 1 .. Len(s) + Len(t) /\ i \notin 1 .. Len(s)
  BY <1>1
<1> QED
  BY <1>1, <1>2

LEMMA OnlyRow ==
  ASSUME NEW t \in Seq(Row), NEW n \in DOMAIN t, Len(t) <= 1
  PROVE  n = 1 /\ Len(t) = 1 /\ t # <<>>
<1>1. n \in 1 .. Len(t) /\ Len(t) \in Nat
  OBVIOUS
<1>2. n = 1 /\ Len(t) = 1
  <2>1. \A l \in Nat : \A m \in 1 .. l : l <= 1 => m = 1 /\ l = 1
    OBVIOUS
  <2> QED
    BY <1>1, <2>1, Zenon
<1>3. t # <<>>
  <2>1. Len(<<>>) # 1
    OBVIOUS
  <2> QED
    BY <1>2, <2>1, Zenon
<1> QED
  BY <1>2, <1>3

\* The rows that a step adds to a log.
LEMMA NewSaleRows ==
  ASSUME RowsInv, [LedgerNext]_ledgerVars, NEW p \in Products,
         NEW i \in DOMAIN log'[p] \ DOMAIN log[p], log'[p][i].kind = "sale"
  PROVE  log'[p][i].quantityBefore = stock[p] /\ log'[p][i].quantityAfter = stock'[p]
<1>1. log'[p] # log[p]
  OBVIOUS
<1>2. PICK k \in Clerks : Commit(k)
  BY <1>1 DEF LedgerNext, LedgerStep, Begin, ReadItem, WriteItem, Rollback, committed, ledgerVars
<1>3. /\ log'[p] = log[p] \o rows[k][p] /\ stock'[p] = View(k, p) /\ ~Idle(k)
  BY <1>2 DEF Commit
<1>4. log[p] \in Seq(Row) /\ rows[k][p] \in Seq(Row)
  BY DEF RowsInv, HistoryInv, RowTypes
<1> DEFINE n == i - Len(log[p])
<1>5. n \in DOMAIN rows[k][p] /\ log'[p][i] = rows[k][p][n]
  <2>1. i \in DOMAIN (log[p] \o rows[k][p]) \ DOMAIN log[p]
    BY <1>3
  <2>2. i - Len(log[p]) \in DOMAIN rows[k][p] /\ (log[p] \o rows[k][p])[i] = rows[k][p][n]
    BY <1>4, <2>1, AddedRow
  <2> QED
    BY <1>3, <2>2
<1> HIDE DEF n
<1>6. Is(k, "sale")
  BY <1>3, <1>5 DEF RowsInv, SaleInv, RowsAreOfKind, Is
<1>7. Len(rows[k][p]) <= 1 /\ Leads(rows[k][p], stock[p], View(k, p))
  BY <1>6 DEF RowsInv, SaleInv, SaleOK
<1>8. n = 1 /\ Len(rows[k][p]) = 1 /\ rows[k][p] # <<>>
  BY <1>4, <1>5, <1>7, OnlyRow
<1> QED
  BY <1>3, <1>5, <1>7, <1>8 DEF Leads

\* What the row of a sale says is what the sale did to the quantity on hand: a sale
\* cannot be overtaken, and it sells a product once.
THEOREM SaleRowsAreTrue == LedgerSpec => SaleRowsTrue
<1>1. RowsInv /\ [LedgerNext]_ledgerVars =>
        [\A p \in Products : \A i \in DOMAIN log'[p] \ DOMAIN log[p] :
           log'[p][i].kind = "sale" =>
             /\ log'[p][i].quantityBefore = stock[p]
             /\ log'[p][i].quantityAfter = stock'[p]]_ledgerVars
  BY NewSaleRows
<1> QED
  BY RowsAlways, <1>1, PTL DEF LedgerSpec, SaleRowsTrue
=============================================================================

---------------------------- MODULE VendorOrders -----------------------------
(***************************************************************************)
(* The life of one vendor order: generateOrders, updateOrder, sendOrder    *)
(* and receiveOrder, with clerks who work on the order at the same time.   *)
(*                                                                         *)
(* Every request reads the order before any transaction of its own and     *)
(* judges by what it read.  Receiving then takes two transactions: one     *)
(* creates a posted purchase for what is new, the other records the        *)
(* quantities in the order.  A server may fail between the two.            *)
(***************************************************************************)
EXTENDS Integers, FiniteSets

CONSTANTS
  Clerks,      \* each has at most one request in flight
  Items,       \* the lines that were ordered
  Suggested,   \* bound: the cases of each line that an order is generated with
  Asked,       \* bound: the quantities of some lines that requests name
  NewStatuses, \* bound: the statuses an update asks for
  MaxVersion,  \* bound: the commits to the order
  MaxBought,   \* bound: the purchases booked for the order
  NoRequest,   \* the clerk has no request in flight
  Keep         \* the status is left out of an update

VARIABLES
  status,    \* VendorOrder.status
  ordered,   \* quantityOrdered of the lines that were not removed
  received,  \* quantityReceived of the same lines
  bought,    \* cases of each line in posted purchases, ever
  version,   \* commits to the order so far
  request,   \* what each clerk asked for
  pc,        \* the statement the request comes to
  seen,      \* the order as the request read it, and at which version
  held,      \* the lines whose rows its transaction wrote
  purchases, \* purchases booked for the order so far
  raced,     \* a request wrote to an order that changed since it read it
  unrecorded \* a purchase was booked and its request failed afterwards

orderVars == <<status, ordered, received, version>>
vendorVars ==
  <<status, ordered, received, bought, version, request, pc, seen, held, purchases,
    raced, unrecorded>>

Status == {"NONE", "DRAFT", "READY", "SENT", "PARTIALLY_RECEIVED", "RECEIVED", "CANCELLED"}

ASSUME VendorOrdersAssumption ==
  /\ IsFiniteSet(Items)
  /\ Suggested \subseteq [Items -> Nat \ {0}]
  /\ \A q \in Asked : DOMAIN q \subseteq Items /\ q \in [DOMAIN q -> Nat]
  /\ MaxVersion \in Nat
  /\ MaxBought \in Nat
  /\ Keep \notin Status
  \* "Use the Send action to send an order"
  /\ NewStatuses \subseteq (Status \ {"NONE", "SENT"}) \cup {Keep}

Lines == DOMAIN ordered
At(k, label) == pc[k] = label
Goto(k, label) == pc' = [pc EXCEPT ![k] = label]

Forget(k) ==
  /\ request' = [request EXCEPT ![k] = NoRequest]
  /\ seen' = [seen EXCEPT ![k] = NoRequest]
  /\ held' = [held EXCEPT ![k] = {}]
  /\ Goto(k, "idle")

\* Between booking the purchase and recording it.
Unrecorded(k) == pc[k] \in {"record", "recorded", "counted"}

Overtaken(k) == seen[k].version # version

-----------------------------------------------------------------------------
(* Requests *)

\* One transaction; the quantities are whole cases, at least one: they come from
\* the stock, the sales of the last days and the vendor's terms.
GenerateOrder(cases) ==
  /\ status = "NONE"
  /\ status' = "DRAFT"
  /\ ordered' = cases
  /\ received' = [i \in DOMAIN cases |-> 0]
  /\ UNCHANGED <<bought, version, request, pc, seen, held, purchases, raced, unrecorded>>

Submit(k, r) ==
  /\ At(k, "idle")
  /\ status # "NONE"
  /\ request' = [request EXCEPT ![k] = r]
  /\ Goto(k, "row")
  /\ UNCHANGED <<orderVars, bought, seen, held, purchases, raced, unrecorded>>

\* Change the status, the quantities of some lines and remove others.
AskUpdate(k) ==
  \E newStatus \in NewStatuses, quantities \in Asked :
    Submit(k, [kind |-> "update", status |-> newStatus, quantities |-> quantities])

AskSend(k) == Submit(k, [kind |-> "send"])

\* The quantities received so far, of some lines.
AskReceive(k) ==
  \E quantities \in Asked :
    Submit(k, [kind |-> "receive", quantities |-> quantities])

\* findOrderOrThrow: the row ...
ReadRow(k) ==
  /\ At(k, "row")
  /\ seen' = [seen EXCEPT ![k] = [status |-> status, version |-> version]]
  /\ Goto(k, "lines")
  /\ UNCHANGED <<orderVars, bought, request, held, purchases, raced, unrecorded>>

\* ... and, in a statement of its own, the lines; it has not counted any yet.
ReadLines(k) ==
  /\ At(k, "lines")
  /\ seen' = [seen EXCEPT ![k] = [status |-> @.status, version |-> @.version,
                                 ordered |-> ordered, received |-> received,
                                 allReceived |-> FALSE]]
  /\ Goto(k, request[k].kind)
  /\ UNCHANGED <<orderVars, bought, request, held, purchases, raced, unrecorded>>

\* An error answer, a failing transaction, a timeout or a lost server.
Fail(k) ==
  /\ ~At(k, "idle")
  /\ Forget(k)
  /\ unrecorded' = (unrecorded \/ Unrecorded(k))
  /\ UNCHANGED <<orderVars, bought, purchases, raced>>

\* Mutant: received orders may be edited.
ClosedWhenCancelled(k) == seen[k].status = "CANCELLED"

\* "Received or cancelled orders cannot be edited", "cannot receive more items"
Closed(k) == seen[k].status \in {"RECEIVED", "CANCELLED"}

-----------------------------------------------------------------------------
(* Transactions on the order *)

\* UPDATE or DELETE of the rows of some lines; one that is gone fails the request.
WriteLines(k, lines) ==
  /\ lines \subseteq Lines
  /\ \A j \in Clerks \ {k} : held[j] \cap lines = {}
  /\ held' = [held EXCEPT ![k] = lines]

\* quantityReceived of a line once the request is recorded: what was asked for.
Recorded(k, i) ==
  IF i \in DOMAIN request[k].quantities THEN request[k].quantities[i] ELSE received[i]

\* The transaction commits: the lines it wrote, and the status.
CommitOrder(k, newOrdered, newReceived, newStatus) ==
  /\ version < MaxVersion
  /\ version' = version + 1
  /\ ordered' = newOrdered
  /\ received' = newReceived
  /\ status' = newStatus
  /\ raced' = (raced \/ Overtaken(k))
  /\ Forget(k)

UpdateLines(k) ==
  /\ At(k, "update")
  /\ ~Closed(k)
  /\ DOMAIN request[k].quantities \subseteq DOMAIN seen[k].ordered
  /\ WriteLines(k, DOMAIN request[k].quantities)
  /\ Goto(k, "updated")
  /\ UNCHANGED <<orderVars, bought, request, seen, purchases, raced, unrecorded>>

\* The lines the update does not remove.
KeptLines(k) ==
  {i \in Lines : i \in DOMAIN request[k].quantities => request[k].quantities[i] # 0}

UpdateOrder(k) ==
  /\ At(k, "updated")
  /\ LET q == request[k].quantities
         kept == KeptLines(k)
     IN CommitOrder(k,
          [i \in kept |-> IF i \in DOMAIN q THEN q[i] ELSE ordered[i]],
          [i \in kept |-> received[i]],
          IF request[k].status = Keep THEN status ELSE request[k].status)
  /\ UNCHANGED <<bought, purchases, unrecorded>>

SendOrder(k) ==
  /\ At(k, "send")
  /\ seen[k].status \in {"DRAFT", "READY"}
  /\ CommitOrder(k, ordered, received, "SENT")
  /\ UNCHANGED <<bought, purchases, unrecorded>>

\* Mutant: what is still to come is bought, not what came.
StillToCome(k, i) == seen[k].ordered[i] - request[k].quantities[i]

\* Mutant: all that was received is bought, not what is new.
BuyAll(k, i) == request[k].quantities[i]

NewCases(k, i) == request[k].quantities[i] - seen[k].received[i]

Receivable(k) ==
  LET q == request[k].quantities IN
  /\ ~Closed(k)
  /\ DOMAIN q \subseteq DOMAIN seen[k].ordered
  /\ \A i \in DOMAIN q : q[i] \in seen[k].received[i] .. seen[k].ordered[i]
  /\ \E i \in DOMAIN q : q[i] > seen[k].received[i]

\* createStorePurchase: its own transaction, status OPEN, so it is posted.
BuyReceived(k) ==
  /\ At(k, "receive")
  /\ Receivable(k)
  /\ purchases < MaxBought
  /\ purchases' = purchases + 1
  /\ bought' = [i \in Items |->
                  IF i \in DOMAIN request[k].quantities THEN bought[i] + NewCases(k, i)
                                                        ELSE bought[i]]
  /\ Goto(k, "record")
  /\ UNCHANGED <<orderVars, request, seen, held, raced, unrecorded>>

\* The second transaction: the lines, a look at all lines, the order.
RecordLines(k) ==
  /\ At(k, "record")
  /\ WriteLines(k, DOMAIN request[k].quantities)
  /\ Goto(k, "recorded")
  /\ UNCHANGED <<orderVars, bought, request, seen, purchases, raced, unrecorded>>

\* Mutant: some line was received completely.
SomeReceived(quantities) == \E i \in Lines : quantities[i] >= ordered[i]

AllReceived(quantities) == \A i \in Lines : quantities[i] >= ordered[i]

FreshLines(k) ==
  /\ At(k, "recorded")
  /\ seen' = [seen EXCEPT ![k].allReceived = AllReceived([i \in Lines |-> Recorded(k, i)])]
  /\ Goto(k, "counted")
  /\ UNCHANGED <<orderVars, bought, request, held, purchases, raced, unrecorded>>

RecordOrder(k) ==
  /\ At(k, "counted")
  /\ CommitOrder(k, ordered, [i \in Lines |-> Recorded(k, i)],
       IF seen[k].allReceived THEN "RECEIVED" ELSE "PARTIALLY_RECEIVED")
  /\ UNCHANGED <<bought, purchases, unrecorded>>

-----------------------------------------------------------------------------
VendorInit ==
  /\ status = "NONE"
  /\ ordered = [i \in {} |-> 0]
  /\ received = [i \in {} |-> 0]
  /\ bought = [i \in Items |-> 0]
  /\ version = 0
  /\ request = [k \in Clerks |-> NoRequest]
  /\ pc = [k \in Clerks |-> "idle"]
  /\ seen = [k \in Clerks |-> NoRequest]
  /\ held = [k \in Clerks |-> {}]
  /\ purchases = 0
  /\ raced = FALSE
  /\ unrecorded = FALSE

Work(k) ==
  \/ AskUpdate(k) \/ AskSend(k) \/ AskReceive(k)
  \/ ReadRow(k) \/ ReadLines(k) \/ Fail(k)
  \/ UpdateLines(k) \/ UpdateOrder(k) \/ SendOrder(k)
  \/ BuyReceived(k) \/ RecordLines(k) \/ FreshLines(k) \/ RecordOrder(k)

VendorNext ==
  \/ \E cases \in Suggested : GenerateOrder(cases)
  \/ \E k \in Clerks : Work(k)

VendorSpec == VendorInit /\ [][VendorNext]_vendorVars

-----------------------------------------------------------------------------
(* Properties *)

\* The rows of the order are well formed.
VendorTypeOK ==
  /\ status \in Status
  /\ Lines \subseteq Items
  /\ ordered \in [Lines -> Nat \ {0}]
  /\ received \in [Lines -> Nat]
  /\ bought \in [Items -> Nat]
  /\ \A k \in Clerks : held[k] \subseteq Items

\* Whoever overtakes whom, and wherever a request fails, an order never claims
\* more than purchases were booked for.
ReceivedWasBought == \A i \in Lines : received[i] <= bought[i]

\* Unless requests overtook each other, or one failed between its two transactions,
\* the order and its purchases agree on every line that no request is about to
\* record: what was received was booked, and booked once.
BoughtIsReceived ==
  ~raced /\ ~unrecorded =>
    \A i \in Lines :
      \/ \E k \in Clerks : Unrecorded(k) /\ i \in DOMAIN request[k].quantities
      \/ bought[i] = received[i]

Commits(k) == UpdateOrder(k) \/ SendOrder(k) \/ RecordOrder(k)

\* A received or cancelled order is touched by nobody but a request that had read it
\* before it was closed, whatever others did before that.
ClosedOrderKept ==
  [][(status \in {"RECEIVED", "CANCELLED"}) =>
       \/ UNCHANGED orderVars
       \/ \E k \in Clerks :
            Commits(k) /\ seen[k].status \notin {"RECEIVED", "CANCELLED"}]_vendorVars

\* Receiving closes an order that still misses something only if another request committed
\* since this one read the order; what was overtaken earlier is no excuse.
ReceivedIsComplete ==
  [][\A k \in Clerks : RecordOrder(k) /\ status' = "RECEIVED" =>
       Overtaken(k) \/ \A i \in Lines' : received'[i] >= ordered'[i]]_vendorVars

\* "quantityReceived cannot exceed ordered quantity": what is booked for a line
\* stays within what is ordered when it is booked.
BoughtWithinOrder ==
  [][\A k \in Clerks : BuyReceived(k) =>
       \A i \in DOMAIN request[k].quantities \cap Lines :
         bought'[i] > bought[i] => bought'[i] <= ordered[i]]_vendorVars
=============================================================================

------------------------- MODULE VendorOrders_proofs -------------------------
(***************************************************************************)
(* What clerks who work on one vendor order at the same time may rely on,  *)
(* for any number of clerks, lines and quantities: an order never claims   *)
(* more than was bought, and as long as nobody wrote from an order that    *)
(* had changed since, a closed order stays as it is, is complete, and      *)
(* agrees with the purchases that were booked for it.                      *)
(***************************************************************************)
EXTENDS VendorOrders, TLAPS

USE VendorOrdersAssumption

Labels ==
  {"idle", "row", "lines", "update", "updated", "send", "receive", "record", "recorded",
   "counted"}

\* The request has read the row of the order and its lines.
HasRead(k) == pc[k] \notin {"idle", "row", "lines"}

Judged(k) == pc[k] \in {"updated", "record", "recorded", "counted"}

\* The rows of the order and what the clerks keep.
OrderTypes ==
  /\ status \in Status
  /\ Lines \subseteq Items
  /\ ordered \in [Lines -> Nat \ {0}]
  /\ received \in [Lines -> Nat]
  /\ bought \in [Items -> Nat]
  /\ version \in Nat
  /\ pc \in [Clerks -> Labels]
  /\ request = [k \in Clerks |-> request[k]]
  /\ seen = [k \in Clerks |-> seen[k]]
  /\ held \in [Clerks -> SUBSET Items]
  /\ raced \in BOOLEAN
  /\ unrecorded \in BOOLEAN

\* Before the order exists nothing was bought for it and nobody works on it.
NothingYet ==
  status = "NONE" =>
    /\ \A i \in Items : bought[i] = 0
    /\ \A k \in Clerks : pc[k] = "idle"

\* The request is one a clerk may make, and its statement one of its kind.
RequestOK(k) ==
  pc[k] # "idle" =>
    /\ request[k].kind \in {"update", "send", "receive"}
    /\ request[k].kind = "update" => request[k].status \in NewStatuses
    /\ request[k].kind \in {"update", "receive"} => request[k].quantities \in Asked
    /\ pc[k] \in {"update", "updated"} => request[k].kind = "update"
    /\ pc[k] \in {"receive", "record", "recorded", "counted"} => request[k].kind = "receive"

\* The request knows the row as it was at some commit, and as it is if that was the
\* last one.
RowOK(k) ==
  pc[k] \notin {"idle", "row"} =>
    /\ seen[k].version \in 0 .. version
    /\ seen[k].version = version => seen[k].status = status

\* The same of the lines, which it read later; none had received more than was bought.
LinesOK(k) ==
  HasRead(k) =>
    /\ DOMAIN seen[k] = {"status", "version", "ordered", "received", "allReceived"}
    /\ DOMAIN seen[k].ordered \subseteq Items
    /\ seen[k].received \in [DOMAIN seen[k].ordered -> Nat]
    /\ \A i \in DOMAIN seen[k].ordered : seen[k].received[i] <= bought[i]
    /\ seen[k].version = version => seen[k].ordered = ordered /\ seen[k].received = received

\* What the request is about to record was bought.
BoughtOK(k) ==
  Unrecorded(k) => \A i \in DOMAIN request[k].quantities : request[k].quantities[i] <= bought[i]

\* The order was open when the request read it.
JudgedOK(k) == Judged(k) => ~Closed(k)

\* Unless the order has changed, its lines are complete if they were counted so.
CountedOK(k) ==
  At(k, "counted") /\ ~Overtaken(k) /\ seen[k].allReceived =>
    \A i \in Lines : Recorded(k, i) >= ordered[i]

ClerkInv(k) ==
  RequestOK(k) /\ RowOK(k) /\ LinesOK(k) /\ BoughtOK(k) /\ JudgedOK(k) /\ CountedOK(k)

VendorInv ==
  OrderTypes /\ NothingYet /\ ReceivedWasBought /\ \A k \in Clerks : ClerkInv(k)

-----------------------------------------------------------------------------
(* Operators *)

\* The quantities a request names are of lines that may be ordered.
LEMMA AskedType ==
  ASSUME NEW q \in Asked
  PROVE  DOMAIN q \subseteq Items /\ \A i \in DOMAIN q : q[i] \in Nat
  OBVIOUS

\* A step of somebody else that commits the order anew or leaves it alone, and takes
\* back no purchase, leaves a clerk's invariant.
LEMMA OthersKept ==
  ASSUME VendorInv, NEW j \in Clerks,
         pc'[j] = pc[j], request'[j] = request[j], seen'[j] = seen[j],
         UNCHANGED orderVars \/ version' = version + 1,
         bought' \in [Items -> Nat], \A i \in Items : bought[i] <= bought'[i]
  PROVE  ClerkInv(j)'
<1>0. OrderTypes /\ ClerkInv(j)
  BY DEF VendorInv
<1>1. RequestOK(j)'
  BY <1>0 DEF ClerkInv, RequestOK
<1>2. RowOK(j)'
  BY <1>0 DEF ClerkInv, RowOK, OrderTypes, orderVars
<1>3. LinesOK(j)'
  <2> SUFFICES ASSUME HasRead(j)' PROVE LinesOK(j)'
    BY DEF LinesOK
  <2>1. HasRead(j) /\ LinesOK(j) /\ RowOK(j)
    BY <1>0 DEF ClerkInv, HasRead
  <2>2. \A i \in DOMAIN seen[j].ordered :
          i \in Items /\ seen[j].received[i] \in Nat /\ seen[j].received[i] <= bought[i]
    BY <2>1 DEF LinesOK
  <2>3. \A i \in DOMAIN seen[j].ordered : seen[j].received[i] <= bought'[i]
    BY <1>0, <2>2 DEF OrderTypes
  <2>4. seen[j].version = version' => version' = version /\ UNCHANGED orderVars
    BY <1>0, <2>1 DEF RowOK, HasRead, OrderTypes, orderVars
  <2> QED
    BY <2>1, <2>3, <2>4 DEF LinesOK, orderVars
<1>4. BoughtOK(j)'
  <2> SUFFICES ASSUME Unrecorded(j)', NEW i \in DOMAIN request[j].quantities
               PROVE  request[j].quantities[i] <= bought'[i]
    BY DEF BoughtOK
  <2>1. request[j].quantities[i] <= bought[i] /\ request[j].quantities \in Asked
    BY <1>0 DEF ClerkInv, BoughtOK, Unrecorded, RequestOK
  <2>2. i \in Items /\ request[j].quantities[i] \in Nat
    BY <2>1, AskedType
  <2> QED
    BY <1>0, <2>1, <2>2 DEF OrderTypes
<1>5. JudgedOK(j)'
  BY <1>0 DEF ClerkInv, JudgedOK, Judged, Closed
<1>6. CountedOK(j)'
  <2> SUFFICES ASSUME At(j, "counted")', ~Overtaken(j)', seen[j].allReceived
               PROVE  \A i \in Lines' : Recorded(j, i)' >= ordered'[i]
    BY DEF CountedOK
  <2>1. UNCHANGED orderVars
    BY <1>0 DEF ClerkInv, RowOK, OrderTypes, orderVars, Overtaken, At
  <2> QED
    BY <1>0, <2>1 DEF ClerkInv, CountedOK, At, Overtaken, orderVars, Recorded, Lines
<1> QED
  BY <1>1, <1>2, <1>3, <1>4, <1>5, <1>6 DEF ClerkInv

\* A clerk without a request has nothing to keep.
LEMMA IdleClerk ==
  ASSUME NEW k, pc[k] = "idle"
  PROVE  ClerkInv(k)
  BY DEF ClerkInv, RequestOK, RowOK, LinesOK, HasRead, BoughtOK, Unrecorded, JudgedOK,
         Judged, CountedOK, At

-----------------------------------------------------------------------------
(* One step at a time *)

\* At the start there is no order.
LEMMA VendorInitInv == VendorInit => VendorInv
<1> SUFFICES ASSUME VendorInit PROVE VendorInv
  OBVIOUS
<1>1. OrderTypes /\ NothingYet /\ ReceivedWasBought
  BY DEF VendorInit, OrderTypes, Status, Lines, Labels, NothingYet, ReceivedWasBought
<1>2. \A k \in Clerks : pc[k] = "idle"
  BY DEF VendorInit
<1> QED
  BY <1>1, <1>2, IdleClerk DEF VendorInv

\* A step of clerk k that leaves the order and its purchases alone.
LEMMA OrderLeftAlone ==
  ASSUME VendorInv, NEW k \in Clerks,
         status # "NONE", UNCHANGED <<orderVars, bought>>,
         pc' \in [Clerks -> Labels], request' = [j \in Clerks |-> request'[j]],
         seen' = [j \in Clerks |-> seen'[j]], held' \in [Clerks -> SUBSET Items],
         raced' \in BOOLEAN, unrecorded' \in BOOLEAN,
         \A j \in Clerks \ {k} :
           pc'[j] = pc[j] /\ request'[j] = request[j] /\ seen'[j] = seen[j],
         ClerkInv(k)'
  PROVE  VendorInv'
<1>1. OrderTypes' /\ NothingYet' /\ ReceivedWasBought'
  BY DEF VendorInv, OrderTypes, NothingYet, ReceivedWasBought, orderVars, Lines
<1>2. bought' \in [Items -> Nat] /\ \A i \in Items : bought[i] <= bought'[i]
  BY DEF VendorInv, OrderTypes
<1>3. \A j \in Clerks \ {k} : ClerkInv(j)'
  BY <1>2, OthersKept
<1> QED
  BY <1>1, <1>3 DEF VendorInv

\* Who works on the order works on one that exists.
LEMMA OrderExists ==
  ASSUME VendorInv, NEW k \in Clerks, pc[k] # "idle"
  PROVE  status # "NONE"
  BY DEF VendorInv, NothingYet

\* A new order has nothing received, and nobody works on it yet.
LEMMA GenerateOrderInv ==
  ASSUME VendorInv, NEW cases \in Suggested, GenerateOrder(cases)
  PROVE  VendorInv'
<1>1. /\ status = "NONE" /\ status' = "DRAFT" /\ ordered' = cases
      /\ received' = [i \in DOMAIN cases |-> 0]
      /\ UNCHANGED <<bought, version, request, pc, seen, held, purchases, raced, unrecorded>>
  BY DEF GenerateOrder
<1>2. cases \in [Items -> Nat \ {0}]
  OBVIOUS
<1>3. OrderTypes' /\ ReceivedWasBought' /\ NothingYet'
  BY <1>1, <1>2 DEF VendorInv, OrderTypes, Lines, Status, ReceivedWasBought, NothingYet
<1>4. \A k \in Clerks : pc'[k] = "idle"
  BY <1>1 DEF VendorInv, NothingYet
<1> QED
  BY <1>3, <1>4, IdleClerk DEF VendorInv, ClerkInv, RequestOK, RowOK, LinesOK, HasRead,
     BoughtOK, Unrecorded, JudgedOK, Judged, CountedOK, At

\* A request, of whatever kind, reads the row next.
LEMMA SubmitInv ==
  ASSUME VendorInv, NEW k \in Clerks, NEW r, Submit(k, r),
         r.kind \in {"update", "send", "receive"},
         r.kind = "update" => r.status \in NewStatuses,
         r.kind \in {"update", "receive"} => r.quantities \in Asked
  PROVE  VendorInv'
<1>1. /\ status # "NONE"
      /\ request' = [request EXCEPT ![k] = r]
      /\ pc' = [pc EXCEPT ![k] = "row"]
      /\ UNCHANGED <<orderVars, bought, seen, held, purchases, raced, unrecorded>>
  BY DEF Submit, Goto
<1>2. OrderTypes
  BY DEF VendorInv
<1>3. pc'[k] = "row" /\ request'[k] = r
  BY <1>1, <1>2 DEF OrderTypes
<1>4. ClerkInv(k)'
  BY <1>3 DEF ClerkInv, RequestOK, RowOK, LinesOK, HasRead, BoughtOK, Unrecorded,
              JudgedOK, Judged, CountedOK, At
<1>5. /\ pc' \in [Clerks -> Labels] /\ request' = [j \in Clerks |-> request'[j]]
      /\ \A j \in Clerks \ {k} : pc'[j] = pc[j] /\ request'[j] = request[j]
  BY <1>1, <1>2 DEF OrderTypes, Labels
<1> HIDE DEF ClerkInv
<1> QED
  BY <1>1, <1>2, <1>4, <1>5, OrderLeftAlone DEF OrderTypes

\* Every request a clerk makes is of one of the three kinds.
LEMMA AskInv ==
  ASSUME VendorInv, NEW k \in Clerks, AskUpdate(k) \/ AskSend(k) \/ AskReceive(k)
  PROVE  VendorInv'
<1>1. CASE AskUpdate(k)
  <2> PICK s \in NewStatuses, q \in Asked :
        Submit(k, [kind |-> "update", status |-> s, quantities |-> q])
    BY <1>1 DEF AskUpdate
  <2> QED
    BY SubmitInv
<1>2. CASE AskSend(k)
  <2>1. Submit(k, [kind |-> "send"])
    BY <1>2 DEF AskSend
  <2> QED
    BY <2>1, SubmitInv
<1>3. CASE AskReceive(k)
  <2> PICK q \in Asked : Submit(k, [kind |-> "receive", quantities |-> q])
    BY <1>3 DEF AskReceive
  <2> QED
    BY SubmitInv
<1> QED
  BY <1>1, <1>2, <1>3

\* The row that is read is the row as it is.
LEMMA ReadRowInv ==
  ASSUME VendorInv, NEW k \in Clerks, ReadRow(k)
  PROVE  VendorInv'
<1>1. /\ pc[k] = "row"
      /\ seen' = [seen EXCEPT ![k] = [status |-> status, version |-> version]]
      /\ pc' = [pc EXCEPT ![k] = "lines"]
      /\ UNCHANGED <<orderVars, bought, request, held, purchases, raced, unrecorded>>
  BY DEF ReadRow, At, Goto
<1>2. OrderTypes /\ RequestOK(k) /\ status # "NONE"
  BY <1>1, OrderExists DEF VendorInv, ClerkInv
<1>3. pc'[k] = "lines" /\ seen'[k] = [status |-> status, version |-> version]
  BY <1>1, <1>2 DEF OrderTypes
<1>4. RequestOK(k)' /\ RowOK(k)'
  BY <1>1, <1>2, <1>3 DEF RequestOK, RowOK, OrderTypes, orderVars
<1>5. ClerkInv(k)'
  BY <1>3, <1>4 DEF ClerkInv, LinesOK, HasRead, BoughtOK, Unrecorded, JudgedOK, Judged,
                    CountedOK, At
<1>6. /\ pc' \in [Clerks -> Labels] /\ seen' = [j \in Clerks |-> seen'[j]]
      /\ \A j \in Clerks \ {k} : pc'[j] = pc[j] /\ seen'[j] = seen[j]
  BY <1>1, <1>2 DEF OrderTypes, Labels
<1> HIDE DEF ClerkInv
<1> QED
  BY <1>1, <1>2, <1>5, <1>6, OrderLeftAlone DEF OrderTypes

\* So are the lines; if the row was current, it still is.
LEMMA ReadLinesInv ==
  ASSUME VendorInv, NEW k \in Clerks, ReadLines(k)
  PROVE  VendorInv'
<1> DEFINE now == [status |-> seen[k].status, version |-> seen[k].version,
                   ordered |-> ordered, received |-> received, allReceived |-> FALSE]
<1>1. /\ pc[k] = "lines"
      /\ seen' = [seen EXCEPT ![k] = now]
      /\ pc' = [pc EXCEPT ![k] = request[k].kind]
      /\ UNCHANGED <<orderVars, bought, request, held, purchases, raced, unrecorded>>
  BY DEF ReadLines, At, Goto
<1>2. /\ OrderTypes /\ ReceivedWasBought /\ RequestOK(k) /\ RowOK(k)
      /\ status # "NONE"
  BY <1>1, OrderExists DEF VendorInv, ClerkInv
<1>3. pc'[k] = request[k].kind /\ pc'[k] \in {"update", "send", "receive"} /\ seen'[k] = now
  BY <1>1, <1>2 DEF OrderTypes, RequestOK
<1>4. RequestOK(k)' /\ RowOK(k)'
  BY <1>1, <1>2, <1>3 DEF RequestOK, RowOK, orderVars
<1>5. LinesOK(k)'
  BY <1>1, <1>2, <1>3 DEF LinesOK, OrderTypes, ReceivedWasBought, Lines, orderVars
<1>6. ClerkInv(k)'
  BY <1>3, <1>4, <1>5 DEF ClerkInv, BoughtOK, Unrecorded, JudgedOK, Judged, CountedOK, At
<1>7. /\ pc' \in [Clerks -> Labels] /\ seen' = [j \in Clerks |-> seen'[j]]
      /\ \A j \in Clerks \ {k} : pc'[j] = pc[j] /\ seen'[j] = seen[j]
  BY <1>1, <1>2, <1>3 DEF OrderTypes, Labels
<1> HIDE DEF ClerkInv
<1> QED
  BY <1>1, <1>2, <1>6, <1>7, OrderLeftAlone DEF OrderTypes

\* What a request that ends forgets.
LEMMA Forgotten ==
  ASSUME OrderTypes, NEW k \in Clerks, Forget(k)
  PROVE  /\ pc' \in [Clerks -> Labels] /\ pc'[k] = "idle"
         /\ request' = [j \in Clerks |-> request'[j]]
         /\ seen' = [j \in Clerks |-> seen'[j]]
         /\ held' \in [Clerks -> SUBSET Items]
         /\ \A j \in Clerks \ {k} :
              pc'[j] = pc[j] /\ request'[j] = request[j] /\ seen'[j] = seen[j]
  BY DEF OrderTypes, Forget, Goto, Labels

\* A request that fails leaves the order as it is.
LEMMA FailInv ==
  ASSUME VendorInv, NEW k \in Clerks, Fail(k)
  PROVE  VendorInv'
<1>1. /\ pc[k] # "idle" /\ Forget(k)
      /\ unrecorded' = (unrecorded \/ Unrecorded(k))
      /\ UNCHANGED <<orderVars, bought, purchases, raced>>
  BY DEF Fail, At
<1>2. OrderTypes /\ status # "NONE"
  BY <1>1, OrderExists DEF VendorInv
<1>3. pc'[k] = "idle"
  BY <1>1, <1>2, Forgotten
<1>4. ClerkInv(k)'
  BY <1>3 DEF ClerkInv, RequestOK, RowOK, LinesOK, HasRead, BoughtOK, Unrecorded,
              JudgedOK, Judged, CountedOK, At
<1>5. raced' \in BOOLEAN /\ unrecorded' \in BOOLEAN
  BY <1>1, <1>2 DEF OrderTypes, Unrecorded
<1> HIDE DEF ClerkInv
<1> QED
  BY <1>1, <1>2, <1>4, <1>5, Forgotten, OrderLeftAlone

-----------------------------------------------------------------------------
(* The transactions *)

\* Writing lines locks their rows and changes nothing that others see.
LEMMA WritesLines ==
  ASSUME VendorInv, NEW k \in Clerks, NEW label \in {"updated", "recorded"},
         pc[k] # "idle", request[k].quantities \in Asked,
         WriteLines(k, DOMAIN request[k].quantities), Goto(k, label),
         UNCHANGED <<orderVars, bought, request, seen, purchases, raced, unrecorded>>,
         ClerkInv(k)'
  PROVE  VendorInv'
<1>1. /\ held' = [held EXCEPT ![k] = DOMAIN request[k].quantities]
      /\ pc' = [pc EXCEPT ![k] = label]
  BY DEF WriteLines, Goto
<1>2. OrderTypes /\ status # "NONE"
  BY OrderExists DEF VendorInv
<1>3. DOMAIN request[k].quantities \subseteq Items
  BY AskedType
<1>4. /\ pc' \in [Clerks -> Labels] /\ held' \in [Clerks -> SUBSET Items]
      /\ \A j \in Clerks \ {k} : pc'[j] = pc[j]
  BY <1>1, <1>2, <1>3 DEF OrderTypes, Labels
<1> HIDE DEF ClerkInv
<1> QED
  BY <1>2, <1>4, OrderLeftAlone DEF OrderTypes

\* An update writes its lines if the order was open.
LEMMA UpdateLinesInv ==
  ASSUME VendorInv, NEW k \in Clerks, UpdateLines(k)
  PROVE  VendorInv'
<1>1. /\ pc[k] = "update" /\ ~Closed(k)
      /\ WriteLines(k, DOMAIN request[k].quantities) /\ Goto(k, "updated")
      /\ UNCHANGED <<orderVars, bought, request, seen, purchases, raced, unrecorded>>
  BY DEF UpdateLines, At
<1>2. OrderTypes /\ RequestOK(k) /\ RowOK(k) /\ LinesOK(k)
  BY DEF VendorInv, ClerkInv
<1>3. request[k].quantities \in Asked
  BY <1>1, <1>2 DEF RequestOK
<1>4. pc'[k] = "updated"
  BY <1>1, <1>2 DEF Goto, OrderTypes
<1>5. RequestOK(k)' /\ RowOK(k)' /\ JudgedOK(k)'
  BY <1>1, <1>2, <1>4 DEF RequestOK, RowOK, JudgedOK, Closed, orderVars
<1>6. LinesOK(k)'
  BY <1>1, <1>2, <1>4 DEF LinesOK, HasRead, orderVars
<1>7. ClerkInv(k)'
  BY <1>4, <1>5, <1>6 DEF ClerkInv, BoughtOK, Unrecorded, CountedOK, At
<1> HIDE DEF ClerkInv
<1> QED
  BY <1>1, <1>3, <1>7, WritesLines

\* So does a request that records what it bought.
LEMMA RecordLinesInv ==
  ASSUME VendorInv, NEW k \in Clerks, RecordLines(k)
  PROVE  VendorInv'
<1>1. /\ pc[k] = "record"
      /\ WriteLines(k, DOMAIN request[k].quantities) /\ Goto(k, "recorded")
      /\ UNCHANGED <<orderVars, bought, request, seen, purchases, raced, unrecorded>>
  BY DEF RecordLines, At
<1>2. OrderTypes /\ RequestOK(k) /\ RowOK(k) /\ LinesOK(k) /\ BoughtOK(k) /\ JudgedOK(k)
  BY DEF VendorInv, ClerkInv
<1>3. request[k].quantities \in Asked
  BY <1>1, <1>2 DEF RequestOK
<1>4. pc'[k] = "recorded"
  BY <1>1, <1>2 DEF Goto, OrderTypes
<1>5. RequestOK(k)' /\ RowOK(k)' /\ JudgedOK(k)'
  BY <1>1, <1>2, <1>4 DEF RequestOK, RowOK, JudgedOK, Judged, Closed, orderVars
<1>6. LinesOK(k)' /\ BoughtOK(k)'
  BY <1>1, <1>2, <1>4 DEF LinesOK, HasRead, BoughtOK, Unrecorded, orderVars
<1>7. ClerkInv(k)'
  BY <1>4, <1>5, <1>6 DEF ClerkInv, CountedOK, At
<1> HIDE DEF ClerkInv
<1> QED
  BY <1>1, <1>3, <1>7, WritesLines

\* What is bought brings the purchases of a line to at least the quantity that the
\* request is about to record.
LEMMA BuyReceivedInv ==
  ASSUME VendorInv, NEW k \in Clerks, BuyReceived(k)
  PROVE  VendorInv'
<1> DEFINE q == request[k].quantities
<1>1. /\ pc[k] = "receive" /\ Receivable(k)
      /\ bought' = [i \in Items |-> IF i \in DOMAIN q THEN bought[i] + NewCases(k, i)
                                                      ELSE bought[i]]
      /\ pc' = [pc EXCEPT ![k] = "record"]
      /\ UNCHANGED <<orderVars, request, seen, held, raced, unrecorded>>
  BY DEF BuyReceived, At, Goto
<1>2. /\ OrderTypes /\ RequestOK(k) /\ RowOK(k) /\ LinesOK(k) /\ ReceivedWasBought
      /\ status # "NONE"
  BY <1>1, OrderExists DEF VendorInv, ClerkInv
<1>3. q \in Asked /\ pc'[k] = "record"
  BY <1>1, <1>2 DEF RequestOK, OrderTypes
<1>4. \A i \in DOMAIN q :
        /\ i \in Items /\ q[i] \in Nat /\ bought[i] \in Nat
        /\ i \in DOMAIN seen[k].ordered /\ seen[k].received[i] \in Nat
        /\ seen[k].received[i] <= bought[i]
        /\ seen[k].received[i] <= q[i]
  <2>1. ~Closed(k) /\ DOMAIN q \subseteq DOMAIN seen[k].ordered
    BY <1>1 DEF Receivable
  <2>2. \A i \in DOMAIN q : q[i] \in seen[k].received[i] .. seen[k].ordered[i]
    BY <1>1 DEF Receivable
  <2>3. \A i \in DOMAIN q : seen[k].received[i] \in Nat /\ seen[k].received[i] <= bought[i]
    BY <1>1, <1>2, <2>1 DEF LinesOK, HasRead
  <2>4. \A i \in DOMAIN q : i \in Items /\ q[i] \in Nat
    BY <1>3, AskedType
  <2>5. \A i \in DOMAIN q : seen[k].received[i] <= q[i]
    BY <2>2, <2>3
  <2> QED
    BY <1>2, <2>1, <2>3, <2>4, <2>5 DEF OrderTypes
<1>5. /\ bought' \in [Items -> Nat]
      /\ \A i \in Items : bought[i] <= bought'[i]
      /\ \A i \in DOMAIN q : q[i] <= bought'[i]
  <2>1. \A i \in DOMAIN q : bought'[i] = bought[i] + (q[i] - seen[k].received[i])
    BY <1>1, <1>4 DEF NewCases
  <2>2. \A i \in DOMAIN q : bought'[i] \in Nat /\ bought[i] <= bought'[i] /\ q[i] <= bought'[i]
    BY <1>4, <2>1
  <2>3. \A i \in Items \ DOMAIN q : bought'[i] = bought[i]
    BY <1>1
  <2>4. \A i \in Items : bought'[i] \in Nat /\ bought[i] <= bought'[i]
    BY <1>2, <2>2, <2>3 DEF OrderTypes
  <2> QED
    BY <1>1, <2>2, <2>4
<1>6. RequestOK(k)' /\ RowOK(k)' /\ JudgedOK(k)'
  <2>1. ~Closed(k)
    BY <1>1 DEF Receivable
  <2> QED
    BY <1>1, <1>2, <1>3, <2>1 DEF RequestOK, RowOK, JudgedOK, Closed, orderVars
<1>7. BoughtOK(k)'
  BY <1>1, <1>5 DEF BoughtOK
<1>8. LinesOK(k)'
  <2>1. \A i \in DOMAIN seen[k].ordered : seen[k].received[i] <= bought'[i]
    BY <1>1, <1>2, <1>5 DEF LinesOK, HasRead, OrderTypes
  <2>2. LinesOK(k) /\ HasRead(k) /\ seen' = seen /\ UNCHANGED orderVars
    BY <1>1, <1>2 DEF HasRead
  <2> QED
    BY <2>1, <2>2 DEF LinesOK, orderVars
<1>9. ClerkInv(k)'
  BY <1>3, <1>6, <1>7, <1>8 DEF ClerkInv, CountedOK, At
<1>10. \A j \in Clerks \ {k} : ClerkInv(j)'
  <2> SUFFICES ASSUME NEW j \in Clerks \ {k} PROVE ClerkInv(j)'
    OBVIOUS
  <2>1. pc'[j] = pc[j] /\ request'[j] = request[j] /\ seen'[j] = seen[j]
    BY <1>1, <1>2 DEF OrderTypes
  <2> QED
    BY <1>1, <1>5, <2>1, OthersKept
<1>11. OrderTypes'
  BY <1>1, <1>2, <1>5 DEF OrderTypes, Labels, orderVars, Lines
<1>12. ReceivedWasBought' /\ NothingYet'
  <2>1. \A i \in Lines : received[i] \in Nat /\ received[i] <= bought[i] /\ i \in Items
    BY <1>2 DEF OrderTypes, ReceivedWasBought
  <2>2. \A i \in Lines : received[i] <= bought'[i]
    BY <1>2, <1>5, <2>1 DEF OrderTypes
  <2> QED
    BY <1>1, <1>2, <2>2 DEF ReceivedWasBought, NothingYet, orderVars, Lines
<1> HIDE DEF ClerkInv
<1> QED
  BY <1>9, <1>10, <1>11, <1>12 DEF VendorInv

\* Looking at all lines is a judgement that holds until the order changes.
LEMMA FreshLinesInv ==
  ASSUME VendorInv, NEW k \in Clerks, FreshLines(k)
  PROVE  VendorInv'
<1> DEFINE all == AllReceived([i \in Lines |-> Recorded(k, i)])
<1>1. /\ pc[k] = "recorded"
      /\ seen' = [seen EXCEPT ![k].allReceived = all]
      /\ pc' = [pc EXCEPT ![k] = "counted"]
      /\ UNCHANGED <<orderVars, bought, request, held, purchases, raced, unrecorded>>
  BY DEF FreshLines, At, Goto
<1>2. /\ OrderTypes /\ RequestOK(k) /\ RowOK(k) /\ LinesOK(k) /\ BoughtOK(k) /\ JudgedOK(k)
      /\ status # "NONE"
  BY <1>1, OrderExists DEF VendorInv, ClerkInv
<1>3. /\ pc'[k] = "counted"
      /\ seen'[k] = [seen[k] EXCEPT !.allReceived = all]
      /\ DOMAIN seen[k] = {"status", "version", "ordered", "received", "allReceived"}
  BY <1>1, <1>2 DEF OrderTypes, LinesOK, HasRead
<1> HIDE DEF all
<1>4. /\ DOMAIN seen'[k] = DOMAIN seen[k] /\ seen'[k].allReceived = all
      /\ seen'[k].status = seen[k].status /\ seen'[k].version = seen[k].version
      /\ seen'[k].ordered = seen[k].ordered /\ seen'[k].received = seen[k].received
  BY <1>3
<1>5. RequestOK(k)' /\ RowOK(k)' /\ JudgedOK(k)'
  BY <1>1, <1>2, <1>3, <1>4 DEF RequestOK, RowOK, JudgedOK, Judged, Closed, orderVars
<1>6. LinesOK(k)' /\ BoughtOK(k)'
  BY <1>1, <1>2, <1>3, <1>4 DEF LinesOK, HasRead, BoughtOK, Unrecorded, orderVars
<1>7. CountedOK(k)'
  <2>1. all => \A i \in Lines : Recorded(k, i) >= ordered[i]
    BY DEF all, AllReceived
  <2> QED
    BY <1>1, <1>4, <2>1 DEF CountedOK, Recorded, Lines, orderVars
<1>8. ClerkInv(k)'
  BY <1>5, <1>6, <1>7 DEF ClerkInv
<1>9. /\ pc' \in [Clerks -> Labels] /\ seen' = [j \in Clerks |-> seen'[j]]
      /\ \A j \in Clerks \ {k} : pc'[j] = pc[j] /\ seen'[j] = seen[j]
  BY <1>1, <1>2 DEF OrderTypes, Labels
<1> HIDE DEF ClerkInv
<1> QED
  BY <1>1, <1>2, <1>8, <1>9, OrderLeftAlone DEF OrderTypes

\* A commit of well-formed lines that claim no more than was bought ends the request;
\* from now on the other requests know an order that has changed.
LEMMA CommitInv ==
  ASSUME VendorInv, NEW k \in Clerks, pc[k] # "idle",
         NEW O, NEW R, NEW S \in Status \ {"NONE"},
         DOMAIN O \subseteq Items, O \in [DOMAIN O -> Nat \ {0}], R \in [DOMAIN O -> Nat],
         \A i \in DOMAIN O : R[i] <= bought[i],
         CommitOrder(k, O, R, S), UNCHANGED <<bought, purchases, unrecorded>>
  PROVE  VendorInv'
<1>1. /\ version' = version + 1 /\ ordered' = O /\ received' = R /\ status' = S
      /\ raced' = (raced \/ Overtaken(k)) /\ Forget(k)
  BY DEF CommitOrder
<1>2. OrderTypes
  BY DEF VendorInv
<1>3. /\ pc' \in [Clerks -> Labels] /\ pc'[k] = "idle"
      /\ request' = [j \in Clerks |-> request'[j]]
      /\ seen' = [j \in Clerks |-> seen'[j]]
      /\ held' \in [Clerks -> SUBSET Items]
      /\ \A j \in Clerks \ {k} :
           pc'[j] = pc[j] /\ request'[j] = request[j] /\ seen'[j] = seen[j]
  BY <1>1, <1>2, Forgotten
<1>4. bought' \in [Items -> Nat] /\ \A i \in Items : bought[i] <= bought'[i]
  BY <1>2 DEF OrderTypes
<1>5. \A j \in Clerks \ {k} : ClerkInv(j)'
  BY <1>1, <1>3, <1>4, OthersKept
<1>6. ClerkInv(k)'
  BY <1>3 DEF ClerkInv, RequestOK, RowOK, LinesOK, HasRead, BoughtOK, Unrecorded,
              JudgedOK, Judged, CountedOK, At
<1>7. raced' \in BOOLEAN /\ unrecorded' \in BOOLEAN
  BY <1>1, <1>2 DEF OrderTypes, Overtaken
<1>8. OrderTypes' /\ ReceivedWasBought' /\ NothingYet'
  BY <1>1, <1>2, <1>3, <1>7 DEF OrderTypes, Lines, ReceivedWasBought, NothingYet
<1> HIDE DEF ClerkInv
<1> QED
  BY <1>5, <1>6, <1>8 DEF VendorInv

\* An update keeps lines that claim no more than was bought.
LEMMA UpdateOrderInv ==
  ASSUME VendorInv, NEW k \in Clerks, UpdateOrder(k)
  PROVE  VendorInv'
<1> DEFINE q == request[k].quantities
           kept == KeptLines(k)
           O == [i \in kept |-> IF i \in DOMAIN q THEN q[i] ELSE ordered[i]]
           R == [i \in kept |-> received[i]]
           S == IF request[k].status = Keep THEN status ELSE request[k].status
<1>1. /\ pc[k] = "updated" /\ CommitOrder(k, O, R, S)
      /\ UNCHANGED <<bought, purchases, unrecorded>>
  BY DEF UpdateOrder, At
<1>2. OrderTypes /\ RequestOK(k) /\ ReceivedWasBought /\ status # "NONE"
  BY <1>1, OrderExists DEF VendorInv, ClerkInv
<1>3. q \in Asked /\ request[k].status \in NewStatuses
  BY <1>1, <1>2 DEF RequestOK
<1>4. S \in Status \ {"NONE"}
  BY <1>2, <1>3 DEF OrderTypes, Status
<1>5. /\ kept \subseteq Lines
      /\ \A i \in kept \cap DOMAIN q : q[i] # 0 /\ q[i] \in Nat
  <2>1. \A i \in DOMAIN q : q[i] \in Nat
    BY <1>3, AskedType
  <2> QED
    BY <2>1 DEF KeptLines
<1> HIDE DEF kept, q
<1>6. \A i \in kept : ordered[i] \in Nat \ {0} /\ received[i] \in Nat /\ i \in Items
  BY <1>2, <1>5 DEF OrderTypes
<1>7. /\ DOMAIN O = kept /\ DOMAIN O \subseteq Items
      /\ O \in [DOMAIN O -> Nat \ {0}] /\ R \in [DOMAIN O -> Nat]
      /\ \A i \in DOMAIN O : R[i] <= bought[i]
  BY <1>2, <1>5, <1>6 DEF ReceivedWasBought
<1> HIDE DEF O, R, S
<1> QED
  BY <1>1, <1>4, <1>7, CommitInv

\* Sending keeps the lines.
LEMMA SendOrderInv ==
  ASSUME VendorInv, NEW k \in Clerks, SendOrder(k)
  PROVE  VendorInv'
<1>1. /\ pc[k] = "send" /\ CommitOrder(k, ordered, received, "SENT")
      /\ UNCHANGED <<bought, purchases, unrecorded>>
  BY DEF SendOrder, At
<1>2. /\ DOMAIN ordered \subseteq Items /\ ordered \in [DOMAIN ordered -> Nat \ {0}]
      /\ received \in [DOMAIN ordered -> Nat]
      /\ \A i \in DOMAIN ordered : received[i] <= bought[i]
  BY DEF VendorInv, OrderTypes, ReceivedWasBought, Lines
<1>3. "SENT" \in Status \ {"NONE"}
  BY DEF Status
<1> QED
  BY <1>1, <1>2, <1>3, CommitInv

\* What is recorded was bought.
LEMMA RecordOrderInv ==
  ASSUME VendorInv, NEW k \in Clerks, RecordOrder(k)
  PROVE  VendorInv'
<1> DEFINE R == [i \in Lines |-> Recorded(k, i)]
           S == IF seen[k].allReceived THEN "RECEIVED" ELSE "PARTIALLY_RECEIVED"
<1>1. /\ pc[k] = "counted" /\ CommitOrder(k, ordered, R, S)
      /\ UNCHANGED <<bought, purchases, unrecorded>>
  BY DEF RecordOrder, At
<1>2. OrderTypes /\ RequestOK(k) /\ BoughtOK(k) /\ ReceivedWasBought
  BY DEF VendorInv, ClerkInv
<1>3. request[k].quantities \in Asked
  BY <1>1, <1>2 DEF RequestOK
<1>4. \A i \in Lines : Recorded(k, i) \in Nat /\ Recorded(k, i) <= bought[i]
  BY <1>1, <1>2, <1>3, AskedType
     DEF Recorded, BoughtOK, Unrecorded, ReceivedWasBought, OrderTypes
<1>5. S \in Status \ {"NONE"}
  BY DEF Status
<1>6. /\ DOMAIN ordered \subseteq Items /\ ordered \in [DOMAIN ordered -> Nat \ {0}]
      /\ R \in [DOMAIN ordered -> Nat]
      /\ \A i \in DOMAIN ordered : R[i] <= bought[i]
  BY <1>2, <1>4 DEF OrderTypes, Lines
<1> HIDE DEF R, S
<1> QED
  BY <1>1, <1>5, <1>6, CommitInv

\* Every step keeps the invariant.
LEMMA VendorNextInv == VendorInv /\ [VendorNext]_vendorVars => VendorInv'
<1> SUFFICES ASSUME VendorInv, [VendorNext]_vendorVars PROVE VendorInv'
  OBVIOUS
<1>1. ASSUME NEW cases \in Suggested, GenerateOrder(cases) PROVE VendorInv'
  BY <1>1, GenerateOrderInv
<1>2. ASSUME NEW k \in Clerks, AskUpdate(k) \/ AskSend(k) \/ AskReceive(k) PROVE VendorInv'
  BY <1>2, AskInv
<1>3. ASSUME NEW k \in Clerks, ReadRow(k) \/ ReadLines(k) PROVE VendorInv'
  BY <1>3, ReadRowInv, ReadLinesInv
<1>4. ASSUME NEW k \in Clerks, Fail(k) PROVE VendorInv'
  BY <1>4, FailInv
<1>5. ASSUME NEW k \in Clerks, UpdateLines(k) \/ UpdateOrder(k) \/ SendOrder(k)
      PROVE  VendorInv'
  BY <1>5, UpdateLinesInv, UpdateOrderInv, SendOrderInv
<1>6. ASSUME NEW k \in Clerks, BuyReceived(k) \/ RecordLines(k) PROVE VendorInv'
  BY <1>6, BuyReceivedInv, RecordLinesInv
<1>7. ASSUME NEW k \in Clerks, FreshLines(k) \/ RecordOrder(k) PROVE VendorInv'
  BY <1>7, FreshLinesInv, RecordOrderInv
<1>8. CASE UNCHANGED vendorVars
  <2>1. /\ UNCHANGED orderVars /\ bought' = bought /\ pc' = pc
        /\ request' = request /\ seen' = seen /\ held' = held
        /\ raced' = raced /\ unrecorded' = unrecorded
    BY <1>8 DEF vendorVars, orderVars
  <2>2. OrderTypes' /\ NothingYet' /\ ReceivedWasBought'
    BY <2>1 DEF VendorInv, OrderTypes, NothingYet, ReceivedWasBought, orderVars, Lines
  <2>3. bought' \in [Items -> Nat] /\ \A i \in Items : bought[i] <= bought'[i]
    BY <2>1 DEF VendorInv, OrderTypes
  <2>4. \A k \in Clerks : ClerkInv(k)'
    BY <2>1, <2>3, OthersKept
  <2> QED
    BY <2>2, <2>4 DEF VendorInv
<1> QED
  BY <1>1, <1>2, <1>3, <1>4, <1>5, <1>6, <1>7, <1>8 DEF VendorNext, Work

THEOREM VendorOrdersInvariant == VendorSpec => []VendorInv
  BY VendorInitInv, VendorNextInv, PTL DEF VendorSpec

-----------------------------------------------------------------------------
(* What the order claims *)

\* However clerks overtake each other, and wherever a request fails between its two
\* transactions, an order never claims that more was received than purchases were
\* booked for.
THEOREM ClaimsWereBought == VendorSpec => []ReceivedWasBought
<1>1. VendorInv => ReceivedWasBought
  BY DEF VendorInv
<1> QED
  BY VendorOrdersInvariant, <1>1, PTL

\* Steps that commit nothing to the order.
LEMMA OrderUntouched ==
  ASSUME NEW k \in Clerks,
         \/ AskUpdate(k) \/ AskSend(k) \/ AskReceive(k)
         \/ ReadRow(k) \/ ReadLines(k) \/ Fail(k)
         \/ UpdateLines(k) \/ BuyReceived(k) \/ RecordLines(k) \/ FreshLines(k)
  PROVE  UNCHANGED <<orderVars, raced>>
  BY DEF AskUpdate, AskSend, AskReceive, Submit, ReadRow, ReadLines, Fail, UpdateLines,
         BuyReceived, RecordLines, FreshLines

\* What a commit writes.
LEMMA CommitWrites ==
  ASSUME NEW k, NEW O, NEW R, NEW S, CommitOrder(k, O, R, S)
  PROVE  version' = version + 1 /\ status' = S /\ ordered' = O /\ received' = R
  BY DEF CommitOrder

\* Who commits to an order found it open.
LEMMA CommitsToOpenOrders ==
  ASSUME VendorInv, NEW k \in Clerks, Commits(k)
  PROVE  seen[k].status \notin {"RECEIVED", "CANCELLED"}
<1>1. CASE UpdateOrder(k)
  <2>1. pc[k] = "updated" /\ JudgedOK(k)
    BY <1>1 DEF UpdateOrder, At, VendorInv, ClerkInv
  <2> QED
    BY <2>1 DEF JudgedOK, Judged, Closed
<1>2. CASE SendOrder(k)
  BY <1>2 DEF SendOrder
<1>3. CASE RecordOrder(k)
  <2>1. pc[k] = "counted" /\ JudgedOK(k)
    BY <1>3 DEF RecordOrder, At, VendorInv, ClerkInv
  <2> QED
    BY <2>1 DEF JudgedOK, Judged, Closed
<1> QED
  BY <1>1, <1>2, <1>3 DEF Commits

\* Nobody else touches an order.
LEMMA ClosedIsKept ==
  ASSUME VendorInv, [VendorNext]_vendorVars, status \in {"RECEIVED", "CANCELLED"}
  PROVE  \/ UNCHANGED orderVars
         \/ \E k \in Clerks :
              Commits(k) /\ seen[k].status \notin {"RECEIVED", "CANCELLED"}
<1>1. ASSUME NEW cases \in Suggested, GenerateOrder(cases) PROVE FALSE
  BY <1>1 DEF GenerateOrder
<1>2. ASSUME NEW k \in Clerks, Work(k)
      PROVE  UNCHANGED orderVars \/ Commits(k)
  BY <1>2, OrderUntouched DEF Work, Commits
<1>3. CASE UNCHANGED vendorVars
  BY <1>3 DEF vendorVars, orderVars
<1> QED
  BY <1>1, <1>2, <1>3, CommitsToOpenOrders DEF VendorNext

\* However clerks overtake each other, and wherever requests fail: a received or cancelled
\* order stays as it is, unless a request commits that had read it before it was closed.
THEOREM ClosedOrdersStay == VendorSpec => ClosedOrderKept
<1>1. VendorInv /\ [VendorNext]_vendorVars =>
        [(status \in {"RECEIVED", "CANCELLED"}) =>
           \/ UNCHANGED orderVars
           \/ \E k \in Clerks :
                Commits(k) /\ seen[k].status \notin {"RECEIVED", "CANCELLED"}]_vendorVars
  BY ClosedIsKept
<1> QED
  BY VendorOrdersInvariant, <1>1, PTL DEF VendorSpec, ClosedOrderKept

\* The lines that were counted are the ones that are committed.
LEMMA ClosesComplete ==
  ASSUME VendorInv, NEW k \in Clerks, RecordOrder(k), status' = "RECEIVED", ~Overtaken(k)
  PROVE  \A i \in Lines' : received'[i] >= ordered'[i]
<1> DEFINE R == [i \in Lines |-> Recorded(k, i)]
           S == IF seen[k].allReceived THEN "RECEIVED" ELSE "PARTIALLY_RECEIVED"
<1>1. pc[k] = "counted" /\ CommitOrder(k, ordered, R, S)
  BY DEF RecordOrder, At
<1>2. status' = S /\ ordered' = ordered /\ received' = R
  <2> HIDE DEF R, S
  <2> QED
    BY <1>1, CommitWrites
<1>3. CountedOK(k) /\ seen[k].allReceived
  BY <1>2 DEF VendorInv, ClerkInv
<1>4. \A i \in Lines : Recorded(k, i) >= ordered[i]
  BY <1>1, <1>3 DEF CountedOK, At
<1> QED
  BY <1>2, <1>4 DEF Lines

\* Receiving closes an order only when all of its lines have come completely, unless
\* another request committed while this one was working.
THEOREM ClosedOrdersAreComplete == VendorSpec => ReceivedIsComplete
<1>1. VendorInv /\ [VendorNext]_vendorVars =>
        [\A k \in Clerks : RecordOrder(k) /\ status' = "RECEIVED" =>
           Overtaken(k) \/ \A i \in Lines' : received'[i] >= ordered'[i]]_vendorVars
  BY ClosesComplete
<1> QED
  BY VendorOrdersInvariant, <1>1, PTL DEF VendorSpec, ReceivedIsComplete

-----------------------------------------------------------------------------
(* That the order and its purchases agree *)

\* One of these clerks has bought for the line and not recorded it yet.
BeingRecorded(i, clerks) ==
  \E j \in clerks : Unrecorded(j) /\ i \in DOMAIN request[j].quantities

Orderly == ~raced /\ ~unrecorded

\* What clerk k bought was exactly what was missing, unless the order has changed
\* since or somebody else has bought for the same line.
BookedOnce(k) ==
  Orderly /\ Unrecorded(k) /\ ~Overtaken(k) =>
    \A i \in DOMAIN request[k].quantities \cap Lines :
      bought[i] = request[k].quantities[i] \/ BeingRecorded(i, Clerks \ {k})

Agree ==
  Orderly => \A i \in Lines : BeingRecorded(i, Clerks) \/ bought[i] = received[i]

AgreeInv == Agree /\ \A k \in Clerks : BookedOnce(k)

\* The order is untouched, and what is bought and not recorded stays so, unless a
\* request that had bought fails.
LEMMA AgreementKept ==
  ASSUME AgreeInv, UNCHANGED <<orderVars, bought, raced>>,
         unrecorded \in BOOLEAN,
         unrecorded => unrecorded',
         unrecorded' \/ \A j \in Clerks : Unrecorded(j)' <=> Unrecorded(j),
         \A j \in Clerks : Unrecorded(j)' /\ Unrecorded(j) =>
           request'[j] = request[j] /\ seen'[j].version = seen[j].version
  PROVE  AgreeInv'
<1> SUFFICES ASSUME Orderly' PROVE AgreeInv'
  BY DEF AgreeInv, Agree, BookedOnce
<1>1. /\ Orderly
      /\ \A j \in Clerks : Unrecorded(j)' <=> Unrecorded(j)
      /\ \A j \in Clerks : Unrecorded(j) =>
           request'[j] = request[j] /\ seen'[j].version = seen[j].version
  BY DEF Orderly
<1>2. ASSUME NEW i \in Lines PROVE BeingRecorded(i, Clerks)' \/ bought'[i] = received'[i]
  BY <1>1 DEF AgreeInv, Agree, BeingRecorded, orderVars
<1>3. ASSUME NEW k \in Clerks, Unrecorded(k)', ~Overtaken(k)',
             NEW i \in DOMAIN request'[k].quantities \cap Lines
      PROVE  bought'[i] = request'[k].quantities[i] \/ BeingRecorded(i, Clerks \ {k})'
  BY <1>1, <1>3 DEF AgreeInv, BookedOnce, BeingRecorded, Overtaken, orderVars
<1>4. Lines' = Lines
  BY DEF Lines, orderVars
<1> QED
  BY <1>2, <1>3, <1>4 DEF AgreeInv, Agree, BookedOnce

\* The first steps of a request, and the failures, buy and record nothing.
LEMMA FirstStepsAgree ==
  ASSUME VendorInv, AgreeInv, NEW k \in Clerks,
         \/ AskUpdate(k) \/ AskSend(k) \/ AskReceive(k)
         \/ ReadRow(k) \/ ReadLines(k) \/ Fail(k) \/ UpdateLines(k)
  PROVE  AgreeInv'
<1>1. OrderTypes /\ RequestOK(k)
  BY DEF VendorInv, ClerkInv
<1>2. CASE AskUpdate(k) \/ AskSend(k) \/ AskReceive(k)
  <2>1. PICK r : Submit(k, r)
    BY <1>2 DEF AskUpdate, AskSend, AskReceive
  <2>2. /\ UNCHANGED <<orderVars, bought, raced, unrecorded, seen>>
        /\ pc[k] = "idle" /\ pc' = [pc EXCEPT ![k] = "row"]
        /\ request' = [request EXCEPT ![k] = r]
    BY <2>1 DEF Submit, At, Goto
  <2>3. /\ pc'[k] = "row"
        /\ \A j \in Clerks \ {k} : pc'[j] = pc[j] /\ request'[j] = request[j]
    BY <1>1, <2>2 DEF OrderTypes
  <2> QED
    BY <1>1, <2>2, <2>3, AgreementKept DEF Unrecorded, OrderTypes
<1>3. CASE ReadRow(k) \/ ReadLines(k)
  <2>1. /\ UNCHANGED <<orderVars, bought, raced, unrecorded, request>>
        /\ pc[k] \in {"row", "lines"}
        /\ pc' = [pc EXCEPT ![k] = "lines"] \/ pc' = [pc EXCEPT ![k] = request[k].kind]
        /\ \E x : seen' = [seen EXCEPT ![k] = x]
    BY <1>3 DEF ReadRow, ReadLines, At, Goto
  <2>2. /\ pc'[k] \in {"lines", "update", "send", "receive"}
        /\ \A j \in Clerks \ {k} : pc'[j] = pc[j] /\ seen'[j] = seen[j]
    BY <1>1, <2>1 DEF OrderTypes, RequestOK
  <2> QED
    BY <1>1, <2>1, <2>2, AgreementKept DEF Unrecorded, OrderTypes
<1>4. CASE Fail(k)
  <2>1. /\ UNCHANGED <<orderVars, bought, raced>>
        /\ unrecorded' = (unrecorded \/ Unrecorded(k)) /\ Forget(k)
    BY <1>4 DEF Fail
  <2>2. /\ pc'[k] = "idle"
        /\ \A j \in Clerks \ {k} :
             pc'[j] = pc[j] /\ request'[j] = request[j] /\ seen'[j] = seen[j]
    BY <1>1, <2>1, Forgotten
  <2> QED
    BY <1>1, <2>1, <2>2, AgreementKept DEF Unrecorded, OrderTypes
<1>5. CASE UpdateLines(k)
  <2>1. /\ UNCHANGED <<orderVars, bought, raced, unrecorded, request, seen>>
        /\ pc[k] = "update" /\ pc' = [pc EXCEPT ![k] = "updated"]
    BY <1>5 DEF UpdateLines, At, Goto
  <2>2. pc'[k] = "updated" /\ \A j \in Clerks \ {k} : pc'[j] = pc[j]
    BY <1>1, <2>1 DEF OrderTypes
  <2> QED
    BY <1>1, <2>1, <2>2, AgreementKept DEF Unrecorded, OrderTypes
<1> QED
  BY <1>2, <1>3, <1>4, <1>5

\* Between booking and recording a request keeps what it asked for and the version.
LEMMA NextStepsAgree ==
  ASSUME VendorInv, AgreeInv, NEW k \in Clerks, RecordLines(k) \/ FreshLines(k)
  PROVE  AgreeInv'
<1>1. OrderTypes /\ LinesOK(k)
  BY DEF VendorInv, ClerkInv
<1>2. CASE RecordLines(k)
  <2>1. /\ UNCHANGED <<orderVars, bought, raced, unrecorded, request, seen>>
        /\ pc[k] = "record" /\ pc' = [pc EXCEPT ![k] = "recorded"]
    BY <1>2 DEF RecordLines, At, Goto
  <2>2. pc'[k] = "recorded" /\ \A j \in Clerks \ {k} : pc'[j] = pc[j]
    BY <1>1, <2>1 DEF OrderTypes
  <2> QED
    BY <1>1, <2>1, <2>2, AgreementKept DEF Unrecorded, OrderTypes
<1>3. CASE FreshLines(k)
  <2> DEFINE all == AllReceived([i \in Lines |-> Recorded(k, i)])
  <2>1. /\ UNCHANGED <<orderVars, bought, raced, unrecorded, request>>
        /\ pc[k] = "recorded" /\ pc' = [pc EXCEPT ![k] = "counted"]
        /\ seen' = [seen EXCEPT ![k].allReceived = all]
    BY <1>3 DEF FreshLines, At, Goto
  <2> HIDE DEF all
  <2>2. /\ pc'[k] = "counted" /\ seen'[k] = [seen[k] EXCEPT !.allReceived = all]
        /\ \A j \in Clerks \ {k} : pc'[j] = pc[j] /\ seen'[j] = seen[j]
    BY <1>1, <2>1 DEF OrderTypes
  <2>3. "version" \in DOMAIN seen[k]
    BY <1>1, <2>1 DEF LinesOK, HasRead
  <2>4. seen'[k].version = seen[k].version
    BY <2>2, <2>3
  <2> QED
    BY <1>1, <2>1, <2>2, <2>4, AgreementKept DEF Unrecorded, OrderTypes
<1> QED
  BY <1>2, <1>3

\* After a commit every other request knows an order that has changed.
LEMMA OthersOvertaken ==
  ASSUME VendorInv, NEW k \in Clerks, NEW O, NEW R, NEW S, CommitOrder(k, O, R, S),
         NEW j \in Clerks \ {k}, Unrecorded(j)'
  PROVE  Unrecorded(j) /\ request'[j] = request[j] /\ Overtaken(j)'
<1>1. /\ OrderTypes /\ RowOK(j) /\ version' = version + 1 /\ Forget(k)
  BY DEF VendorInv, ClerkInv, CommitOrder
<1>2. pc'[j] = pc[j] /\ request'[j] = request[j] /\ seen'[j] = seen[j]
  BY <1>1, Forgotten
<1> QED
  BY <1>1, <1>2 DEF Unrecorded, RowOK, OrderTypes, Overtaken

\* A commit agrees if each line has received what was bought for it, unless others
\* have still to record it.
LEMMA CommitAgrees ==
  ASSUME VendorInv, NEW k \in Clerks, NEW O, NEW R, NEW S, CommitOrder(k, O, R, S),
         UNCHANGED <<bought, purchases, unrecorded>>,
         ~raced' /\ Orderly =>
           \A i \in DOMAIN O : BeingRecorded(i, Clerks \ {k}) \/ bought[i] = R[i]
  PROVE  AgreeInv'
<1> SUFFICES ASSUME Orderly' PROVE AgreeInv'
  BY DEF AgreeInv, Agree, BookedOnce
<1>1. /\ OrderTypes /\ ordered' = O /\ received' = R /\ Forget(k)
      /\ raced' = (raced \/ Overtaken(k))
  BY DEF VendorInv, CommitOrder
<1>2. Orderly /\ ~raced'
  BY <1>1 DEF Orderly
<1>3. /\ pc'[k] = "idle"
      /\ \A j \in Clerks \ {k} : pc'[j] = pc[j] /\ request'[j] = request[j]
  BY <1>1, Forgotten
<1>4. ASSUME NEW i \in Lines' PROVE BeingRecorded(i, Clerks)' \/ bought'[i] = received'[i]
  <2>1. i \in DOMAIN O
    BY <1>1 DEF Lines
  <2>2. CASE BeingRecorded(i, Clerks \ {k})
    BY <1>3, <2>2 DEF BeingRecorded, Unrecorded
  <2> QED
    BY <1>1, <1>2, <2>1, <2>2
<1>5. \A j \in Clerks : Unrecorded(j)' => Overtaken(j)'
  BY <1>3, OthersOvertaken DEF Unrecorded
<1> QED
  BY <1>4, <1>5 DEF AgreeInv, Agree, BookedOnce

\* Updating and sending receive nothing.
LEMMA UpdatesAgree ==
  ASSUME VendorInv, AgreeInv, NEW k \in Clerks, UpdateOrder(k) \/ SendOrder(k)
  PROVE  AgreeInv'
<1>1. UNCHANGED <<bought, purchases, unrecorded>> /\ ~Unrecorded(k)
  BY DEF UpdateOrder, SendOrder, At, Unrecorded
<1>2. Orderly => \A i \in Lines : BeingRecorded(i, Clerks \ {k}) \/ bought[i] = received[i]
  BY <1>1 DEF AgreeInv, Agree, BeingRecorded
<1>3. CASE UpdateOrder(k)
  <2> DEFINE q == request[k].quantities
             kept == KeptLines(k)
             O == [i \in kept |-> IF i \in DOMAIN q THEN q[i] ELSE ordered[i]]
             R == [i \in kept |-> received[i]]
             S == IF request[k].status = Keep THEN status ELSE request[k].status
  <2>1. CommitOrder(k, O, R, S)
    BY <1>3 DEF UpdateOrder
  <2>2. kept \subseteq Lines
    BY DEF KeptLines
  <2> HIDE DEF kept, q
  <2>3. DOMAIN O = kept /\ \A i \in kept : R[i] = received[i]
    OBVIOUS
  <2> HIDE DEF O, R, S
  <2>4. Orderly => \A i \in DOMAIN O : BeingRecorded(i, Clerks \ {k}) \/ bought[i] = R[i]
    BY <1>2, <2>2, <2>3
  <2> QED
    BY <1>1, <2>1, <2>4, CommitAgrees
<1>4. CASE SendOrder(k)
  <2>1. CommitOrder(k, ordered, received, "SENT")
    BY <1>4 DEF SendOrder
  <2> QED
    BY <1>1, <1>2, <2>1, CommitAgrees DEF Lines
<1> QED
  BY <1>3, <1>4

\* What is recorded of an order that did not change is what was bought.
LEMMA RecordOrderAgrees ==
  ASSUME VendorInv, AgreeInv, NEW k \in Clerks, RecordOrder(k)
  PROVE  AgreeInv'
<1> DEFINE R == [i \in Lines |-> Recorded(k, i)]
           S == IF seen[k].allReceived THEN "RECEIVED" ELSE "PARTIALLY_RECEIVED"
<1>1. /\ pc[k] = "counted" /\ CommitOrder(k, ordered, R, S)
      /\ UNCHANGED <<bought, purchases, unrecorded>>
  BY DEF RecordOrder, At
<1>2. ASSUME ~raced', Orderly, NEW i \in Lines
      PROVE  BeingRecorded(i, Clerks \ {k}) \/ bought[i] = R[i]
  <2>1. ~Overtaken(k)
    BY <1>1, <1>2 DEF CommitOrder
  <2>2. CASE i \in DOMAIN request[k].quantities
    BY <1>1, <1>2, <2>1, <2>2 DEF AgreeInv, BookedOnce, Unrecorded, Recorded
  <2>3. CASE i \notin DOMAIN request[k].quantities
    BY <1>2, <2>3 DEF AgreeInv, Agree, BeingRecorded, Recorded
  <2> QED
    BY <2>2, <2>3
<1> HIDE DEF R, S
<1> QED
  BY <1>1, <1>2, CommitAgrees DEF Lines

\* Buying what is new of an order that did not change makes up what was missing.
LEMMA BuyReceivedAgrees ==
  ASSUME VendorInv, AgreeInv, NEW k \in Clerks, BuyReceived(k)
  PROVE  AgreeInv'
<1> SUFFICES ASSUME Orderly' PROVE AgreeInv'
  BY DEF AgreeInv, Agree, BookedOnce
<1> DEFINE q == request[k].quantities
<1>1. /\ pc[k] = "receive" /\ Receivable(k)
      /\ bought' = [i \in Items |-> IF i \in DOMAIN q THEN bought[i] + NewCases(k, i)
                                                      ELSE bought[i]]
      /\ pc' = [pc EXCEPT ![k] = "record"]
      /\ UNCHANGED <<orderVars, request, seen, held, raced, unrecorded>>
  BY DEF BuyReceived, At, Goto
<1>2. /\ OrderTypes /\ LinesOK(k) /\ RequestOK(k) /\ Orderly /\ Lines' = Lines
  BY <1>1 DEF VendorInv, ClerkInv, Orderly, Lines, orderVars
<1>3. /\ pc'[k] = "record" /\ ~Unrecorded(k) /\ Unrecorded(k)'
      /\ \A j \in Clerks \ {k} : pc'[j] = pc[j]
  BY <1>1, <1>2 DEF OrderTypes, Unrecorded
<1>4. \A i \in Items \ DOMAIN q : bought'[i] = bought[i]
  BY <1>1
<1>5. ASSUME NEW i \in Lines PROVE BeingRecorded(i, Clerks)' \/ bought'[i] = received'[i]
  <2>1. CASE i \in DOMAIN q
    BY <1>1, <1>3, <2>1 DEF BeingRecorded
  <2>2. CASE i \notin DOMAIN q
    <3>1. CASE BeingRecorded(i, Clerks)
      BY <1>1, <1>3, <3>1 DEF BeingRecorded, Unrecorded
    <3>2. CASE bought[i] = received[i]
      BY <1>1, <1>2, <1>4, <2>2, <3>2 DEF OrderTypes, orderVars
    <3> QED
      BY <1>2, <3>1, <3>2 DEF AgreeInv, Agree
  <2> QED
    BY <2>1, <2>2
<1>6. ASSUME ~Overtaken(k), NEW i \in DOMAIN q \cap Lines
      PROVE  bought'[i] = q[i] \/ BeingRecorded(i, Clerks \ {k})'
  <2>1. CASE BeingRecorded(i, Clerks)
    BY <1>1, <1>3, <2>1 DEF BeingRecorded, Unrecorded
  <2>2. CASE bought[i] = received[i]
    <3>1. seen[k].received = received
      BY <1>1, <1>2, <1>6 DEF LinesOK, HasRead, Overtaken
    <3>2. q \in Asked
      BY <1>1, <1>2 DEF RequestOK
    <3>3. q[i] \in Nat /\ bought[i] \in Nat /\ i \in Items
      BY <1>2, <3>2, AskedType DEF OrderTypes
    <3>4. bought'[i] = bought[i] + (q[i] - received[i])
      BY <1>1, <3>1, <3>3 DEF NewCases
    <3> QED
      BY <2>2, <3>3, <3>4
  <2> QED
    BY <1>2, <2>1, <2>2 DEF AgreeInv, Agree
<1>7. ASSUME NEW j \in Clerks \ {k}, Unrecorded(j), ~Overtaken(j),
             NEW i \in DOMAIN request[j].quantities \cap Lines
      PROVE  bought'[i] = request[j].quantities[i] \/ BeingRecorded(i, Clerks \ {j})'
  <2>1. CASE i \in DOMAIN q
    BY <1>1, <1>3, <2>1 DEF BeingRecorded
  <2>2. CASE i \notin DOMAIN q
    <3>1. CASE BeingRecorded(i, Clerks \ {j})
      BY <1>1, <1>3, <3>1 DEF BeingRecorded, Unrecorded
    <3>2. CASE bought[i] = request[j].quantities[i]
      BY <1>2, <1>4, <2>2, <3>2 DEF OrderTypes
    <3> QED
      BY <1>2, <1>7, <3>1, <3>2 DEF AgreeInv, BookedOnce
  <2> QED
    BY <2>1, <2>2
<1>8. \A j \in Clerks :
        /\ Overtaken(j)' <=> Overtaken(j)
        /\ request'[j] = request[j]
        /\ j # k => (Unrecorded(j)' <=> Unrecorded(j))
  BY <1>1, <1>3 DEF Overtaken, Unrecorded, orderVars
<1>9. \A j \in Clerks : BookedOnce(j)'
  <2> SUFFICES ASSUME NEW j \in Clerks, Unrecorded(j)', ~Overtaken(j)',
                      NEW i \in DOMAIN request[j].quantities \cap Lines
               PROVE  bought'[i] = request[j].quantities[i] \/ BeingRecorded(i, Clerks \ {j})'
    BY <1>2, <1>8 DEF BookedOnce
  <2> QED
    BY <1>6, <1>7, <1>8
<1> QED
  BY <1>2, <1>5, <1>9 DEF AgreeInv, Agree

\* Nothing was bought for an order that is new.
LEMMA GenerateOrderAgrees ==
  ASSUME VendorInv, NEW cases \in Suggested, GenerateOrder(cases)
  PROVE  AgreeInv'
<1>1. /\ status = "NONE" /\ ordered' = cases
      /\ received' = [i \in DOMAIN cases |-> 0]
      /\ UNCHANGED <<bought, pc>>
  BY DEF GenerateOrder
<1>2. /\ \A i \in Items : bought[i] = 0
      /\ \A j \in Clerks : pc[j] = "idle"
  BY <1>1 DEF VendorInv, NothingYet
<1>3. cases \in [Items -> Nat \ {0}]
  OBVIOUS
<1> QED
  BY <1>1, <1>2, <1>3 DEF AgreeInv, Agree, BookedOnce, Unrecorded, Lines

\* Every step keeps the agreement.
LEMMA AgreeNext == VendorInv /\ AgreeInv /\ [VendorNext]_vendorVars => AgreeInv'
<1> SUFFICES ASSUME VendorInv, AgreeInv, [VendorNext]_vendorVars PROVE AgreeInv'
  OBVIOUS
<1>1. CASE UNCHANGED vendorVars
  BY <1>1 DEF vendorVars, AgreeInv, Agree, BookedOnce, Orderly, BeingRecorded, Unrecorded,
              Overtaken, Lines
<1> QED
  BY <1>1, GenerateOrderAgrees, FirstStepsAgree, NextStepsAgree, UpdatesAgree,
     BuyReceivedAgrees, RecordOrderAgrees DEF VendorNext, Work

\* As long as no request wrote to an order that had changed since it read it, and none
\* failed between its two transactions, what the order says was received is what was
\* bought for it, apart from lines that a request has yet to record.
THEOREM PurchasesAgree == VendorSpec => []BoughtIsReceived
<1>1. VendorInit => AgreeInv
  BY DEF VendorInit, AgreeInv, Agree, BookedOnce, Unrecorded, Lines
<1>2. AgreeInv => BoughtIsReceived
  BY DEF AgreeInv, Agree, Orderly, BeingRecorded, BoughtIsReceived
<1> QED
  BY VendorOrdersInvariant, AgreeNext, <1>1, <1>2, PTL DEF VendorSpec
=============================================================================

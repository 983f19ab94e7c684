----------------------------- MODULE Purchasing ------------------------------
(***************************************************************************)
(* The life of one vendor purchase: createStorePurchase,                   *)
(* updateStorePurchase and the inventory movements they post, with clerks  *)
(* who edit the purchase at the same time on PostgreSQL at READ COMMITTED. *)
(*                                                                         *)
(* An edit reads the purchase and its items without a lock, checks what it *)
(* read, deletes the items it replaces, updates the purchase row, inserts  *)
(* its items and posts the difference between the items it read and the    *)
(* items it finds afterwards.  The update takes the row lock and keeps it  *)
(* to the commit, and every edit goes through it: from there on the edit   *)
(* is one step, Save.  What is on hand of a product is StockLedger's       *)
(* concern; here a movement is an amount booked for this purchase.         *)
(***************************************************************************)
EXTENDS Integers, FiniteSets, FiniteSetsExt

CONSTANTS
  Clerks,      \* each has at most one edit in flight
  Products,    \* the products of the store
  Lines,       \* bound: the lines clerks enter
  Changes,     \* bound: what clerks submit, [status, lines]
  MaxVersion,  \* bound: the edits of the purchase that are saved
  NoPurchase,  \* the purchase was not created yet
  NoEdit,      \* the clerk edits nothing
  Keep,        \* a field the request leaves out
  Unread       \* the edit did not read the purchase yet

VARIABLES
  purchase,   \* the Purchase row: status, posted (inventoryPostedAt), version (updatedAt)
  items,      \* its PurchaseItem rows
  movements,  \* InventoryLog: the amounts booked for the purchase, per product
  edit,       \* the request of each clerk
  pc,         \* the statement it comes to
  seen,       \* the purchase row it read
  seenItems,  \* the items it read
  doomed,     \* the items its DELETE found
  raced       \* an edit was saved over another one it had not read

purchaseVars ==
  <<purchase, items, movements, edit, pc, seen, seenItems, doomed, raced>>

-----------------------------------------------------------------------------
Status == {"DRAFT", "OPEN", "VERIFIED", "VOIDED"}

Line == [product : Products, entryType : {"purchase", "return"},
         quantity : Nat, unitsPerCase : Nat]

\* A line entered by the save that made the version: deleted and entered again, it
\* is another row.
ItemRow == [line : Lines, version : Nat]

Row == [status : Status, posted : BOOLEAN, version : Nat]

Edit == [status : Status \cup {Keep},
         lines : {Keep} \cup SUBSET Lines,
         updatedAt : Nat \cup {Keep}]

ASSUME PurchasingAssumption ==
  /\ IsFiniteSet(Lines)
  /\ Lines \subseteq Line
  /\ \A l \in Lines : l.quantity > 0 /\ l.unitsPerCase > 0
  /\ Changes \subseteq [status : Status \cup {Keep}, lines : {Keep} \cup SUBSET Lines]
  /\ MaxVersion \in Nat
  /\ NoEdit \notin Edit
  /\ Keep \notin Status \cup Nat
  /\ \A lines \in SUBSET Lines : Keep # lines
  /\ Unread \notin Row
  /\ NoPurchase \notin Row

Units(line) ==
  (IF line.entryType = "return" THEN -1 ELSE 1) * line.quantity * line.unitsPerCase

\* inventoryEffectsFromItems
Effects(rows) ==
  [p \in Products |->
     MapThenSumSet(LAMBDA r : Units(r.line), {r \in rows : r.line.product = p})]

Nothing == [p \in Products |-> 0]

Entered(lines, version) == {[line |-> l, version |-> version] : l \in lines}

\* Mutant: a voided purchase can still be edited.
FinalWhenVerified(status) == status = "VERIFIED"

\* "Verified / Voided purchases cannot be edited"
Final(status) == status \in {"VERIFIED", "VOIDED"}

\* shouldBePosted
Posts(status) == status # "DRAFT"

-----------------------------------------------------------------------------
(* Creating the purchase: one transaction, whose rows nobody knows yet *)

Create(status, lines) ==
  /\ purchase = NoPurchase
  /\ purchase' = [status |-> status, posted |-> status # "DRAFT", version |-> 0]
  /\ items' = Entered(lines, 0)
  /\ movements' = IF status # "DRAFT" THEN Effects(items') ELSE Nothing
  /\ UNCHANGED <<edit, pc, seen, seenItems, doomed, raced>>

-----------------------------------------------------------------------------
(* Editing it *)

At(k, label) == pc[k] = label
Goto(k, label) == pc' = [pc EXCEPT ![k] = label]

Forget(k) ==
  /\ edit' = [edit EXCEPT ![k] = NoEdit]
  /\ Goto(k, "idle")
  /\ seen' = [seen EXCEPT ![k] = Unread]
  /\ seenItems' = [seenItems EXCEPT ![k] = {}]
  /\ doomed' = [doomed EXCEPT ![k] = {}]

\* A clerk opens the purchase and submits changes to it.
Submit(k, change) ==
  /\ At(k, "idle")
  /\ purchase # NoPurchase
  /\ \E opened \in {Keep, purchase.version} :
       edit' = [edit EXCEPT ![k] = [status |-> change.status, lines |-> change.lines,
                                    updatedAt |-> opened]]
  /\ Goto(k, "row")
  /\ UNCHANGED <<purchase, items, movements, seen, seenItems, doomed, raced>>

\* findFirst: the row ...
ReadRow(k) ==
  /\ At(k, "row")
  /\ seen' = [seen EXCEPT ![k] = purchase]
  /\ Goto(k, "items")
  /\ UNCHANGED <<purchase, items, movements, edit, seenItems, doomed, raced>>

\* ... and, in a statement of its own, the items.
ReadItems(k) ==
  /\ At(k, "items")
  /\ seenItems' = [seenItems EXCEPT ![k] = items]
  /\ Goto(k, "checked")
  /\ UNCHANGED <<purchase, items, movements, edit, seen, doomed, raced>>

UpToDate(k) == edit[k].updatedAt \in {Keep, seen[k].version}

Accepted(k) == ~Final(seen[k].status) /\ UpToDate(k)

\* The DELETE of the replaced items takes its snapshot.
DeleteItems(k) ==
  /\ At(k, "checked")
  /\ Accepted(k)
  /\ edit[k].lines # Keep
  /\ doomed' = [doomed EXCEPT ![k] = items]
  /\ Goto(k, "deleting")
  /\ UNCHANGED <<purchase, items, movements, edit, seen, seenItems, raced>>

\* It waits for the edits that delete the same rows, then skips what they deleted.
ItemsDeleted(k) ==
  /\ At(k, "deleting")
  /\ \A j \in Clerks : At(j, "deleted") => doomed[j] \cap doomed[k] = {}
  /\ doomed' = [doomed EXCEPT ![k] = @ \cap items]
  /\ Goto(k, "deleted")
  /\ UNCHANGED <<purchase, items, movements, edit, seen, seenItems, raced>>

NextStatus(k) == IF edit[k].status = Keep THEN seen[k].status ELSE edit[k].status

StatusAfter(k) == IF edit[k].status = Keep THEN purchase.status ELSE edit[k].status

\* Mutant: an edit that turns a posted purchase back into a draft leaves it posted.
StaysPosted(k) == purchase.posted \/ Posts(NextStatus(k))

\* inventoryPostedAt after the save: cleared, set, or left as the row has it.
PostedAfter(k) ==
  IF seen[k].posted = Posts(NextStatus(k)) THEN purchase.posted ELSE Posts(NextStatus(k))

ItemsAfter(k) ==
  (items \ doomed[k]) \cup
  (IF edit[k].lines = Keep THEN {} ELSE Entered(edit[k].lines, purchase.version + 1))

\* Mutant: the items are booked again, not their difference.
BookedInFull(k) ==
  IF Posts(NextStatus(k)) THEN Effects(ItemsAfter(k)) ELSE Nothing

\* applyInventoryDelta: the items now present against the items read.
Booked(k) ==
  LET before == IF seen[k].posted THEN Effects(seenItems[k]) ELSE Nothing
      after == IF Posts(NextStatus(k)) THEN Effects(ItemsAfter(k)) ELSE Nothing
  IN [p \in Products |-> after[p] - before[p]]

Ready(k) == At(k, "deleted") \/ (At(k, "checked") /\ Accepted(k) /\ edit[k].lines = Keep)

\* From the update of the purchase row to the commit.
Save(k) ==
  /\ Ready(k)
  /\ purchase.version < MaxVersion
  /\ purchase' = [status |-> StatusAfter(k),
                  posted |-> PostedAfter(k),
                  version |-> purchase.version + 1]
  /\ items' = ItemsAfter(k)
  /\ movements' = [p \in Products |-> movements[p] + Booked(k)[p]]
  /\ raced' = (raced \/ seen[k].version # purchase.version)
  /\ Forget(k)

\* The checks fail.
Refuse(k) ==
  /\ At(k, "checked")
  /\ ~Accepted(k)
  /\ Forget(k)
  /\ UNCHANGED <<purchase, items, movements, raced>>

\* Inventory below zero, a product or department of another store, a deadlock, a
\* timeout, a crash: the transaction is rolled back.
Rollback(k) ==
  /\ ~At(k, "idle")
  /\ Forget(k)
  /\ UNCHANGED <<purchase, items, movements, raced>>

-----------------------------------------------------------------------------
PurchaseInit ==
  /\ purchase = NoPurchase
  /\ items = {}
  /\ movements = Nothing
  /\ edit = [k \in Clerks |-> NoEdit]
  /\ pc = [k \in Clerks |-> "idle"]
  /\ seen = [k \in Clerks |-> Unread]
  /\ seenItems = [k \in Clerks |-> {}]
  /\ doomed = [k \in Clerks |-> {}]
  /\ raced = FALSE

EditStep(k) ==
  \/ ReadRow(k) \/ ReadItems(k) \/ DeleteItems(k) \/ ItemsDeleted(k)
  \/ Save(k) \/ Refuse(k) \/ Rollback(k)

PurchaseNext ==
  \/ \E status \in Status, lines \in SUBSET Lines : Create(status, lines)
  \/ \E k \in Clerks :
       \/ \E change \in Changes : Submit(k, change)
       \/ EditStep(k)

PurchaseSpec == PurchaseInit /\ [][PurchaseNext]_purchaseVars

-----------------------------------------------------------------------------
(* Properties *)

\* The rows and the edits in flight are well formed.
PurchaseTypeOK ==
  /\ purchase \in Row \cup {NoPurchase}
  /\ items \subseteq ItemRow
  /\ movements \in [Products -> Int]
  /\ edit \in [Clerks -> Edit \cup {NoEdit}]
  /\ pc \in [Clerks -> {"idle", "row", "items", "checked", "deleting", "deleted"}]
  /\ seen \in [Clerks -> Row \cup {Unread}]
  /\ seenItems \in [Clerks -> SUBSET ItemRow]
  /\ doomed \in [Clerks -> SUBSET ItemRow]
  /\ raced \in BOOLEAN

\* Until an edit is saved over one it had not read, the movements booked for the
\* purchase over its whole life add up to its present items, or to nothing while
\* it is a draft, whatever edits were refused, rolled back or overtaken on the way.
MovementsMatchItems ==
  purchase # NoPurchase /\ ~raced =>
    /\ purchase.posted = (purchase.status # "DRAFT")
    /\ movements = IF purchase.posted THEN Effects(items) ELSE Nothing

\* A verified or voided purchase, its items and its movements are changed by nobody but
\* an edit that had read it before it became final, however many were saved over each other.
FinalPurchaseKept ==
  [][purchase # NoPurchase /\ purchase.status \in {"VERIFIED", "VOIDED"} =>
       \/ UNCHANGED <<purchase, items, movements>>
       \/ \E k \in Clerks : Save(k) /\ seen[k].status \in {"DRAFT", "OPEN"}]_purchaseVars

\* "This purchase has changed since it was opened": an edit that names the version
\* its clerk opened is never saved over another one.
SavedOverWhatWasOpened ==
  [][\A k \in Clerks :
       Save(k) /\ edit[k].updatedAt # Keep => edit[k].updatedAt = purchase.version]_purchaseVars
=============================================================================

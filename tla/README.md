# PayDesk backend: specification, model checking and proofs

PayDesk is the server of a point-of-sale system: NestJS services over one
PostgreSQL database (through Prisma), used by registers, by clerks in the back
office, and by Stripe. This directory holds TLA+ modules of its core, TLC
configurations that check them on small instances, and TLAPS proofs of what
matters most. Paths below are relative to the repository (`src/...` is its own
source directory).

    tlc -config CartCheckout_basket.cfg MC_CartCheckout      # any run, see "Runs"
    tlapm CartCheckout_proofs.tla                            # any of the eight *_proofs modules

Contents: [inventory](#inventory), [how the program runs](#how-the-program-runs),
[modules](#modules), [runs](#runs), [findings](#findings), [fairness](#fairness),
[proofs](#proofs), [limits](#what-is-not-covered), [plan](#plan).

## Inventory

| Component | State it keeps | Operations that change it | What must hold | Model |
|---|---|---|---|---|
| **Cart** `src/cart` | `Cart` (status, customer), `CartItem` | start, addBarcode, updateQuantity, priceOverride, attachCustomer, preparePayment | a cart that was totalled does not change before it is paid; lines never ask for more than a guarded product has | CartCheckout |
| **Checkout** `src/transaction` | `Transaction`, items, `Payment`, `Receipt`; writes `Product.currentQuantity`, `InventoryLog`, `Cart.status` | checkout, with up to five attempts on a receipt-number conflict | a cart is sold once; stock is never oversold; receipt numbers are unique and can be generated; the log is truthful; every request is answered | CartCheckout |
| **Inventory** `src/product` | `Product.currentQuantity`, `InventoryLog` | receive, adjust, manual edit; also posting a purchase and selling | guarded stock never negative; log explains stock | StockLedger |
| **Purchases** `src/purchase/purchase.service.ts` | `Purchase` (status, inventoryPostedAt, updatedAt), `PurchaseItem` | create, update, post movements | movements add up to the present items; verified and voided purchases are final; an edit does not overwrite one its clerk had not seen | Purchasing |
| **Vendor orders** `src/purchase/vendor-orders.service.ts` | `VendorOrder`, lines with ordered and received quantities | generate, update, send, receive | what is received is booked, once, and within the order | VendorOrders |
| **Registers** `src/registers` | `Register`, `RegisterActivationCode`, `RegisterDevice` | create, edit, revoke registers and devices, request a code, activate | a code makes one device; the devices of a revoked register stay out | Registers |
| **Billing** `src/billing` | `StoreSubscription`, `StoreFeature`, `StoreServiceSubscription`, `StripeWebhookEvent`; Stripe's sessions and subscriptions | create checkout, add and remove loyalty, handle webhooks | one session is open at a time; paid features follow from events used once and states Stripe told | Billing, Entitlements |
| **Stores** `src/store` | `Store.isActive`, the owner's `Subscription` | create, activate, remove, change the plan; webhooks activate too | the owner is billed for the active stores, within the plan's limit | Stores |
| **Customers and tiers** `src/customer` | `CustomerStore.currentTierRuleId`, `CustomerTierRule` | recalculation by checkouts and by staff, new rules | a tier was earned, and is the best one where nothing came between | Tiers |
| **Loyalty** `src/loyalty` | programs and their eligible rows | create, update | a program has the rows it needs, those of the last update | Replacement |
| **Multi-packs** `src/multi-pack` | `ProductMultiPack`, `MultiPackProposal` | submit, edit, reject, approve one, approve a batch | no two packs on sale alike; versions count writes; decided proposals stay decided | MultiPack |
| **Promotions** `src/promotion` | promotions and products | create, edit, start, pause, archive, remove; evaluation | running promotions are complete; discounts of the lines are those of the promotions | Replacement, Promotions |
| **Product catalogue** `src/product` | products, departments, categories, taxes, reasons | create, update, delete of each | a product's category is of its department; what is in use was not deleted; names differ | Catalogue, SetupNames |
| **Price groups** `src/product` | `PriceGroup`, with a cached mismatch count | changes of products and groups, recounts, a timer | the count is the count, at the latest after the timer | PriceGroups |
| **Authentication** `src/auth` | account, `EmailVerificationToken`, `PasswordResetToken` | register, change the address, verify, reset | a link works once; an account is verified for the address it has | Accounts |
| **Permissions** `src/permissions` | rows of a member of staff | replace | the rows are those of one update | Replacement |
| **Taxes and amounts** `src/common`, `src/cart`, `src/transaction` | none | calculation of a cart, a sale and an enquiry | they agree, and the lines add up | Pricing |
| Payees `src/purchase` | `Payee` | create, update | unique names (an index) | none: single-row writes |
| Audit, dashboard, request validation, scripts | append-only audit rows; nothing else | none that decides anything | | not modelled |
| Schema `prisma` | constraints | | | constraints are part of the modules that meet them |

**How they interact.** There are no queues and no in-process state: components
meet in the database's rows. A checkout reads what the cart service wrote and
writes `Product.currentQuantity`, which receiving, adjusting, editing and posting
purchases write as well; receiving an order calls the purchase service; the
tiers are computed from transactions. Stripe is the only remote party, and one
timer (the refresh of the price groups) the only thing that happens unasked.

**What is hard.** Each line below is listed with its place in the code under
`hazards` in PROJECT.json, with the properties that would catch it going wrong.

- Two checkouts of one cart, or a checkout and a scan, interleave.
- Stock is judged by three guards at different times and then written.
- Products are locked one by one in cart order, so checkouts can deadlock.
- A receipt number is a count plus one: two checkouts count the same, and a
  checkout that counted before midnight may be created after it.
- A conflict throws the whole transaction away and runs it again on rows that
  changed meanwhile.
- Most writers of the stock compute absolute quantities from unlocked reads.
- A purchase's version check and "not posted yet" check are reads without a lock.
- Receiving an order takes two transactions, and a server may fail in between.
- Stripe is called between statements: a server may stop after Stripe has acted
  and before a row says so. Its events come late, repeatedly and in any order, and
  each overwrites the store's state with the one it tells.
- Activation of a register, a multi-pack's approval and a link's use check rows
  before the transaction that writes them.
- Rows of programs, promotions and permissions are replaced by a DELETE that does
  not see what another request inserts at the same time.
- A price group's count is recounted after the commit, in three statements.
- Amounts are calculated by three pieces of code, rounded line by line.

## How the program runs

All models share one picture. A *terminal* or *clerk* has at most one HTTP request
in flight; each request is handled by some server process, independently of the
others. Its handler runs statements against PostgreSQL at READ COMMITTED, the
isolation level Prisma leaves in place. Hence:

- every statement sees what was committed when it starts, so two statements of a
  transaction may see different states, and each read of shared rows is a step of
  its own, except where the row is locked and cannot change;
- `SELECT ... FOR UPDATE` and `UPDATE` take a row lock that is kept to the end of
  the transaction; a request that needs it waits;
- writes of an open transaction are invisible to others. They are applied by the
  step that commits, or kept in a variable of the clerk (`staged`) when the
  order of the writes matters;
- a failed check, a lost connection or a crashed server rolls the transaction
  back. It is one action (`Abort`, `Rollback`, `Fail`), possible at any time
  before the commit.

Access checks, validation of the request and formatting come first in every
handler and decide nothing later; a model starts behind them.

## Modules

| Module | Lines of the code | State | Extends |
|---|---|---|---|
| `PosData` | line arithmetic of the cart and the effect of a sale on stock and log | none: operators | |
| `SalesDesk` | **abstract**: each successful request of cart and checkout in one step | the committed rows | `PosData` |
| `CartCheckout` | `cart.service.ts`, `transaction.service.ts` checkout, `product.service.ts` archiving | committed rows, row locks, and the requests' reads | `PosData`, instance of `SalesDesk` |
| `StockLedger` | every writer of `currentQuantity` and `InventoryLog` | committed rows, staged writes, reads | |
| `Purchasing` | `createStorePurchase`, `updateStorePurchase`, posting | purchase, items, movements, reads | |
| `VendorOrders` | `generateOrders`, `updateOrder`, `sendOrder`, `receiveOrder` | order, booked cases, reads | |
| `Billing` | `billing.service.ts`: checkout, loyalty service, webhooks | rows of one store, Stripe's sessions and events, requests in flight | instance of `Entitlements` |
| `Entitlements` | **abstract**: when the paid features of a store may change | features, used events, past states | |
| `Stores` | `store.service.ts`, the activation by webhooks, `updateOwnerBilling` | stores and bill of one owner, transactions | |
| `Accounts` | `auth.service.ts` | account, links, requests | |
| `Registers` | `registers.service.ts` | registers, codes, devices, requests | |
| `Catalogue` | relations between products, departments, categories and taxes in `product.service.ts` | rows, requests | |
| `SetupNames` | the name checks of `product.service.ts` and the unique indexes | one table's names, requests | |
| `Replacement` | `loyalty.service.ts`, `promotion.service.ts`, `permissions.service.ts` | one record and its rows, edits | |
| `MultiPack` | `multi-pack.service.ts` | packs, proposals, staged packs, requests | |
| `BackOffice` | composes the eight modules from `Billing` on | `desk` and theirs | all of them |
| `PriceGroups` | price groups in `product.service.ts` and the refresh service | products, groups, jobs | |
| `Promotions` | `promotion-evaluation.service.ts` | candidates, winners, answer | |
| `Pricing` | `tax-calculation.service.ts` and the amounts in cart, checkout and enquiry | a bill and its amounts | |
| `Tiers` | tier rules in `customer.service.ts` and in the checkout | rules, spending, tiers, what is in flight | |
| `StoreFront` | composes these four | `desk` and theirs | all of them |
| `CartCheckout_proofs` | theorems of the sale: stock and receipt numbers; locks, records and the refinement of `SalesDesk` | | `CartCheckout` |
| `StockLedger_proofs`, `Purchasing_proofs`, `VendorOrders_proofs`, `Billing_proofs`, `Pricing_proofs` | theorems of the module they are named after; `Pricing_proofs` begins with the lemmas on sums over finite sets and on division | | that module |
| `BackOffice_proofs` | theorems of `Stores`, `Registers`, `SetupNames`, `Replacement`, `Accounts`, `Catalogue`, `MultiPack`, and of their composition with `Billing` | | `BackOffice`, `Billing_proofs` |
| `StoreFront_proofs` | theorems of `Tiers`, `PriceGroups`, `Promotions`, and of their composition with `Pricing` | | `StoreFront`, `Pricing_proofs` |
| `MC_*` | values for TLC | | |

**Desks.** `BackOffice` and `StoreFront` compose modules that share no rows in what they
are modelled with: a renamed department does not change a webhook. Whatever an
interleaving of two of them could show is shown by each alone, so a behaviour
picks a `desk` at the start and stays there; the others rest in their initial
states. Where rows are shared, the interleaving is inside one module: stores activated by
their owner and by webhooks are both in `Stores`, all writers of stock are in `StockLedger`,
a tier assigned by a checkout and by staff are both in `Tiers`.

PROJECT.json's `map` names the lines each definition stands for. Each module looks
at the shared rows from one side: CartCheckout follows the sale statement by
statement and no other writer of the stock; StockLedger follows all writers, with
a sale as "lock, read, write"; Purchasing follows the items and the amounts booked
for one purchase and leaves quantities on hand to StockLedger; VendorOrders takes
"a posted purchase was created" as one step.

### CartCheckout

| Action | Code |
|---|---|
| `Start`, `PriceOverride`, `AttachCustomer`, `RemoveProduct` | the handlers of that name: one guarded write each, hence one step |
| `Submit` | a request of addBarcode, updateQuantity, preparePayment or checkout arrives |
| `LockCart` | `lockCart`: FOR UPDATE of the cart, then the checks on its status and items |
| `LockProduct` | `getAndLockProduct` in the order of the lines: FOR UPDATE, then the checks on isActive and stock |
| `SaveLine`, `SetReady` | the write of addBarcode and updateQuantity, and of preparePayment, and the commit |
| `GenerateReceiptNumber` | count of today's transactions plus one |
| `CreateTransaction` | the engine stamps `createdAt`, perhaps on the next day |
| `InsertTransaction` | INSERT of the transaction row: waits for an uncommitted equal number, fails on a committed one (P2002), and then `Retry` |
| `CompleteSale` | payments, decrement with its guard, log rows, cart completed, commit |
| `Abort` | a check failed or the connection was lost |
| `DetectDeadlock` | PostgreSQL aborts one request of a cycle of waits |
| `Midnight` | the servers' clock enters the next day |

`seen` holds the quantity read under each product lock; the checkout uses it
several statements later in the log rows. `SalesDesk` is what a user of the shop
would say happens: `RequestsAreAtomic` says that under the identity mapping of the
committed rows each step of `CartCheckout` is one step of `SalesDesk` or none.

### StockLedger

`Begin` takes a request with its items; a manual edit reads its product there,
before its transaction. `ReadItem` reads the item at hand, under the row lock for
a sale and without it otherwise. `WriteItem` waits for the row lock and stages the
new quantity and the log row. `Commit` publishes, `Rollback` gives up.
A manual edit sets an absolute quantity, never below zero, and is logged only if it differs
from what it read; the others write *read + amount*. Receiving only adds; a sale,
an adjustment or a purchase that would end below zero is refused unless the
product allows it. Two history variables record what no row tells: `overtaken`, the
clerks for whose item the quantity changed since the read, and `drifted`, the
products written from such a read.

### Purchasing

An edit reads the purchase row and then its items in two statements, checks
status and `updatedAt`, deletes the items it replaces (a DELETE chooses rows by its
snapshot and then waits for those another edit deletes), and in `Save` updates
the row, inserts items and posts the difference between the items it read and the
items it finds. From the UPDATE to the commit the edit is one step, because every edit goes
through that row's lock. `raced` records that an edit was saved over one it had
not read.

### VendorOrders

Each request reads the order row and then its lines, outside any transaction, and judges by
that. Receiving books the difference in `BuyReceived` (the purchase's own
transaction), then starts a second transaction that writes the lines, looks at all
lines afresh and sets the status in `RecordOrder`. `Fail` ends a request anywhere.
`version`, `raced` and `unrecorded` are history variables: commits to the order,
a write over a version that was not read, and a purchase whose request failed
before it was recorded.

### Billing, Stores

`Billing` follows one store. `PaySession`, `ExpireSession` and `SubscriptionPaid` are
Stripe: a session becomes a subscription, which changes its state and sends events; an event
of an invoice tells no state and the webhook asks Stripe for it (`RetrieveSubscription`).
`AskCheckout`, `RetrieveSession`, `SaveAttempt`, `CreateSession` and `StoreSession` are
`createCheckoutSession`, one step per statement and per call of Stripe; `AskService` to
`DisableLoyalty` add and remove the loyalty service. `Deliver` hands any event not recorded
yet to a webhook, also while another one has it; `SyncSubscription` and
`CheckoutCompleted` are its transactions. `BreakOff` is a crash or a failing call
at any step: what Stripe has done stays done. `ServiceItemAgain` is Stripe's answer to a
key it has seen: nothing is added again. `excused` records overlapping clicks, a changed plan,
a session that could not be retrieved, a crash in an attempt after an expired
session, and a completed session that is linked over an open one: in these cases the code does
make a second session. Two pairs of statements are one step, as nothing in between can change what
is said here: `AskService` reads the store and its row and writes the service's row
(`billing.service.ts:142` and `:168`), `RemoveServiceItem` reads the row and asks Stripe to delete
the item (`:222` and `:231`).

`Entitlements` is what the owner relies on: features change when an event not used before tells
a state the subscription was in, or are given up. `KeepsPromise` says that `Billing` implements
it under the identity mapping of `features`, `seen` and `past`.

`Stores` has the transactions that write a store, count the active ones and bill the owner for
that count: `WriteStore`, `CountStores` (which sees the transaction's own write), `BillOwner`
with COMMIT. `mixed` records that one committed after another had come between;
two overlapping ones may each count without the other.

### Registers, Accounts

`FindCode` is what an activation reads before its transaction, `Activate` the transaction,
whose first UPDATE claims the code only if it is unused. `RetireCodes` and `RevokeDevices`
choose rows by their snapshot and hold them until `CreateCode` and `RevokeRegister` commit.
`barred` is a history variable: the devices there were when a revocation that succeeded
was asked for.

`Accounts` has the two kinds of mailed links; the mail is sent after the transaction, and may
fail. `used` and `proven` are history variables: claims of a link, and the address whose
link verified the account. `disturbed` records overlapping or broken off requests.

### Catalogue, SetupNames, Replacement, MultiPack

In `Catalogue` each request checks rows (`RelationsFit`, `MayMove`, `NotInUse`) and then writes
one row in `Save`. One request is in flight at a time in its run, because its property speaks
of sequences of requests; `entangled` would excuse overlaps. `SetupNames` asks which names pass the
check (`NameAvailable`) and then the index (`Unique`); `rushed` and `loose` mark overlaps and rows
whose name or department was set by a path that compares nothing.

`Replacement` is one record, of a `kind` chosen at the start, with rows that an update deletes
(`DeleteRows`, by its snapshot) and creates anew (`Replace`). `clashed` records overlaps.

`MultiPack` has a step for the checks of a request, one for the write of a pack, which is
`staged` and keeps its row locked, and one that commits. A batch counts, locks, checks and applies
its proposals one by one. Two proposals are the same if packs, quantities and price are.
`SameVersion` is the comparison of a proposal's version with its pack's. `raced` records overlaps;
`writes` and `applied` count commits.

### PriceGroups, Promotions, Pricing, Tiers

`PriceGroups`: a change commits and leaves groups to recount; `ReadDefault`, `CountProducts` and
`StoreCount` are the statements of a recount; `SkipRecount` and `Restart` lose it; `Refresh` is the
timer. `crossed` records that two of them were at work at once. `Updated` writes the fields that a
request sent.

`Promotions`: `Calculate` computes each promotion's candidate, `Compete` lets them take places in
the order of their priority, `Answer` shares what the winners give out to the lines. Lines are named
by their places, and what the code adds up in a loop is a sum over a set of places. The code takes
the units of a reward from its lines in the order of their price until none are left;
`UnitsOff` says the same of each line at once: it gives the units that the lines before it
(`CheaperThan`) have not given.
`Pricing`: `ShareDiscount` gives each line its share, `Total` is the checkout, `ShowCart` the cart,
`Quote` the enquiry of a client; a tax or a tier may change in between. The cart calculates with a
copy of its own (`cart.service.ts`), which is translated by itself: `CartShare` to `CartAmounts`;
`SameAmounts` compares what it shows with what is charged. Prices are in
cents and discounts in hundredths of a cent; `RoundedDiv` is the rounding of the code.
`Tiers`: `CalculateTier` reads spending and rules in one step, `Assign` commits; `bought` and
`current` are history variables. A purchase or a rule that comes between the two reads of the code
comes between `CalculateTier` and `Assign` here, which makes the tier no longer fresh; what counts as
earned only grows.

## Runs

"pass" runs are exhaustive; the largest has 1.7 million distinct states, the
slowest takes a minute or two.

| Run | Instance | Question |
|---|---|---|
| `basket` | 2 terminals, 2 carts, 2 products with one unit each, all requests, a product may be archived, one attempt | Does the row locking work? `NoOversell`, `ReadyCartFrozen`; `DeadlockNeedsBaskets`: a deadlock needs two requests over several products; `RequestsAreAtomic`: every interleaving is one of `SalesDesk`. |
| `numbers` | 3 carts, two days, up to 3 attempts, carts buying different products | Receipt numbers and retries: `SoldOnce`, `NextReceiptNumberFree`, `OneSaleAtATime`, `RetriesMeanSales`. |
| `counter` | quantities 1 and 2, overridden prices, a customer, a product that may go negative, stock 3 and 0 | Is the record right? `LogExplainsStock`, `SaleMatchesCart`, `CheckedStockIsCurrent`. |
| `answered` | 2 terminals, 2 carts, 2 attempts, fair | `RequestAnswered`: each request ends. |
| `writers` | 2 clerks, a guarded product with one unit and one that may go negative, six orders of one or two items, 3 log rows a product | All writers of stock: `NeverBelowZero`, `LogExplainsUndriftedStock`, `SaleRowsTrue`. |
| `edits` | 2 clerks, lines of 2x2 bought and 1 returned, seven kinds of change, two saved edits after the creation | `MovementsMatchItems`, `FinalPurchaseKept`. |
| `opened` | as `edits` | violation, see findings |
| `clerks` | 2 clerks, an order of 2+1 cases, 2 commits, 2 purchases | `ReceivedWasBought`, `BoughtIsReceived`, `ClosedOrderKept`, `ReceivedIsComplete`. |
| `retry` | as `clerks`, with one clerk | violation, see findings |
| `back_office` | two requests in flight at every desk (one in the catalogue), about 640 thousand states | Billing: `OneOpenSession`, `KeepsPromise`. Stores: `BilledStoresAreActive`. Accounts: `VerifiedIsProven`, `LinksWorkOnce`. Registers: `CodeMakesOneDevice`, `RevokedStayOut`. `ReferencesFit`, `NamesDiffer`, `RecordIsComplete`. MultiPack: `ActivePacksDiffer`, `VersionsGuardPacks`, `DecisionsHold`. |
| `store_front` | two people and the timer at one group and one product; baskets of up to two lines against up to three promotions; bills of up to three lines; two stores and three tier rules; fair; about 470 thousand states | `CountFollowsChanges`, `CountCatchesUp`, `DiscountsAddUp`, `AmountsAgree`, `TierIsRight` |
| `rivals` | the promotions of `store_front` | violation, see findings |

The type invariant of CartCheckout is checked by `basket`; the types of the other modules are proved, as the first part of their inductive invariants. Every property of a passing
run has a mutant: a plausible bug in a mapped definition (a dropped lock, a
swapped order, a check before the lock, a missing reset) under which TLC finds
the property violated within the same bounds.

**Why the bounds are enough.** The rows that matter are a cart, a product, a
receipt number, a purchase or an order, and the conflicts are between two requests
over one or two of them: two actors with two rows reach every pairwise race
and the shortest deadlock. A product with one unit makes every lost update a
boundary case; a product that may go negative takes the other branch of each
guard. One midnight gives the three situations of a receipt number: before,
across, after. Three attempts over three carts let a request lose twice and still
win. Two commits after the creation let an edit be checked, overtaken and saved.
`MaxAttempts` is 5 in the code: the theorems hold for any value. Bounds are the constants
commented "bound" in each module: `Workload`, `Removable`, `LastDay`,
`MaxQuantity`, `Orders`, `MaxRows`, `Lines`, `Changes`, `MaxVersion`,
`Suggested`, `Asked`, `NewStatuses`, `MaxBought`; the first bounds of each list
restrict which requests are made, the `Max...` ones how often.

At the desks: two sessions and three events at Stripe (a session, its payment and one change,
with one plan; a new store and one that has subscribed are both starts), two stores with a limit of
one, two links, one register with two codes that may look the same, two departments
and two taxes with one category and one product, two names that differ in capitals or spaces only,
a record with one row, one pack that was deactivated and proposals that meet in its
barcode, two committed changes and one failure in the price groups, purchases of up to two units per
store. Their bounds are `MaxSessions`, `MaxEvents`, `MaxStores`, `MaxLinks`, `MaxCodes`,
`CandidateLimit` (100 in the code: with one, a newer code hides the older), `MaxProposals`,
`PackDtos`, `GoodsDtos`, `MaxChanges`, `MaxFailures`, `LineLists`, `OfferLists`, `BilledLines`,
`Discounts`, `Rates`, `TierRules`, `MaxSpend`. A change of plan, which one plan cannot show, is
covered by the theorems of Billing.

Symmetry is over terminals or clerks, and in `back_office` over requests, pairs of rows and
taxes; it is not used for liveness, hence not in `store_front`. In the
`opened` and `retry` runs the conflict is between requests as such, so they use
the smallest instance that shows it.

**What `raced`, `drifted`, `unrecorded` and their like do.** `MovementsMatchItems`,
`LogExplainsUndriftedStock`, `BoughtIsReceived`, and those that mention `mixed`, `excused`,
`disturbed`, `entangled`, `rushed`, `loose`, `clashed` or `crossed`, are false of the
code once two requests really overtake each other: the code reads without locks. The
history variables say exactly when that happened, so the properties state what
the code does guarantee: all other interleavings, failures and refusals leave
the rows right. The case they exclude is the one the two findings and the hazards
are about. `FinalPurchaseKept`, `ClosedOrderKept` and `ReceivedIsComplete` need no such variable:
they name the one request that may do harm, by what it has read, so that races before it excuse
nothing. Properties without an exception (`NeverBelowZero`, `SaleRowsTrue`,
`ReceivedWasBought`, `KeepsPromise`, `CodeMakesOneDevice`, `RevokedStayOut`, `LinksWorkOnce`,
the counting half of `VersionsGuardPacks`, `TierIsRight`, `CountCatchesUp`, the first half of `DecisionsHold`, and
everything of CartCheckout) hold through all races.

## Findings

- **Purchases are saved over edits nobody saw** (`opened`, `SavedOverWhatWasOpened`).
  `updateStorePurchase` compares the `updatedAt` a clerk opened with a row read
  without a lock, and its UPDATE names only the id (`src/purchase/purchase.service.ts:458`).
  Two edits that name the same version both pass and are both saved, although the
  message at line 463 says "This purchase has changed since it was opened." Two such
  edits may also both find `inventoryPostedAt` null and book the items twice, and
  an edit can be saved over a purchase that was verified in between.
- **A repeated receipt books the same cases again** (`retry`, `BoughtWithinOrder`).
  `receiveOrder` creates the posted purchase in one transaction and records the
  received quantities in another (`src/purchase/vendor-orders.service.ts:570`). When
  the second fails, the order does not know of the first; the clerk's retry is compared
  with the old quantities and books them once more, beyond what line 553 allows
  ("quantityReceived cannot exceed ordered quantity").
- **A promotion that is not stackable is combined with others** (`rivals`, `StackableOnly`).
  `evaluate` looks for all applied promotions that conflict with a candidate, but lets
  the candidate replace only the first of them
  (`src/promotion/promotion-evaluation.service.ts:45`): when two stackable promotions are
  applied and a third, not stackable, beats the first, it stays beside the second. The
  test at `src/promotion/promotion-evaluation.service.spec.ts:83` is titled "combines
  promotions only when both are stackable".

Observed and not counted as findings, because no text in the repository contradicts
them: a ready cart cannot become active again, so a cart whose stock went
elsewhere can be neither paid nor changed; logs drift from the stock when a
receipt or an edit is overtaken by a sale; a voided purchase counts as posted and
keeps its movements; a receipt that names a line twice books it twice; loyalty
that is removed and added again within a day gets Stripe's old answer and stays pending; a
second session is opened in the cases `excused` lists; a register revoked while an activation
is under way is active again, though its old devices stay out; a category that is
moved without a name, and a department of the older route, skip the comparison of
names; the last line of a bill may get a negative share of an order's discount.

## Fairness

`FairSpec` of CartCheckout assumes, per terminal:

- `WF(Step)`: a server goes on executing a handler whose next statement can run;
- `SF` of `LockCart`, `LockProduct` and `InsertTransaction`: a request that waits
  for a row or a pending unique key gets it if it becomes free again and again:
  PostgreSQL queues the waiters of a lock, so later arrivals do not pass
  one for ever;
- `WF(DetectDeadlock)`: PostgreSQL looks for cycles after `deadlock_timeout`.

Nothing obliges a user to submit a request, a connection to break, a clock to
reach midnight, or a clerk to archive a product.

`GroupFairness` of PriceGroups assumes `WF(Refresh)`, because `setInterval` fires again and again as
long as a server runs, and `WF(Carry)` for each person and the timer: a handler whose next
statement can run goes on. Failures and restarts are not obliged to happen; they are
bounded by `MaxFailures` and changes by `MaxChanges`, which is what "once changes stop" means.
`FrontFairness` states it for behaviours at that desk. The other modules have safety
properties only: their requests wait for row locks alone.

## Proofs

TLC covers the instances above; the theorems hold for any number of terminals, clerks,
carts, products, requests, attempts, days, sessions, stores, links, rows, packs, groups, promotions
and lines. Every
property of a passing run that is not about liveness is proved. All proofs have one shape: *Init implies the invariant*, *each
action preserves it* with a lemma or a case per action, *the invariant implies the
property*, and a temporal step. "Why" says which part the property alone lacks.

**The sale** (`CartCheckout_proofs`)

| Theorem | States | Inductive invariant, and why |
|---|---|---|
| `TypeCorrect` | `Spec => []TypeOK` | `TypeInv`: the types, and what a program counter implies: which kind of request stands there, that `seen` is no longer than `lines`, that a sale being inserted has a receipt |
| `NeverOversold` | `Spec => []NoOversell` | `TypeInv` suffices: the decrement in `CompleteSale` is guarded, and what it subtracts from a product is the quantity its guard compared (`StockAfterValue`, `SaleKeepsStock`) |
| `CheckedStockStays` | `Spec => []CheckedStockIsCurrent` | `SeenInv` adds `SeenIsLocked`: a quantity seen is of a product this terminal has locked. Nothing else would stop another sale from changing that product |
| `NextNumberFree` | `Spec => []NextReceiptNumberFree` | `NumberInv` adds that no transaction is dated after today, that a number in hand is at most its day's count plus one, and that numbers at the insert are nobody else's. The number is used after other sales were committed, and possibly after midnight |
| `LocksHold` | `Spec => []LockInv` | `LockInv` adds to `SeenInv` that who runs holds its cart's lock and knows its lines and status (`CartsAreCurrent`), that who holds a lock runs (`HoldersRun`), and that a product found in the catalogue stays there (`SeenIsActive`) |
| `ReadyCartsFrozen` | `Spec => ReadyCartFrozen` | `LockInv`: an edit that commits late was admitted when the cart was active, and still has its lock |
| `SalesInvariant`, `CartsSoldOnce`, `SalesMatchCarts`, `LogsExplainStock` | `Spec => []SaleInv` and its parts `SoldOnce`, `SaleMatchesCart`, `LogExplainsStock` | `SaleInv`: the three need each other and `LockInv`, as a sale writes what was read many steps before |
| `RequestsAtomic` | `Spec => RequestsAreAtomic` | the refinement of `SalesDesk`: under `SaleInv` and `NumberInv` each step is one step of `SalesDesk` (`SaveLine`, `SetReady`, `CompleteSale` and the one-statement requests) or leaves the committed rows alone |
| `SalesOneAtATime`, `RetriesNeedSales` | `Spec => []OneSaleAtATime`, `Spec => []RetriesMeanSales` | `ReceiptInv`: adds that the numbers of a day run from one without a gap while all of them were created on it (`DaysGapless`), that a count of a day only grows, and that a number taken since it was computed means another sale (`TakenMeansSold`) |
| `DeadlocksNeedBaskets` | `Spec => []DeadlockNeedsBaskets` | `LockInv`: nobody waits for a request that waits for its cart, and who waits for a receipt number waits for one that waits for nobody; so in a cycle each waits for a product, and has locked another |

**Stock, purchases, orders**

| Theorem | States | Inductive invariant, and why |
|---|---|---|
| `StockNeverNegative` | `LedgerSpec => []NeverBelowZero` | `LedgerInv`: `NoneBelowZero` speaks of the *staged* quantities as well, since a commit publishes what was staged earlier |
| `LogsExplainUndrifted` | `LedgerSpec => []LogExplainsUndriftedStock` | `HistoryInv`: a product is written by one request at a time (`HoldersApart`), what a request read is so unless it was overtaken (`ReadIsCurrent`), and its uncommitted rows lead from the quantity on hand to the one it staged (`RowsLead`) |
| `SaleRowsAreTrue` | `LedgerSpec => []SaleRowsTrue` | `SaleInv`: a sale keeps what it reads locked, and its items are of different products, so that a row is written from what the sale locked |
| `PurchaseInvariant`, `MovementsFollowItems`, `FinalPurchasesStay` | `PurchaseSpec => []PurchaseInv`, `[]MovementsMatchItems`, `FinalPurchaseKept` | `PurchaseInv`: an edit that read the present version knows the row and, once it has read them, the items (`RowRead`, `ItemsRead`), and judged a purchase that was not final (`Checked`). The sums of units are whole numbers: see below |
| `VendorOrdersInvariant`, `ClaimsWereBought`, `ClosedOrdersStay`, `ClosedOrdersAreComplete` | `VendorSpec => []VendorInv`, `[]ReceivedWasBought`, `ClosedOrderKept`, `ReceivedIsComplete` | `VendorInv`: what a request read was so at some commit, and is if that was the last; nothing it read, or is about to record, exceeds what was bought; what it counted complete is complete; it judged an order that was open (`JudgedOK`) |
| `PurchasesAgree` | `VendorSpec => []BoughtIsReceived` | `AgreeInv`: while nothing was overtaken or lost, what a request bought and has to record is exactly what was missing, or another has bought for the same line (`BookedOnce`) |

**The back office** (`Billing_proofs`, `BackOffice_proofs`)

| Theorem | States | Inductive invariant, and why |
|---|---|---|
| `RegistersInvariant`, `CodesMakeOneDevice`, `RevokedDevicesStayOut` | `RegisterSpec => []RegisterInv`, `[]CodeMakesOneDevice`, `[]RevokedStayOut` | `RegisterInv`: the code of a device is not live (`CodesAreSpent` keeps a second activation out); devices still active are among those the UPDATE of a revocation chose (`ExistingAreChosen`), and barred ones are off |
| `BillingInvariant`, `PromiseKept` | `BillingSpec => []BillingInv`, `BillingSpec => KeepsPromise` | `BillingInv`: whatever is written down was told by Stripe: sessions, events, requests and rows name paid subscriptions and states in `past`. A webhook uses its state many steps after it was read. Then each step of Billing is one of Entitlements or leaves its variables alone |
| `OneSessionOpen` | `BillingSpec => []OneOpenSession` | `SessionInv`: an open session is named by the row, or comes back for the key that was saved, or is in the hands of the one request that is to store it (`OpenReached`, `FirstAgain`, `KeySaved`, `OneCheckout`) |
| `OwnersPayForActiveStores` | `ShopSpec => []BilledStoresAreActive` | `ShopInv`: while no other commits, a transaction's count is that of what it sees, and an owner who passed the limit's check still has room |
| `NamesStayApart` | `NamesSpec => []NamesDiffer` | `NamesInv`: while nobody else succeeds, the name a request compared is free (`StillAvailable`); a name with spaces to drop went the older way (`SpacedAreLoose`), which is why departments may pass over such names |
| `RecordsStayComplete` | `ReplacementSpec => []RecordIsComplete` | `ReplacementInv`: an edit writes what was checked to be complete; while nobody else succeeds its DELETE has seen every row (`DeleteSawAll`) and a promotion about to run is as it was checked |
| `AccountsInvariant`, `LinksAreUsedOnce`, `AddressesAreProven` | `AccountSpec => []AccountInv`, `[]LinksWorkOnce`, `[]VerifiedIsProven` | `AccountInv`: a claimed link is gone; undisturbed, every link to verify is for the present address, unless the request that changed it has yet to delete or replace it (`LinksAreForAddress`) |
| `CatalogueInvariant`, `ProductsFitTheirRows` | `CatalogueSpec => []CatalogueInv`, `[]ReferencesFit` | `CatalogueInv`: deleted rows are inactive, which is why checking that a row is in use suffices; and until another request succeeds, what a request has checked would leave products that fit (`CheckFits`). The run has one request at a time; the theorem has any number |
| `PacksInvariant`, `PackVersionsGuard`, `PacksOnSaleDiffer`, `DecisionsStand` | `PackSpec => []PackInv`, `[]VersionsGuardPacks`, `[]ActivePacksDiffer`, `DecisionsHold` | `PackInv`: no two transactions hold a row (`HeldOnce`), a staged pack is one version further (`StagedIsNext`), no claim is for a version of the future (`TargetsAreThere`), so that a batch writes no pack twice (`TargetIsFresh`); the proposals a batch locked are as it read them (`BatchIsLocked`); unless others commit, the packs it sees differ and will with the one it is to write (`SeenApart`, `ClaimFits`); and what it is about to write, or has staged, is the proposal as it was made, for the version it was made for (`ClaimIsCurrent`, `StagedIsCurrent`) |
| `DesksKeepTheirSpecs`, `OfficeIsSafe` | `OfficeSpec` implies the specification of each component, and with it what is proved above | none: each step is one of the component at the desk and a stutter of the others |

**The store front** (`Pricing_proofs`, `StoreFront_proofs`)

| Theorem | States | Inductive invariant, and why |
|---|---|---|
| `TierInvariant`, `TiersAreRight` | `TierSpec => []TierInv`, `[]TierIsRight` | `TierInv`: a tier is assigned after it was calculated, so what is in flight must be earned with the purchase it makes, and be the best rule for as long as it is fresh (`SaleIsRight`); what counts now is no more than what was ever bought, which is why a tier that was earned stays so |
| `GroupInvariant`, `CountsFollowChanges` | `GroupSpec => []GroupInv`, `[]CountFollowsChanges` | `GroupInv`: a product that is to be changed is still there (`ItemsExist`); and until something crosses or fails, one request or recount is at work (`OneAtATime`), what it read is so (`ReadIsTrue`), and the count of every group it has not still to recount is right (`CountsAreRight`) |
| `PricingInvariant`, `AmountsAlwaysAgree` | `PricingSpec => []PricingInv`, `[]AmountsAgree` | `PricingInv`: the shares given so far are those of the first lines of the present bill (`SharesUpTo`), so that cart, checkout and quote have calculated from the same. The rest is arithmetic: every line's share but the last is rounded, so that the last gets what is left, perhaps less than nothing, and is half a cent a line off at most (`EarlyIsNear`, `RestIsRounded`, `RestIsCapped`, `OrderSharesItsDiscount`); shares of lines by themselves add up as they are (`LinesShareAlone`). That the cart's copy of the calculation agrees with the checkout's is proved (`CartTakesOff`, `CartShowsReceipt`) |
| `PromotionInvariant`, `DiscountsAlwaysAddUp` | `PromotionSpec => []PromotionInv`, `[]DiscountsAddUp` | `PromotionInv`: whoever competes or holds a place is a candidate whose total is its own discounts rounded (`RightCandidate`), and a line gets the discount of its product. The sum over lines of the sums over promotions is then exchanged (`SumsExchange`) and read over products (`SumRenamed`), with half a cent for each line and each promotion |
| `FrontKeepsItsSpecs`, `FrontIsSafe` | `FrontSpec` implies the specification of each component, and the four properties together | none. The fairness of price groups holds at their desk only, so for them it implies `GroupInit /\ [][GroupNext]_groupVars` |

Facts used in several proofs are lemmas: about lines and sales (`LineOfFound`, `AddedLineType`,
`StockAfterValue`), about logs (`OneMoreRow`), about counts (`ShopsCount`, `CountType`),
about updating a row (`UpdatedItem`) and about keeping an invariant that others do not
touch (`EndKeepsCarts`, `OthersKept`, `OthersRead`, `SaleKept`), about sums of a function over a finite
set, which are monotone, additive and scale (`SumOverElement`, `SumOverMonotone`, `SumOverAdded`,
`SumOverScaled`, `SumOverConstant`), and about dividing and rounding (`DivBounds`,
`RoundedBounds`, `MoneyBounds`).

**Assumptions.** One for each module with constants that need it: `PosDataAssumption`,
`CartCheckoutAssumption`, `StockLedgerAssumption`, `PurchasingAssumption`,
`VendorOrdersAssumption`, `RegisterAssumption`, `BillingAssumption`, `NothingAssumption`,
`ShopAssumption`, `LinkAssumption`, `VisitAssumption`, `KindAssumption`,
`CatalogueAssumption`, `PackAssumption`, `DeskAssumption`, `PriceGroupAssumption`,
`PromotionAssumption`, `PricingAssumption`, `TierAssumption`, `FrontDeskAssumption`. They type the constants and bounds; they keep
markers such as `NoOne` apart from values and the tables of the catalogue from each
other; and they say of the data only what the code sees to: stock of a guarded product is not
negative at the start, quantities are positive, a sale names a product once (one row of a
cart per product), packs on sale at the start do not clash, stores, lines and items are
finite sets. A line that is evaluated has one unit or more and a price of nothing or more
(`promotion.service.ts:706`), and a promotion that counts products needs at least one
(`promotion.service.ts:528`); bills have a line (an empty cart is not checked out) and amounts that are not
negative; a product that is in a group at the
start has the group's price, as the counts start at zero. TLC evaluates them in the runs.

**Only model-checked.** `RequestAnswered` and `CountCatchesUp`: liveness under fairness and
`ENABLED` are beyond TLAPS here. That `FrontSpec` keeps the fairness of price groups is left with
them. What a RECURSIVE operator computes is beyond it as well; induction over numbers and finite
sets is not, if it is put in terms of a set instead of an operator: `AllNumbers` and `AllSubsets` derive
it from well-foundedness. With them the sums over finite sets of the community module
`Functions`, which are defined by recursion over the set, get their lemmas (`SumOverPick`).

**What proving changed in the models.** Each was found where an invariant turned out not to be
inductive or an operator could not be reasoned about:

- Billing's `excused` lacked a case that needs three sessions, more than the run has: a late
  `checkout.session.completed` puts its session into the row in place of one that is open by then,
  which the next checkout does not find. `CheckoutCompleted` now records it.
- StockLedger's rows are kept per product, and a sale names each product once, as carts do; a
  sale of the same product twice would have written a row that is not true.
- `ReviewShape` of MultiPack has to say that a batch that saves a proposal still has it to do:
  without it a batch could apply a proposal it has done.
- Replacement had a CASE whose guards overlapped; it is an IF, in the order of the code.
- Records that are partly updated (`Updated` in Catalogue, the reads of VendorOrders, the
  requests of MultiPack) are written as functions of their fields, with the types to reason about.
  TLC finds as many states as before.
- Promotions, Pricing and Tiers used recursive operators and folds over sequences. What they add up
  is now a sum over a set of places, the candidates that still compete are a set from which the first
  in the order of priority is taken, and the cart's shares are a recursive function. The store front
  has as many states as before.
- The types of lines, promotions, bills, rules and rows of products were only in the comments; they
  are assumptions of their modules now, and TLC evaluates them.

## What is not covered

- Payments, change and refunds; the costs and margins of packs; the dates of billing
  periods, prices and the customer portal.
- The connection pool: inside a transaction two checks query through a second
  connection (`transaction.service.ts:66`); the size of the pool is configured
  outside the repository.
- Archiving and flags: `allowNegativeInventory` and `trackInventory` are constants
  of a run.
- Two updates of a purchase within one millisecond have equal `updatedAt`; the
  model gives every version its own.
- Creating a product with an initial quantity; the purchase number (an atomic
  increment); the vendor catalogue behind generated orders.
- The heartbeat of registers (timestamps only), addresses and listings of stores, barcodes
  and prices of the product form, creating and editing customers: writes of single rows that
  decide nothing elsewhere.
- Overlapping requests in the catalogue.
- Payees, audit, dashboard, validation of requests and scripts, see the inventory.

## Plan

Most important first. All of it is modelled except what items 4 and 9 name, and the properties of
all that is modelled are proved except liveness.

1. `PosData`, `SalesDesk`, `CartCheckout`: the sale, and that it implements `SalesDesk`.
2. `StockLedger`: the stock's other writers.
3. `Purchasing`, for one purchase.
4. `VendorOrders`, for one order. Left to model: requests that name a line twice.
5. `Registers`.
6. `Billing`, `Entitlements`, `Stores`.
7. `Accounts`, `Catalogue`, `SetupNames`, `Replacement`, `MultiPack`, and `BackOffice` that
   composes them.
8. `PriceGroups`, `Promotions`, `Pricing`, `Tiers`, and `StoreFront` that composes them.
9. To extend: purchases' money totals, overlapping catalogue requests in a run, two plans and four
   events at Stripe in a run of their own.

------------------------------- MODULE Stores -------------------------------
(***************************************************************************)
(* The stores of one owner: the owner creates, activates and removes them  *)
(* and changes the plan; a webhook of Stripe activates or deactivates one. *)
(* Each is a transaction that writes the store, counts the active stores   *)
(* and writes the count, with the price, into the owner's subscription.    *)
(***************************************************************************)
EXTENDS Naturals, FiniteSets

CONSTANTS
  Deeds,      \* transactions in flight
  Shops,      \* the stores
  MaxStores,  \* the limit of the subscription
  OwnerPlans, \* plans
  FirstPlan,  \* the plan of the owner's trial
  NoDeed      \* no transaction in flight

ASSUME ShopAssumption == IsFiniteSet(Shops) /\ MaxStores \in Nat

VARIABLES
  shops,      \* each store: "none", "inactive" or "active"
  plan,       \* the owner's Subscription row: live, plan, stores (activeStoreCount)
  deed,       \* each transaction: what it has read and written
  behind,     \* another transaction committed since this one began
  mixed,      \* such a transaction committed
  outside     \* stores that Stripe ever activated

shopVars == <<shops, plan, deed, behind, mixed, outside>>

ActiveShops == {s \in Shops : shops[s] = "active"}

-----------------------------------------------------------------------------
(* Transactions *)

\* The row of the store is locked from its UPDATE to the end.
ShopBusy(d, s) == \E o \in Deeds \ {d} : deed[o] # NoDeed /\ deed[o].wrote /\ deed[o].shop = s

In(d, step) == deed[d] # NoDeed /\ deed[d].step = step

Enter(d, t) ==
  /\ deed[d] = NoDeed
  /\ deed' = [deed EXCEPT ![d] = t]
  /\ UNCHANGED <<shops, plan, behind, mixed, outside>>

Leave(d) ==
  /\ deed' = [deed EXCEPT ![d] = NoDeed]
  /\ behind' = [o \in Deeds |-> IF o = d THEN FALSE ELSE behind[o] \/ deed[o] # NoDeed]
  /\ mixed' = (mixed \/ behind[d])

Undo(d) ==
  /\ deed[d] # NoDeed
  /\ deed' = [deed EXCEPT ![d] = NoDeed]
  /\ behind' = [behind EXCEPT ![d] = FALSE]
  /\ UNCHANGED <<shops, plan, mixed, outside>>

Deed(step, s, status, p, by) ==
  [step |-> step, shop |-> s, status |-> status, plan |-> p, by |-> by, wrote |-> FALSE, count |-> 0]

-----------------------------------------------------------------------------
\* A store is created inactive.
CreateShop(d, s) ==
  /\ deed[d] = NoDeed
  /\ shops[s] = "none"
  /\ shops' = [shops EXCEPT ![s] = "inactive"]
  /\ UNCHANGED <<plan, deed, behind, mixed, outside>>

\* canCreateStore
CanCreateStore == plan.live /\ Cardinality(ActiveShops) < MaxStores

ActivateStore(d, s) ==
  /\ shops[s] = "inactive"
  /\ CanCreateStore
  /\ Enter(d, Deed("write", s, "active", plan.plan, "owner"))

RemoveStore(d, s) ==
  /\ shops[s] # "none"
  /\ Enter(d, Deed("write", s, "inactive", plan.plan, "owner"))

UpdateSubscriptionPlan(d, p) ==
  /\ plan.live
  /\ Enter(d, Deed("count", NoDeed, "none", p, "owner"))

\* syncSubscription, for the store its event names
SyncStore(d, s, status) ==
  /\ shops[s] # "none"
  /\ Enter(d, Deed("write", s, status, plan.plan, "stripe"))

WriteStore(d) ==
  /\ In(d, "write")
  /\ ~ShopBusy(d, deed[d].shop)
  /\ deed' = [deed EXCEPT ![d].step = "count", ![d].wrote = TRUE]
  /\ UNCHANGED <<shops, plan, behind, mixed, outside>>

\* Mutant: the transaction does not see what it has written itself.
CommittedOnly(d) == ActiveShops

\* getActiveStoreCount inside the transaction
SeenActive(d) ==
  IF ~deed[d].wrote THEN ActiveShops
  ELSE IF deed[d].status = "active" THEN ActiveShops \cup {deed[d].shop}
  ELSE ActiveShops \ {deed[d].shop}

CountStores(d) ==
  /\ In(d, "count")
  /\ deed' = [deed EXCEPT ![d].step = "bill", ![d].count = Cardinality(SeenActive(d))]
  /\ UNCHANGED <<shops, plan, behind, mixed, outside>>

\* updateOwnerBilling, if the subscription is live, and COMMIT
BillOwner(d) ==
  /\ In(d, "bill")
  /\ shops' = IF deed[d].wrote THEN [shops EXCEPT ![deed[d].shop] = deed[d].status] ELSE shops
  /\ plan' = IF plan.live
             THEN [plan EXCEPT !.stores = deed[d].count, !.plan = IF deed[d].wrote THEN @ ELSE deed[d].plan]
             ELSE plan
  /\ outside' = IF deed[d].by = "stripe" /\ deed[d].status = "active"
                THEN outside \cup {deed[d].shop} ELSE outside
  /\ Leave(d)

\* The trial or the subscription ends.
SubscriptionEnds ==
  /\ plan.live
  /\ plan' = [plan EXCEPT !.live = FALSE]
  /\ UNCHANGED <<shops, deed, behind, mixed, outside>>

-----------------------------------------------------------------------------
ShopInit ==
  /\ shops = [s \in Shops |-> "none"]
  /\ plan = [live |-> TRUE, plan |-> FirstPlan, stores |-> 0]
  /\ deed = [d \in Deeds |-> NoDeed]
  /\ behind = [d \in Deeds |-> FALSE]
  /\ mixed = FALSE
  /\ outside = {}

Conduct(d) ==
  \/ \E s \in Shops :
       \/ CreateShop(d, s) \/ ActivateStore(d, s) \/ RemoveStore(d, s)
       \/ \E status \in {"active", "inactive"} : SyncStore(d, s, status)
  \/ \E p \in OwnerPlans : UpdateSubscriptionPlan(d, p)
  \/ WriteStore(d) \/ CountStores(d) \/ BillOwner(d) \/ Undo(d)

ShopNext == SubscriptionEnds \/ \E d \in Deeds : Conduct(d)

ShopSpec == ShopInit /\ [][ShopNext]_shopVars

-----------------------------------------------------------------------------
(* Properties *)

\* Unless transactions overlapped, the owner is billed for the stores that are active,
\* whoever activated or removed them, and has activated no more than the
\* subscription allows but for those Stripe activated.
BilledStoresAreActive ==
  ~mixed =>
    /\ plan.live => plan.stores = Cardinality(ActiveShops)
    /\ Cardinality(ActiveShops \ outside) <= MaxStores
=============================================================================

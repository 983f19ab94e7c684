--------------------------- MODULE BackOffice_proofs ---------------------------
(***************************************************************************)
(* Proofs about the desks of the back office: what stores are billed, the  *)
(* links mailed to an account, the names in the tables of a store, records *)
(* whose rows are replaced, and the reviewed packs; and that whoever sits  *)
(* at a desk works by the specification of that component.                 *)
(***************************************************************************)
EXTENDS BackOffice, Billing_proofs, WellFoundedInduction

-----------------------------------------------------------------------------
(* Stores: types *)

DeedRow ==
  [step : {"write", "count", "bill"}, shop : Shops \cup {NoDeed},
   status : {"none", "active", "inactive"}, plan : OwnerPlans \cup {FirstPlan},
   by : {"owner", "stripe"}, wrote : BOOLEAN, count : Nat]

ShopTypeOK ==
  /\ shops \in [Shops -> {"none", "inactive", "active"}]
  /\ plan \in [live : BOOLEAN, plan : OwnerPlans \cup {FirstPlan}, stores : Nat]
  /\ deed \in [Deeds -> DeedRow \cup {NoDeed}]
  /\ behind \in [Deeds -> BOOLEAN]
  /\ mixed \in BOOLEAN
  /\ outside \subseteq Shops

-----------------------------------------------------------------------------
(* Stores: the inductive invariant *)

\* A transaction that writes, or wrote, a store has one and a status for it, and so
\* has every webhook.
DeedHasShop(d) ==
  deed[d] # NoDeed /\ (deed[d].step = "write" \/ deed[d].wrote \/ deed[d].by = "stripe") =>
    deed[d].shop \in Shops /\ deed[d].status \in {"active", "inactive"}

\* While no other commits, the count a transaction read is that of its own snapshot.
CountIsTrue(d) ==
  In(d, "bill") /\ ~behind[d] => deed[d].count = Cardinality(SeenActive(d))

\* ... and an owner who activates a store still may: the limit was checked first.
RoomIsLeft(d) ==
  deed[d] # NoDeed /\ deed[d].by = "owner" /\ deed[d].status = "active" /\ ~behind[d] =>
    Cardinality(ActiveShops) < MaxStores

DeedInv(d) == DeedHasShop(d) /\ CountIsTrue(d) /\ RoomIsLeft(d)

ShopInv == ShopTypeOK /\ BilledStoresAreActive /\ \A d \in Deeds : DeedInv(d)

-----------------------------------------------------------------------------
(* Stores: lemmas *)

\* Active stores can be counted.
LEMMA ShopsCount ==
  ASSUME NEW S \in SUBSET Shops
  PROVE  /\ IsFiniteSet(S) /\ Cardinality(S) \in Nat
         /\ \A T \in SUBSET S : Cardinality(T) <= Cardinality(S)
         /\ \A s \in Shops : Cardinality(S \cup {s}) <= Cardinality(S) + 1
<1>1. IsFiniteSet(S)
  BY ShopAssumption, FS_Subset
<1>2. Cardinality(S) \in Nat
  BY <1>1, FS_CardinalityType
<1>3. \A T \in SUBSET S : Cardinality(T) <= Cardinality(S)
  BY <1>1, FS_Subset
<1>4. ASSUME NEW s \in Shops PROVE Cardinality(S \cup {s}) <= Cardinality(S) + 1
  <2>1. Cardinality(S \cup {s}) = IF s \in S THEN Cardinality(S) ELSE Cardinality(S) + 1
    BY <1>1, FS_AddElement
  <2> QED BY <2>1, <1>2
<1> QED BY <1>1, <1>2, <1>3, <1>4

\* A step that leaves the active stores, the plan and the past alone, and gives one
\* transaction a record that is in order, keeps the invariant.
LEMMA DeedStep ==
  ASSUME ShopInv, NEW d \in Deeds, NEW t \in DeedRow \cup {NoDeed},
         deed' = [deed EXCEPT ![d] = t],
         UNCHANGED <<shops, plan, behind, mixed, outside>>,
         DeedInv(d)'
  PROVE  ShopInv'
<1>1. ShopTypeOK'
  BY DEF ShopInv, ShopTypeOK
<1>2. BilledStoresAreActive'
  BY DEF ShopInv, BilledStoresAreActive, ActiveShops
<1>3. ASSUME NEW o \in Deeds, o # d PROVE DeedInv(o)'
  <2>1. DeedInv(o) /\ deed'[o] = deed[o]
    BY <1>3 DEF ShopInv, ShopTypeOK
  <2>2. SeenActive(o)' = SeenActive(o)
    BY <2>1 DEF SeenActive, ActiveShops
  <2> QED
    BY <2>1, <2>2 DEF DeedInv, DeedHasShop, CountIsTrue, RoomIsLeft, In, ActiveShops
<1> QED BY <1>1, <1>2, <1>3 DEF ShopInv

LEMMA ShopInitInv == ShopInit => ShopInv
<1> SUFFICES ASSUME ShopInit PROVE ShopInv
  OBVIOUS
<1>1. ShopTypeOK
  BY DEF ShopInit, ShopTypeOK
<1>2. ActiveShops = {} /\ ActiveShops \ outside = {}
  BY DEF ShopInit, ActiveShops
<1>3. Cardinality({}) = 0
  BY FS_EmptySet
<1>4. BilledStoresAreActive
  BY <1>2, <1>3, ShopAssumption DEF ShopInit, BilledStoresAreActive
<1>5. \A d \in Deeds : DeedInv(d)
  BY DEF ShopInit, DeedInv, DeedHasShop, CountIsTrue, RoomIsLeft, In
<1> QED BY <1>1, <1>4, <1>5 DEF ShopInv

LEMMA CreateShopInv ==
  ASSUME ShopInv, NEW d \in Deeds, NEW s \in Shops, CreateShop(d, s)
  PROVE  ShopInv'
<1>1. ActiveShops' = ActiveShops
  BY DEF CreateShop, ShopInv, ShopTypeOK, ActiveShops
<1>2. ShopTypeOK'
  BY DEF CreateShop, ShopInv, ShopTypeOK
<1>3. BilledStoresAreActive'
  BY <1>1 DEF CreateShop, ShopInv, BilledStoresAreActive
<1>4. ASSUME NEW o \in Deeds PROVE DeedInv(o)'
  <2>1. SeenActive(o)' = SeenActive(o)
    BY <1>1 DEF SeenActive, CreateShop
  <2> QED
    BY <1>1, <2>1 DEF CreateShop, ShopInv, DeedInv, DeedHasShop, CountIsTrue, RoomIsLeft, In
<1> QED BY <1>2, <1>3, <1>4 DEF ShopInv

\* A transaction that begins has read the limit, if it activates a store of the owner.
LEMMA EnterInv ==
  ASSUME ShopInv, NEW d \in Deeds, NEW t \in DeedRow, Enter(d, t),
         t.step # "bill", ~t.wrote,
         t.step = "write" \/ t.by = "stripe" => t.shop \in Shops /\ t.status \in {"active", "inactive"},
         t.by = "owner" /\ t.status = "active" => Cardinality(ActiveShops) < MaxStores
  PROVE  ShopInv'
<1>1. deed' = [deed EXCEPT ![d] = t] /\ UNCHANGED <<shops, plan, behind, mixed, outside>>
  BY DEF Enter
<1>2. deed'[d] = t
  BY <1>1 DEF ShopInv, ShopTypeOK
<1>3. DeedInv(d)'
  BY <1>1, <1>2 DEF DeedInv, DeedHasShop, CountIsTrue, RoomIsLeft, In, ActiveShops
<1> QED BY <1>1, <1>3, DeedStep

LEMMA WriteStoreInv ==
  ASSUME ShopInv, NEW d \in Deeds, WriteStore(d)
  PROVE  ShopInv'
<1>1. deed[d] \in DeedRow /\ deed[d] # NoDeed /\ DeedInv(d)
  BY DEF WriteStore, In, ShopInv, ShopTypeOK
<1> DEFINE t == [deed[d] EXCEPT !.step = "count", !.wrote = TRUE]
<1>2. t \in DeedRow
  BY <1>1 DEF DeedRow
<1>3. deed' = [deed EXCEPT ![d] = t] /\ UNCHANGED <<shops, plan, behind, mixed, outside>>
  BY DEF WriteStore, ShopInv, ShopTypeOK
<1>4. /\ deed'[d] = t
      /\ t.shop = deed[d].shop /\ t.status = deed[d].status /\ t.by = deed[d].by /\ t.step = "count"
  BY <1>1, <1>3 DEF ShopInv, ShopTypeOK, DeedRow
<1> HIDE DEF t
<1>5. DeedInv(d)'
  BY <1>1, <1>3, <1>4 DEF DeedInv, DeedHasShop, CountIsTrue, RoomIsLeft, In, ActiveShops, WriteStore
<1> QED BY <1>2, <1>3, <1>5, DeedStep

LEMMA CountStoresInv ==
  ASSUME ShopInv, NEW d \in Deeds, CountStores(d)
  PROVE  ShopInv'
<1>1. deed[d] \in DeedRow /\ deed[d] # NoDeed /\ DeedInv(d)
  BY DEF CountStores, In, ShopInv, ShopTypeOK
<1> DEFINE n == Cardinality(SeenActive(d))
           t == [deed[d] EXCEPT !.step = "bill", !.count = n]
<1>2. n \in Nat
  <2>1. SeenActive(d) \in SUBSET Shops
    BY <1>1 DEF SeenActive, ActiveShops, DeedInv, DeedHasShop
  <2> QED BY <2>1, ShopsCount
<1>3. deed' = [deed EXCEPT ![d] = t] /\ UNCHANGED <<shops, plan, behind, mixed, outside>>
  BY DEF CountStores, ShopInv, ShopTypeOK
<1> HIDE DEF n
<1>4. t \in DeedRow
  BY <1>1, <1>2 DEF DeedRow
<1>5. /\ deed'[d] = t
      /\ t.shop = deed[d].shop /\ t.status = deed[d].status /\ t.by = deed[d].by
      /\ t.step = "bill" /\ t.count = n /\ t.wrote = deed[d].wrote
  BY <1>1, <1>3 DEF ShopInv, ShopTypeOK, DeedRow
<1> HIDE DEF t
<1>6. SeenActive(d)' = SeenActive(d)
  BY <1>3, <1>5 DEF SeenActive, ActiveShops
<1>7. DeedInv(d)'
  <2>1. DeedHasShop(d)' /\ RoomIsLeft(d)'
    BY <1>1, <1>3, <1>5 DEF DeedInv, DeedHasShop, RoomIsLeft, ActiveShops
  <2>2. CountIsTrue(d)'
    BY <1>5, <1>6 DEF CountIsTrue, n
  <2> QED BY <2>1, <2>2 DEF DeedInv
<1> QED BY <1>3, <1>4, <1>7, DeedStep

\* A transaction that commits while none other did has counted the stores it leaves
\* active, and one that activates a store leaves at most the limit.
LEMMA BillOwnerInv ==
  ASSUME ShopInv, NEW d \in Deeds, BillOwner(d)
  PROVE  ShopInv'
<1>1. deed[d] \in DeedRow /\ deed[d] # NoDeed /\ DeedInv(d) /\ deed[d].step = "bill"
  BY DEF BillOwner, In, ShopInv, ShopTypeOK
<1>2. ActiveShops' = SeenActive(d)
  <2>1. CASE ~deed[d].wrote
    BY <2>1 DEF BillOwner, SeenActive, ActiveShops
  <2>2. CASE deed[d].wrote
    <3>1. deed[d].shop \in Shops /\ deed[d].status \in {"active", "inactive"}
      BY <1>1, <2>2 DEF DeedInv, DeedHasShop
    <3>2. shops' = [shops EXCEPT ![deed[d].shop] = deed[d].status]
      BY <2>2 DEF BillOwner
    <3> QED BY <2>2, <3>1, <3>2 DEF SeenActive, ActiveShops, ShopInv, ShopTypeOK
  <2> QED BY <2>1, <2>2
<1>3. ShopTypeOK'
  <2>1. shops' \in [Shops -> {"none", "inactive", "active"}]
    BY <1>1 DEF BillOwner, ShopInv, ShopTypeOK, DeedInv, DeedHasShop
  <2>2. plan' \in [live : BOOLEAN, plan : OwnerPlans \cup {FirstPlan}, stores : Nat]
    <3>1. deed[d].count \in Nat /\ deed[d].plan \in OwnerPlans \cup {FirstPlan}
      BY <1>1 DEF DeedRow
    <3> QED BY <3>1 DEF BillOwner, ShopInv, ShopTypeOK
  <2>3. deed' \in [Deeds -> DeedRow \cup {NoDeed}] /\ behind' \in [Deeds -> BOOLEAN] /\ mixed' \in BOOLEAN
    BY DEF BillOwner, Leave, ShopInv, ShopTypeOK
  <2>4. outside' \subseteq Shops
    BY <1>1 DEF BillOwner, ShopInv, ShopTypeOK, DeedInv, DeedHasShop
  <2> QED BY <2>1, <2>2, <2>3, <2>4 DEF ShopTypeOK
<1>4. BilledStoresAreActive'
  <2> SUFFICES ASSUME ~mixed' PROVE /\ plan'.live => plan'.stores = Cardinality(ActiveShops')
                                    /\ Cardinality(ActiveShops' \ outside') <= MaxStores
    BY DEF BilledStoresAreActive
  <2>1. ~mixed /\ ~behind[d]
    BY DEF BillOwner, Leave, ShopInv, ShopTypeOK
  <2>2. ASSUME plan'.live PROVE plan'.stores = Cardinality(ActiveShops')
    <3>1. plan.live
      BY <2>2 DEF BillOwner
    <3>2. plan'.stores = deed[d].count
      BY <3>1 DEF BillOwner, ShopInv, ShopTypeOK
    <3>3. deed[d].count = Cardinality(SeenActive(d))
      BY <1>1, <2>1 DEF DeedInv, CountIsTrue, In
    <3> QED BY <1>2, <3>2, <3>3
  <2>3. Cardinality(ActiveShops' \ outside') <= MaxStores
    <3>1. Cardinality(ActiveShops \ outside) <= MaxStores
      BY <2>1 DEF ShopInv, BilledStoresAreActive
    <3>2. ActiveShops \in SUBSET Shops /\ ActiveShops \ outside \in SUBSET Shops
      BY DEF ActiveShops
    <3>3. outside \subseteq outside'
      BY DEF BillOwner
    <3>4. CASE ActiveShops' \ outside' \subseteq ActiveShops \ outside
      <4>1. Cardinality(ActiveShops' \ outside') <= Cardinality(ActiveShops \ outside)
        BY <3>2, <3>4, ShopsCount
      <4>2. Cardinality(ActiveShops' \ outside') \in Nat /\ Cardinality(ActiveShops \ outside) \in Nat
        BY <3>2, <3>4, ShopsCount
      <4> QED BY <3>1, <4>1, <4>2, ShopAssumption
    <3>5. CASE ~(ActiveShops' \ outside' \subseteq ActiveShops \ outside)
      <4>1. deed[d].wrote /\ deed[d].status = "active"
        BY <1>2, <3>3, <3>5 DEF SeenActive
      <4>2. deed[d].shop \in Shops
        BY <1>1, <4>1 DEF DeedInv, DeedHasShop
      <4>3. deed[d].by = "owner"
        <5> SUFFICES ASSUME deed[d].by = "stripe" PROVE FALSE
          BY <1>1 DEF DeedRow
        <5>1. deed[d].shop \in outside'
          BY <4>1 DEF BillOwner
        <5> QED BY <1>2, <3>3, <3>5, <4>1, <5>1 DEF SeenActive
      <4>4. Cardinality(ActiveShops) < MaxStores
        BY <1>1, <2>1, <4>1, <4>3 DEF DeedInv, RoomIsLeft
      <4> DEFINE grown == ActiveShops \cup {deed[d].shop}
      <4>5. grown \in SUBSET Shops /\ ActiveShops' \ outside' \in SUBSET grown
        BY <1>2, <3>2, <4>1, <4>2 DEF SeenActive
      <4>6. Cardinality(grown) <= Cardinality(ActiveShops) + 1
        BY <3>2, <4>2, ShopsCount
      <4> HIDE DEF grown
      <4>7. /\ Cardinality(ActiveShops' \ outside') <= Cardinality(grown)
            /\ Cardinality(grown) \in Nat /\ Cardinality(ActiveShops) \in Nat
            /\ Cardinality(ActiveShops' \ outside') \in Nat
        <5>1. ActiveShops' \ outside' \in SUBSET Shops
          BY <4>5
        <5> QED BY <3>2, <4>5, <5>1, ShopsCount
      <4> QED BY <4>4, <4>6, <4>7, ShopAssumption
    <3> QED BY <3>4, <3>5
  <2> QED BY <2>2, <2>3
<1>5. ASSUME NEW o \in Deeds PROVE DeedInv(o)'
  <2>1. CASE o = d
    <3>1. deed'[o] = NoDeed
      BY <2>1 DEF BillOwner, Leave, ShopInv, ShopTypeOK
    <3> QED BY <3>1 DEF DeedInv, DeedHasShop, CountIsTrue, RoomIsLeft, In
  <2>2. CASE o # d
    <3>1. deed'[o] = deed[o] /\ (deed[o] # NoDeed => behind'[o])
      BY <2>2 DEF BillOwner, Leave, ShopInv, ShopTypeOK
    <3>2. DeedHasShop(o)
      BY DEF ShopInv, DeedInv
    <3> QED BY <3>1, <3>2 DEF DeedInv, DeedHasShop, CountIsTrue, RoomIsLeft, In
  <2> QED BY <2>1, <2>2
<1> QED BY <1>3, <1>4, <1>5 DEF ShopInv

LEMMA UndoInv ==
  ASSUME ShopInv, NEW d \in Deeds, Undo(d)
  PROVE  ShopInv'
<1>0. /\ deed' = [deed EXCEPT ![d] = NoDeed]
      /\ behind' = [behind EXCEPT ![d] = FALSE]
      /\ deed \in [Deeds -> DeedRow \cup {NoDeed}] /\ behind \in [Deeds -> BOOLEAN]
  BY DEF Undo, ShopInv, ShopTypeOK
<1>1. ShopTypeOK'
  BY <1>0 DEF Undo, ShopInv, ShopTypeOK
<1>2. BilledStoresAreActive'
  BY DEF Undo, ShopInv, BilledStoresAreActive, ActiveShops
<1>3. ASSUME NEW o \in Deeds PROVE DeedInv(o)'
  <2>1. deed'[o] = NoDeed \/ (deed'[o] = deed[o] /\ behind'[o] = behind[o])
    BY <1>0
  <2>2. SeenActive(o)' = SeenActive(o) \/ deed'[o] = NoDeed
    BY <2>1 DEF Undo, SeenActive, ActiveShops
  <2> QED
    BY <2>1, <2>2 DEF Undo, ShopInv, DeedInv, DeedHasShop, CountIsTrue, RoomIsLeft, In, ActiveShops
<1> QED BY <1>1, <1>2, <1>3 DEF ShopInv

LEMMA SubscriptionEndsInv ==
  ASSUME ShopInv, SubscriptionEnds
  PROVE  ShopInv'
<1>1. ShopTypeOK'
  BY DEF SubscriptionEnds, ShopInv, ShopTypeOK
<1>2. BilledStoresAreActive'
  BY DEF SubscriptionEnds, ShopInv, ShopTypeOK, BilledStoresAreActive, ActiveShops
<1>3. \A d \in Deeds : DeedInv(d)'
  BY DEF SubscriptionEnds, ShopInv, DeedInv, DeedHasShop, CountIsTrue, RoomIsLeft, In,
         SeenActive, ActiveShops
<1> QED BY <1>1, <1>2, <1>3 DEF ShopInv

\* A transaction that begins is in order.
LEMMA BeginDeedInv ==
  ASSUME ShopInv, NEW d \in Deeds,
         \/ \E s \in Shops :
              ActivateStore(d, s) \/ RemoveStore(d, s)
              \/ \E status \in {"active", "inactive"} : SyncStore(d, s, status)
         \/ \E p \in OwnerPlans : UpdateSubscriptionPlan(d, p)
  PROVE  ShopInv'
<1>0. plan.plan \in OwnerPlans \cup {FirstPlan}
  BY DEF ShopInv, ShopTypeOK
<1> DEFINE Proper(t) ==
      /\ t \in DeedRow /\ t.step # "bill" /\ ~t.wrote
      /\ t.step = "write" \/ t.by = "stripe" => t.shop \in Shops /\ t.status \in {"active", "inactive"}
      /\ t.by = "owner" /\ t.status = "active" => Cardinality(ActiveShops) < MaxStores
<1>1. ASSUME NEW s \in Shops, ActivateStore(d, s) PROVE ShopInv'
  <2> DEFINE t == Deed("write", s, "active", plan.plan, "owner")
  <2>1. Proper(t)
    BY <1>0, <1>1 DEF ActivateStore, CanCreateStore, Deed, DeedRow
  <2>2. Enter(d, t)
    BY <1>1 DEF ActivateStore
  <2> HIDE DEF t
  <2> QED BY <2>1, <2>2, EnterInv
<1>2. ASSUME NEW s \in Shops, RemoveStore(d, s) PROVE ShopInv'
  <2> DEFINE t == Deed("write", s, "inactive", plan.plan, "owner")
  <2>1. Proper(t)
    BY <1>0 DEF Deed, DeedRow
  <2>2. Enter(d, t)
    BY <1>2 DEF RemoveStore
  <2> HIDE DEF t
  <2> QED BY <2>1, <2>2, EnterInv
<1>3. ASSUME NEW s \in Shops, NEW status \in {"active", "inactive"}, SyncStore(d, s, status)
      PROVE  ShopInv'
  <2> DEFINE t == Deed("write", s, status, plan.plan, "stripe")
  <2>1. Proper(t)
    BY <1>0 DEF Deed, DeedRow
  <2>2. Enter(d, t)
    BY <1>3 DEF SyncStore
  <2> HIDE DEF t
  <2> QED BY <2>1, <2>2, EnterInv
<1>4. ASSUME NEW p \in OwnerPlans, UpdateSubscriptionPlan(d, p) PROVE ShopInv'
  <2> DEFINE t == Deed("count", NoDeed, "none", p, "owner")
  <2>1. Proper(t)
    BY DEF Deed, DeedRow
  <2>2. Enter(d, t)
    BY <1>4 DEF UpdateSubscriptionPlan
  <2> HIDE DEF t
  <2> QED BY <2>1, <2>2, EnterInv
<1> QED BY <1>1, <1>2, <1>3, <1>4

LEMMA ShopNextInv == ShopInv /\ [ShopNext]_shopVars => ShopInv'
<1> SUFFICES ASSUME ShopInv, [ShopNext]_shopVars PROVE ShopInv'
  OBVIOUS
<1>1. CASE UNCHANGED shopVars
  BY <1>1 DEF shopVars, ShopInv, ShopTypeOK, BilledStoresAreActive, DeedInv, DeedHasShop,
              CountIsTrue, RoomIsLeft, In, SeenActive, ActiveShops
<1>2. CASE SubscriptionEnds
  BY <1>2, SubscriptionEndsInv
<1>3. ASSUME NEW d \in Deeds, Conduct(d) PROVE ShopInv'
  <2>1. ASSUME NEW s \in Shops, CreateShop(d, s) PROVE ShopInv'
    BY <2>1, CreateShopInv
  <2> QED BY <1>3, <2>1, BeginDeedInv, WriteStoreInv, CountStoresInv, BillOwnerInv, UndoInv
             DEF Conduct
<1> QED BY <1>1, <1>2, <1>3 DEF ShopNext

-----------------------------------------------------------------------------
(* Stores: theorem *)

\* However many stores and transactions there are: unless transactions overlapped, the
\* owner is billed for the stores that are active and has activated no more of them
\* than the subscription allows, whatever Stripe's webhooks do in between
\* (store.service.ts: canCreateStore, updateOwnerBilling).
THEOREM OwnersPayForActiveStores == ShopSpec => []BilledStoresAreActive
<1>1. ShopInit => ShopInv
  BY ShopInitInv
<1>2. ShopInv /\ [ShopNext]_shopVars => ShopInv'
  BY ShopNextInv
<1>3. ShopInv => BilledStoresAreActive
  BY DEF ShopInv
<1> QED BY <1>1, <1>2, <1>3, PTL DEF ShopSpec

-----------------------------------------------------------------------------
(* Names: types and the inductive invariant *)

NameRow == [name : RawNames, scope : Scopes \cup {CHOOSE s \in Scopes : TRUE}]
NamingRow == [entry : Entries, row : NameRow, new : BOOLEAN, loose : BOOLEAN]

NamesTypeOK ==
  /\ entries \in [Entries -> NameRow \cup {NoEntry}]
  /\ naming \in [Namers -> NamingRow \cup {NoNaming}]
  /\ outrun \in [Namers -> BOOLEAN]
  /\ rushed \in BOOLEAN
  /\ loose \subseteq Entries

\* A name with spaces to drop went the older way.  That is why a department may pass
\* over such names: DepartmentNameAvailable compares with all the others.
SpacedAreLoose ==
  /\ \A e \in Entries : entries[e] # NoEntry /\ entries[e].name.spaced => e \in loose
  /\ \A n \in Namers : naming[n] # NoNaming /\ naming[n].row.name.spaced => naming[n].loose

\* While nobody else succeeds, the name a request has compared is free.
Differs(row, e) == \A o \in Others(row.scope, e) \ loose : Folded(entries[o].name) # Folded(row.name)
StillAvailable(n) ==
  naming[n] # NoNaming /\ ~naming[n].loose /\ ~outrun[n] => Differs(naming[n].row, naming[n].entry)

NamesInv ==
  /\ NamesTypeOK
  /\ SpacedAreLoose
  /\ \A n \in Namers : StillAvailable(n)
  /\ NamesDiffer

-----------------------------------------------------------------------------
(* Names: lemmas *)

LEMMA NamesInitInv == NamesInit => NamesInv
  BY DEF NamesInit, NamesInv, NamesTypeOK, SpacedAreLoose, StillAvailable, NamesDiffer

\* A request that has compared its name, or is not to, keeps the invariant.
LEMMA AskNameInv ==
  ASSUME NamesInv, NEW n \in Namers, NEW e \in Entries, NEW name \in RawNames,
         NEW scope \in Scopes \cup {CHOOSE s \in Scopes : TRUE}, NEW unchecked \in BOOLEAN,
         AskName(n, e, name, scope, unchecked),
         ~unchecked => ~name.spaced /\ Differs([name |-> name, scope |-> scope], e)
  PROVE  NamesInv'
<1> DEFINE t == [entry |-> e, row |-> [name |-> name, scope |-> scope],
                 new |-> entries[e] = NoEntry, loose |-> unchecked]
<1>1. naming' = [naming EXCEPT ![n] = t] /\ UNCHANGED <<table, entries, outrun, rushed, loose>>
  BY DEF AskName
<1>2. /\ t \in NamingRow
      /\ t.row = [name |-> name, scope |-> scope] /\ t.row.name = name
      /\ t.entry = e /\ t.loose = unchecked
  BY DEF NamingRow, NameRow
<1> HIDE DEF t
<1>3. naming'[n] = t /\ \A m \in Namers \ {n} : naming'[m] = naming[m]
  BY <1>1 DEF NamesInv, NamesTypeOK
<1>4. NamesTypeOK'
  BY <1>1, <1>2 DEF NamesInv, NamesTypeOK
<1>5. SpacedAreLoose'
  BY <1>1, <1>2, <1>3 DEF NamesInv, SpacedAreLoose
<1>6. ASSUME NEW m \in Namers PROVE StillAvailable(m)'
  <2>1. CASE m = n
    BY <1>1, <1>2, <1>3, <2>1 DEF StillAvailable, Differs, Others, Folded
  <2>2. CASE m # n
    BY <1>1, <1>3, <2>2 DEF NamesInv, StillAvailable, Differs, Others, Folded
  <2> QED BY <2>1, <2>2
<1>7. NamesDiffer'
  BY <1>1 DEF NamesInv, NamesDiffer, Folded
<1> QED BY <1>4, <1>5, <1>6, <1>7 DEF NamesInv

\* What the three ways to compare have in common.
LEMMA GiveNameInv ==
  ASSUME NamesInv, NEW n \in Namers, NEW e \in Entries, NEW raw \in RawNames, NEW scope \in TableScopes,
         \/ GiveName(n, e, raw, scope) \/ CreateReason(n, e, raw, scope)
         \/ RenameDepartment(n, e, raw) \/ MoveCategoryOnly(n, e, scope)
  PROVE  NamesInv'
<1>1. scope \in Scopes \cup {CHOOSE s \in Scopes : TRUE}
  BY DEF TableScopes
<1>2. Tidy(raw) \in RawNames /\ ~Tidy(raw).spaced
  BY DEF Tidy, RawNames
<1> DEFINE tidy == Tidy(raw)
<1> HIDE DEF tidy
<1>3. tidy = Tidy(raw)
  BY DEF tidy
<1>4. CASE GiveName(n, e, raw, scope)
  <2>1. AskName(n, e, tidy, scope, FALSE)
    BY <1>3, <1>4 DEF GiveName
  <2>2. DepartmentNameAvailable(e, tidy, scope) \/ NameAvailable(e, tidy, scope)
    BY <1>3, <1>4 DEF GiveName
  <2>3. Differs([name |-> tidy, scope |-> scope], e)
    <3> SUFFICES ASSUME NEW o \in Others(scope, e), o \notin loose
                 PROVE  Folded(entries[o].name) # Folded(tidy)
      BY DEF Differs
    <3>1. ~entries[o].name.spaced
      BY DEF NamesInv, NamesTypeOK, SpacedAreLoose, Others, NameRow, RawNames
    <3> QED BY <2>2, <3>1 DEF DepartmentNameAvailable, NameAvailable
  <2> QED BY <1>1, <1>2, <1>3, <2>1, <2>3, AskNameInv
<1>5. CASE CreateReason(n, e, raw, scope)
  <2>1. AskName(n, e, tidy, scope, FALSE) /\ NameAvailable(e, tidy, scope)
    BY <1>3, <1>5 DEF CreateReason
  <2>2. Differs([name |-> tidy, scope |-> scope], e)
    BY <2>1 DEF NameAvailable, Differs
  <2> QED BY <1>1, <1>2, <1>3, <2>1, <2>2, AskNameInv
<1>6. CASE RenameDepartment(n, e, raw)
  <2>1. AskName(n, e, raw, entries[e].scope, TRUE) /\ entries[e] # NoEntry
    BY <1>6 DEF RenameDepartment
  <2>2. entries[e].scope \in Scopes \cup {CHOOSE s \in Scopes : TRUE}
    BY <2>1 DEF NamesInv, NamesTypeOK, NameRow
  <2> QED BY <2>1, <2>2, AskNameInv
<1>7. CASE MoveCategoryOnly(n, e, scope)
  <2>1. AskName(n, e, entries[e].name, scope, TRUE) /\ entries[e] # NoEntry
    BY <1>7 DEF MoveCategoryOnly
  <2>2. entries[e].name \in RawNames
    BY <2>1 DEF NamesInv, NamesTypeOK, NameRow
  <2> QED BY <1>1, <2>1, <2>2, AskNameInv
<1> QED BY <1>4, <1>5, <1>6, <1>7

\* The unique index decides between reasons; between other rows what was compared
\* does, as long as nobody else has succeeded.
LEMMA WriteNameInv ==
  ASSUME NamesInv, NEW n \in Namers, WriteName(n)
  PROVE  NamesInv'
<1> DEFINE w == naming[n]
<1>1. w \in NamingRow /\ w # NoNaming
  BY DEF WriteName, NamesInv, NamesTypeOK
<1>2. /\ w.entry \in Entries /\ w.row \in NameRow /\ w.loose \in BOOLEAN
      /\ Unique(w.entry, w.row)
      /\ entries' = [entries EXCEPT ![w.entry] = w.row]
      /\ loose' = IF w.loose THEN loose \cup {w.entry} ELSE loose \ {w.entry}
      /\ outrun' = [o \in Namers |-> IF o = n THEN FALSE ELSE outrun[o] \/ naming[o] # NoNaming]
      /\ rushed' = (rushed \/ outrun[n])
      /\ naming' = [naming EXCEPT ![n] = NoNaming]
      /\ table' = table
      /\ w.row.name.spaced => w.loose
      /\ StillAvailable(n)
  BY <1>1 DEF WriteName, NamingRow, NamesInv, SpacedAreLoose
<1> DEFINE e == w.entry
           row == w.row
<1> HIDE DEF w
<1>3. entries'[e] = row /\ \A o \in Entries \ {e} : entries'[o] = entries[o] /\ (o \in loose' <=> o \in loose)
  BY <1>2 DEF NamesInv, NamesTypeOK
<1>4. ~w.loose <=> e \notin loose'
  BY <1>2
<1>5. NamesTypeOK'
  <2>1. entries' \in [Entries -> NameRow \cup {NoEntry}] /\ loose' \subseteq Entries
    BY <1>2 DEF NamesInv, NamesTypeOK
  <2>2. naming' \in [Namers -> NamingRow \cup {NoNaming}] /\ outrun' \in [Namers -> BOOLEAN] /\ rushed' \in BOOLEAN
    BY <1>2 DEF NamesInv, NamesTypeOK
  <2> QED BY <2>1, <2>2 DEF NamesTypeOK
<1>6. SpacedAreLoose'
  <2>1. ASSUME NEW o \in Entries, entries'[o] # NoEntry, entries'[o].name.spaced PROVE o \in loose'
    BY <1>2, <1>3, <1>4, <2>1 DEF NamesInv, SpacedAreLoose
  <2>2. ASSUME NEW m \in Namers, naming'[m] # NoNaming, naming'[m].row.name.spaced PROVE naming'[m].loose
    BY <1>2, <2>2 DEF NamesInv, NamesTypeOK, SpacedAreLoose
  <2> QED BY <2>1, <2>2 DEF SpacedAreLoose
<1>7. \A m \in Namers : StillAvailable(m)'
  <2> SUFFICES ASSUME NEW m \in Namers PROVE naming'[m] = NoNaming \/ outrun'[m]
    BY DEF StillAvailable
  <2> QED BY <1>2 DEF NamesInv, NamesTypeOK
<1>8. NamesDiffer'
  <2> SUFFICES ASSUME table = "reason" \/ ~rushed', NEW a1 \in Entries \ loose', NEW a2 \in Entries \ loose',
                      a1 # a2, entries'[a1] # NoEntry, entries'[a2] # NoEntry,
                      entries'[a1].scope = entries'[a2].scope
               PROVE  Folded(entries'[a1].name) # Folded(entries'[a2].name)
    BY <1>2 DEF NamesDiffer, Folded
  <2>1. table = "reason" \/ (~rushed /\ ~outrun[n])
    BY <1>2 DEF NamesInv, NamesTypeOK
  <2>2. ASSUME NEW o \in Entries \ loose', o # e, entries'[o] # NoEntry, entries'[o].scope = row.scope,
               e \notin loose'
        PROVE  Folded(entries'[o].name) # Folded(row.name)
    <3>1. o \in Others(row.scope, e) \ loose /\ entries'[o] = entries[o]
      BY <1>3, <2>2 DEF Others
    <3>2. CASE table = "reason"
      BY <1>2, <3>1, <3>2 DEF Unique
    <3>3. CASE ~outrun[n]
      BY <1>1, <1>2, <1>4, <2>2, <3>1, <3>3 DEF StillAvailable, Differs, w
    <3> QED BY <2>1, <3>2, <3>3
  <2>3. CASE a1 = e
    BY <1>3, <2>2, <2>3
  <2>4. CASE a2 = e
    BY <1>3, <2>2, <2>4
  <2>5. CASE a1 # e /\ a2 # e
    BY <1>3, <2>1, <2>5 DEF NamesInv, NamesDiffer
  <2> QED BY <2>3, <2>4, <2>5
<1> QED BY <1>5, <1>6, <1>7, <1>8 DEF NamesInv

LEMMA RefuseNameInv ==
  ASSUME NamesInv, NEW n \in Namers, RefuseName(n)
  PROVE  NamesInv'
<1>1. /\ naming' = [naming EXCEPT ![n] = NoNaming]
      /\ outrun' = [outrun EXCEPT ![n] = FALSE]
      /\ UNCHANGED <<table, entries, rushed, loose>>
  BY DEF RefuseName
<1>2. NamesTypeOK'
  BY <1>1 DEF NamesInv, NamesTypeOK
<1>3. \A m \in Namers : naming'[m] = NoNaming \/ (naming'[m] = naming[m] /\ outrun'[m] = outrun[m])
  BY <1>1 DEF NamesInv, NamesTypeOK
<1>4. SpacedAreLoose'
  BY <1>1, <1>3 DEF NamesInv, SpacedAreLoose
<1>5. ASSUME NEW m \in Namers PROVE StillAvailable(m)'
  <2>1. CASE naming'[m] = NoNaming
    BY <2>1 DEF StillAvailable
  <2>2. CASE naming'[m] = naming[m] /\ outrun'[m] = outrun[m]
    <3>1. StillAvailable(m)
      BY DEF NamesInv
    <3>2. entries' = entries /\ loose' = loose
      BY <1>1
    <3> QED BY <2>2, <3>1, <3>2 DEF StillAvailable, Differs, Others, Folded
  <2> QED BY <1>3, <2>1, <2>2
<1>6. NamesDiffer'
  BY <1>1 DEF NamesInv, NamesDiffer, Folded
<1> QED BY <1>2, <1>4, <1>5, <1>6 DEF NamesInv

LEMMA NamesNextInv == NamesInv /\ [NamesNext]_namesVars => NamesInv'
<1> SUFFICES ASSUME NamesInv, [NamesNext]_namesVars PROVE NamesInv'
  OBVIOUS
<1>1. CASE UNCHANGED namesVars
  BY <1>1 DEF namesVars, NamesInv, NamesTypeOK, SpacedAreLoose, StillAvailable, Differs, Others,
              NamesDiffer, Folded
<1>2. CASE NamesNext
  BY <1>2, GiveNameInv, WriteNameInv, RefuseNameInv DEF NamesNext
<1> QED BY <1>1, <1>2

-----------------------------------------------------------------------------
(* Names: theorem *)

\* However many rows, requests and names there are: two rows differ in more than case
\* and spaces (store.service.ts: normalizeNameForUniqueConstraint), reasons whatever
\* overlaps, others unless requests overlap or a name went the older way.
THEOREM NamesStayApart == NamesSpec => []NamesDiffer
<1>1. NamesInit => NamesInv
  BY NamesInitInv
<1>2. NamesInv /\ [NamesNext]_namesVars => NamesInv'
  BY NamesNextInv
<1>3. NamesInv => NamesDiffer
  BY DEF NamesInv
<1> QED BY <1>1, <1>2, <1>3, PTL DEF NamesSpec

-----------------------------------------------------------------------------
(* Records: types and the inductive invariant *)

RecordRow == [status : {"DRAFT", "ACTIVE", "PAUSED", "ARCHIVED"}, open : BOOLEAN]
EditRow ==
  [step : {"delete", "save", "transition", "remove"}, row : RecordRow, rows : SUBSET Items,
   old : SUBSET Items]

ReplacementTypeOK ==
  /\ record \in RecordRow \cup {NoRecord}
  /\ items \in SUBSET Items
  /\ edit \in [Editors -> EditRow \cup {NoEdit}]
  /\ late \in [Editors -> BOOLEAN]
  /\ clashed \in BOOLEAN

\* A replacement writes a record with the rows it was checked with.
EditIsWhole(e) ==
  EditAt(e, "delete") \/ EditAt(e, "save") => Complete(edit[e].row, edit[e].rows)

\* While nobody else succeeds, its DELETE has seen every row there is.
DeleteSawAll(e) == EditAt(e, "save") /\ ~late[e] => items \subseteq edit[e].old

\* ... and a promotion that is about to run is still what was checked.
TransitionWasChecked(e) ==
  EditAt(e, "transition") =>
    /\ kind = "promotion"
    /\ ~late[e] /\ edit[e].row.status = "ACTIVE" /\ record # NoRecord => record.open /\ items # {}

EditInv(e) == EditIsWhole(e) /\ DeleteSawAll(e) /\ TransitionWasChecked(e)

ReplacementInv == ReplacementTypeOK /\ RecordIsComplete /\ \A e \in Editors : EditInv(e)

-----------------------------------------------------------------------------
(* Records: lemmas *)

\* More rows never make a record incomplete.
LEMMA MoreRows ==
  ASSUME NEW row, NEW given, NEW more, given \subseteq more, Complete(row, given)
  PROVE  Complete(row, more)
  BY DEF Complete, PromotionComplete, ProgramComplete

LEMMA ReplacementInitInv == ReplacementInit => ReplacementInv
  BY DEF ReplacementInit, ReplacementInv, ReplacementTypeOK, RecordIsComplete, Whole, AsAsked,
         EditInv, EditIsWhole, DeleteSawAll, TransitionWasChecked, EditAt

\* A request goes on with an edit that is in order.
LEMMA EditStep ==
  ASSUME ReplacementInv, NEW e \in Editors, NEW t \in EditRow \cup {NoEdit},
         edit' = [edit EXCEPT ![e] = t], late' \in [Editors -> BOOLEAN],
         \A o \in Editors \ {e} : late'[o] = late[o],
         UNCHANGED <<kind, record, items, asked, clashed>>,
         EditInv(e)'
  PROVE  ReplacementInv'
<1>1. ReplacementTypeOK'
  BY DEF ReplacementInv, ReplacementTypeOK
<1>2. RecordIsComplete'
  BY DEF ReplacementInv, RecordIsComplete, Whole, AsAsked, Complete, PromotionComplete, ProgramComplete
<1>3. ASSUME NEW o \in Editors, o # e PROVE EditInv(o)'
  <2>1. EditInv(o) /\ edit'[o] = edit[o] /\ late'[o] = late[o]
    BY <1>3 DEF ReplacementInv, ReplacementTypeOK
  <2> QED
    BY <2>1 DEF EditInv, EditIsWhole, DeleteSawAll, TransitionWasChecked, EditAt, Complete,
                PromotionComplete, ProgramComplete
<1> QED BY <1>1, <1>2, <1>3 DEF ReplacementInv

LEMMA BeginEditInv ==
  ASSUME ReplacementInv, NEW e \in Editors, NEW t \in EditRow, BeginEdit(e, t),
         t.step \in {"delete", "transition", "remove"},
         t.step = "delete" => Complete(t.row, t.rows),
         t.step = "transition" =>
           /\ kind = "promotion"
           /\ t.row.status = "ACTIVE" => record.open /\ items # {}
  PROVE  ReplacementInv'
<1>1. /\ edit' = [edit EXCEPT ![e] = t] /\ UNCHANGED <<kind, record, items, asked, late, clashed>>
      /\ late \in [Editors -> BOOLEAN]
  BY DEF BeginEdit, ReplacementInv, ReplacementTypeOK
<1>2. edit'[e] = t
  BY <1>1 DEF ReplacementInv, ReplacementTypeOK
<1>3. EditInv(e)'
  BY <1>1, <1>2 DEF EditInv, EditIsWhole, DeleteSawAll, TransitionWasChecked, EditAt, Complete,
                    PromotionComplete, ProgramComplete
<1> QED BY <1>1, <1>3, EditStep

\* What every COMMIT leaves of the other edits in flight.
LEMMA CommitInv ==
  ASSUME ReplacementInv, NEW e \in Editors, kind' = kind,
         edit' \in [Editors -> EditRow \cup {NoEdit}],
         late' = [o \in Editors |-> o # e /\ edit[o] # NoEdit],
         \A o \in Editors :
           \/ edit'[o] = NoEdit
           \/ edit[o] # NoEdit /\ o # e /\ edit'[o].step = edit[o].step /\
              edit'[o].row = edit[o].row /\ edit'[o].rows = edit[o].rows
  PROVE  \A o \in Editors : EditInv(o)'
<1> SUFFICES ASSUME NEW o \in Editors, edit'[o] # NoEdit PROVE EditInv(o)'
  BY DEF EditInv, EditIsWhole, DeleteSawAll, TransitionWasChecked, EditAt
<1>1. EditInv(o) /\ late'[o]
  BY DEF ReplacementInv
<1> QED
  BY <1>1 DEF EditInv, EditIsWhole, DeleteSawAll, TransitionWasChecked, EditAt, Complete,
              PromotionComplete, ProgramComplete

\* COMMIT does that.
LEMMA CommitEdits ==
  ASSUME ReplacementInv, NEW e \in Editors, EditAt(e, edit[e].step), Commit(e)
  PROVE  /\ kind' = kind
         /\ edit' \in [Editors -> EditRow \cup {NoEdit}]
         /\ late' = [o \in Editors |-> o # e /\ edit[o] # NoEdit]
         /\ \A o \in Editors :
              \/ edit'[o] = NoEdit
              \/ edit[o] # NoEdit /\ o # e /\ edit'[o].step = edit[o].step /\
                 edit'[o].row = edit[o].row /\ edit'[o].rows = edit[o].rows
         /\ late' \in [Editors -> BOOLEAN]
         /\ clashed' = (clashed \/ late[e])
<1>1. /\ kind' = kind /\ late' = [o \in Editors |-> o # e /\ edit[o] # NoEdit]
      /\ clashed' = (clashed \/ late[e])
  BY DEF Commit
<1> DEFINE next(o) ==
      IF o = e \/ edit[o] = NoEdit THEN NoEdit
      ELSE IF edit[o].step = "save" /\ edit[e].step = "save" THEN [edit[o] EXCEPT !.old = {}]
      ELSE edit[o]
<1>2. edit' = [o \in Editors |-> next(o)]
  BY DEF Commit
<1>3. ASSUME NEW o \in Editors
      PROVE  /\ next(o) \in EditRow \cup {NoEdit}
             /\ \/ next(o) = NoEdit
                \/ edit[o] # NoEdit /\ o # e /\ next(o).step = edit[o].step /\
                   next(o).row = edit[o].row /\ next(o).rows = edit[o].rows
  <2>1. CASE o = e \/ edit[o] = NoEdit
    BY <2>1
  <2>2. CASE o # e /\ edit[o] # NoEdit
    <3>1. edit[o] \in EditRow
      BY <2>2 DEF ReplacementInv, ReplacementTypeOK
    <3>2. next(o) = [edit[o] EXCEPT !.old = {}] \/ next(o) = edit[o]
      BY <2>2
    <3> HIDE DEF next
    <3> QED BY <2>2, <3>1, <3>2 DEF EditRow
  <2> QED BY <2>1, <2>2
<1> HIDE DEF next
<1>4. edit' \in [Editors -> EditRow \cup {NoEdit}] /\ late' \in [Editors -> BOOLEAN]
  BY <1>1, <1>2, <1>3
<1>5. \A o \in Editors : edit'[o] = next(o)
  BY <1>2
<1> QED BY <1>1, <1>3, <1>4, <1>5

LEMMA CreateInv ==
  ASSUME ReplacementInv, NEW e \in Editors, NEW row \in RecordRow, NEW given \in RowLists,
         Create(e, row, given)
  PROVE  ReplacementInv'
<1>1. /\ edit' = edit /\ kind' = kind /\ record' = row /\ items' = given /\ asked' = given
      /\ clashed' = clashed /\ edit[e] = NoEdit /\ Complete(row, given)
      /\ late' = [o \in Editors |-> o # e /\ edit[o] # NoEdit]
  BY DEF Create
<1>2. ReplacementTypeOK'
  BY <1>1 DEF ReplacementInv, ReplacementTypeOK, RowLists
<1>3. RecordIsComplete'
  BY <1>1 DEF RecordIsComplete, Whole, AsAsked, Complete, PromotionComplete, ProgramComplete
<1>4. \A o \in Editors : edit'[o] = NoEdit \/ (edit[o] # NoEdit /\ o # e)
  BY <1>1
<1>5. \A o \in Editors : EditInv(o)'
  BY <1>1, <1>2, <1>4, CommitInv DEF ReplacementTypeOK
<1> QED BY <1>2, <1>3, <1>5 DEF ReplacementInv

LEMMA DeleteRowsInv ==
  ASSUME ReplacementInv, NEW e \in Editors, DeleteRows(e)
  PROVE  ReplacementInv'
<1>1. edit[e] \in EditRow /\ EditIsWhole(e) /\ EditAt(e, "delete")
  BY DEF DeleteRows, EditAt, ReplacementInv, ReplacementTypeOK, EditInv
<1> DEFINE t == [edit[e] EXCEPT !.step = "save", !.old = items]
<1>2. t \in EditRow /\ t.step = "save" /\ t.old = items /\ t.row = edit[e].row /\ t.rows = edit[e].rows
  BY <1>1 DEF EditRow, ReplacementInv, ReplacementTypeOK
<1>3. /\ edit' = [edit EXCEPT ![e] = t] /\ UNCHANGED <<kind, record, items, asked, late, clashed>>
      /\ late \in [Editors -> BOOLEAN]
  BY DEF DeleteRows, OldRows, ReplacementInv, ReplacementTypeOK
<1>4. edit'[e] = t
  BY <1>3 DEF ReplacementInv, ReplacementTypeOK
<1> HIDE DEF t
<1>5. EditInv(e)'
  BY <1>1, <1>2, <1>3, <1>4 DEF EditInv, EditIsWhole, DeleteSawAll, TransitionWasChecked, EditAt,
     Complete, PromotionComplete, ProgramComplete
<1> QED BY <1>2, <1>3, <1>5, EditStep

\* Rows are only kept when somebody else has committed since the DELETE.
LEMMA ReplaceInv ==
  ASSUME ReplacementInv, NEW e \in Editors, Replace(e) \/ ReplacePermissions(e)
  PROVE  ReplacementInv'
<1> DEFINE t == edit[e]
<1>1. EditAt(e, "save") /\ t \in EditRow /\ EditInv(e) /\ InsertRows(e) /\ t.step = "save"
  BY DEF Replace, ReplacePermissions, InsertRows, EditAt, ReplacementInv, ReplacementTypeOK
<1>2. t.row \in RecordRow /\ t.rows \in SUBSET Items /\ Complete(t.row, t.rows)
  BY <1>1 DEF EditRow, EditInv, EditIsWhole
<1>3. items' = (items \ t.old) \cup t.rows /\ asked' = t.rows /\ Commit(e) /\ record # NoRecord
  BY <1>1 DEF InsertRows, Kept
<1>4. (record' = t.row /\ kind # "permissions") \/ (record' = record /\ kind = "permissions")
  BY DEF Replace, ReplacePermissions
<1>5. /\ kind' = kind /\ clashed' = (clashed \/ late[e])
      /\ late' = [o \in Editors |-> o # e /\ edit[o] # NoEdit] /\ late' \in [Editors -> BOOLEAN]
      /\ edit' \in [Editors -> EditRow \cup {NoEdit}]
  BY <1>1, <1>3, CommitEdits
<1>6. \A o \in Editors : EditInv(o)'
  BY <1>1, <1>3, CommitEdits, CommitInv
<1>7. ReplacementTypeOK'
  BY <1>2, <1>3, <1>4, <1>5 DEF ReplacementInv, ReplacementTypeOK
<1>8. AsAsked'
  <2>1. ~clashed' => items \subseteq t.old
    BY <1>1, <1>5 DEF EditInv, DeleteSawAll
  <2> QED BY <1>3, <2>1 DEF AsAsked
<1>9. Whole'
  <2>1. t.rows \subseteq items'
    BY <1>3
  <2>2. Complete(t.row, items')
    BY <1>2, <2>1, MoreRows
  <2> QED BY <1>4, <1>5, <2>2 DEF Whole, Complete, PromotionComplete, ProgramComplete
<1> QED BY <1>6, <1>7, <1>8, <1>9 DEF ReplacementInv, RecordIsComplete

LEMMA TransitionInv ==
  ASSUME ReplacementInv, NEW e \in Editors, Transition(e)
  PROVE  ReplacementInv'
<1> DEFINE t == edit[e]
<1>1. EditAt(e, "transition") /\ t \in EditRow /\ EditInv(e) /\ t.step = "transition"
  BY DEF Transition, EditAt, ReplacementInv, ReplacementTypeOK
<1>2. /\ record # NoRecord /\ record' = [record EXCEPT !.status = t.row.status]
      /\ items' = items /\ asked' = asked /\ Commit(e) /\ record \in RecordRow
  BY DEF Transition, ReplacementInv, ReplacementTypeOK
<1>3. /\ kind' = kind /\ clashed' = (clashed \/ late[e])
      /\ late' = [o \in Editors |-> o # e /\ edit[o] # NoEdit] /\ late' \in [Editors -> BOOLEAN]
      /\ edit' \in [Editors -> EditRow \cup {NoEdit}]
  BY <1>1, <1>2, CommitEdits
<1>4. \A o \in Editors : EditInv(o)'
  BY <1>1, <1>2, CommitEdits, CommitInv
<1>5. record' \in RecordRow /\ record'.open = record.open /\ record'.status = t.row.status
  BY <1>1, <1>2 DEF RecordRow, EditRow
<1>6. ReplacementTypeOK'
  BY <1>2, <1>3, <1>5 DEF ReplacementInv, ReplacementTypeOK
<1>7. AsAsked'
  BY <1>2, <1>3 DEF ReplacementInv, RecordIsComplete, AsAsked
<1>8. Whole'
  <2>1. kind = "promotion"
    BY <1>1 DEF EditInv, TransitionWasChecked
  <2>2. ~clashed' /\ t.row.status = "ACTIVE" => record.open /\ items # {}
    BY <1>1, <1>2, <1>3 DEF EditInv, TransitionWasChecked
  <2> QED BY <1>2, <1>3, <1>5, <2>1, <2>2 DEF Whole, Complete, PromotionComplete
<1> QED BY <1>4, <1>6, <1>7, <1>8 DEF ReplacementInv, RecordIsComplete

LEMMA RemoveInv ==
  ASSUME ReplacementInv, NEW e \in Editors, Remove(e)
  PROVE  ReplacementInv'
<1>1. EditAt(e, edit[e].step) /\ Commit(e) /\ record' = NoRecord /\ items' = {} /\ asked' = {}
  BY DEF Remove, EditAt
<1>2. /\ kind' = kind /\ clashed' = (clashed \/ late[e]) /\ late' \in [Editors -> BOOLEAN]
      /\ edit' \in [Editors -> EditRow \cup {NoEdit}]
  BY <1>1, CommitEdits
<1>3. \A o \in Editors : EditInv(o)'
  BY <1>1, CommitEdits, CommitInv
<1>4. ReplacementTypeOK'
  BY <1>1, <1>2 DEF ReplacementInv, ReplacementTypeOK
<1>5. RecordIsComplete'
  BY <1>1 DEF RecordIsComplete, Whole, AsAsked
<1> QED BY <1>3, <1>4, <1>5 DEF ReplacementInv

LEMMA FailEditInv ==
  ASSUME ReplacementInv, NEW e \in Editors, FailEdit(e)
  PROVE  ReplacementInv'
<1>1. /\ edit' = [edit EXCEPT ![e] = NoEdit] /\ late' = [late EXCEPT ![e] = FALSE]
      /\ UNCHANGED <<kind, record, items, asked, clashed>>
  BY DEF FailEdit
<1>2. late' \in [Editors -> BOOLEAN] /\ \A o \in Editors \ {e} : late'[o] = late[o]
  BY <1>1 DEF ReplacementInv, ReplacementTypeOK
<1>3. edit'[e] = NoEdit
  BY <1>1 DEF ReplacementInv, ReplacementTypeOK
<1>4. EditInv(e)'
  BY <1>3 DEF EditInv, EditIsWhole, DeleteSawAll, TransitionWasChecked, EditAt
<1> QED BY <1>1, <1>2, <1>4, EditStep

\* A request that begins has checked what it will write.
LEMMA AskEditInv ==
  ASSUME ReplacementInv, NEW e \in Editors,
         \/ \E row \in RecordRow, given \in RowLists : AskUpdate(e, row, given)
         \/ \E status \in {"ACTIVE", "PAUSED", "ARCHIVED"} : AskTransition(e, status)
         \/ AskRemove(e)
  PROVE  ReplacementInv'
<1>1. ASSUME NEW row \in RecordRow, NEW given \in RowLists, AskUpdate(e, row, given) PROVE ReplacementInv'
  <2> DEFINE t == Edit("delete", row, given)
  <2>1. t \in EditRow /\ t.step = "delete" /\ t.row = row /\ t.rows = given
    BY DEF Edit, EditRow, RowLists
  <2>2. BeginEdit(e, t) /\ Complete(row, given)
    BY <1>1 DEF AskUpdate
  <2> HIDE DEF t
  <2> QED BY <2>1, <2>2, BeginEditInv
<1>2. ASSUME NEW status \in {"ACTIVE", "PAUSED", "ARCHIVED"}, AskTransition(e, status)
      PROVE  ReplacementInv'
  <2>1. record \in RecordRow
    BY <1>2 DEF AskTransition, Editable, ReplacementInv, ReplacementTypeOK
  <2> DEFINE row == [record EXCEPT !.status = status]
             t == Edit("transition", row, {})
  <2>2. row \in RecordRow /\ row.status = status /\ row.open = record.open
    BY <2>1 DEF RecordRow
  <2>3. kind = "promotion" /\ BeginEdit(e, t) /\ (status = "ACTIVE" => Complete(row, items))
    BY <1>2 DEF AskTransition, MayRun
  <2> HIDE DEF row
  <2>4. t \in EditRow /\ t.step = "transition" /\ t.row = row
    BY <2>2 DEF Edit, EditRow
  <2> HIDE DEF t
  <2>5. t.row.status = "ACTIVE" => record.open /\ items # {}
    BY <2>2, <2>3, <2>4 DEF Complete, PromotionComplete
  <2> QED BY <2>3, <2>4, <2>5, BeginEditInv
<1>3. CASE AskRemove(e)
  <2>1. record \in RecordRow
    BY <1>3 DEF AskRemove, Editable, ReplacementInv, ReplacementTypeOK
  <2> DEFINE t == Edit("remove", record, {})
  <2>2. t \in EditRow /\ t.step = "remove" /\ BeginEdit(e, t)
    BY <1>3, <2>1 DEF AskRemove, Edit, EditRow
  <2> HIDE DEF t
  <2> QED BY <2>2, BeginEditInv
<1> QED BY <1>1, <1>2, <1>3

LEMMA ReplacementNextInv == ReplacementInv /\ [ReplacementNext]_replacementVars => ReplacementInv'
<1> SUFFICES ASSUME ReplacementInv, [ReplacementNext]_replacementVars PROVE ReplacementInv'
  OBVIOUS
<1>1. CASE UNCHANGED replacementVars
  <2>1. ReplacementTypeOK'
    BY <1>1 DEF replacementVars, ReplacementInv, ReplacementTypeOK
  <2>2. RecordIsComplete'
    BY <1>1 DEF replacementVars, ReplacementInv, RecordIsComplete, Whole, AsAsked, Complete,
                PromotionComplete, ProgramComplete
  <2>3. \A o \in Editors : EditInv(o)'
    BY <1>1 DEF replacementVars, ReplacementInv, EditInv, EditIsWhole, DeleteSawAll,
                TransitionWasChecked, EditAt, Complete, PromotionComplete, ProgramComplete
  <2> QED BY <2>1, <2>2, <2>3 DEF ReplacementInv
<1>2. ASSUME NEW e \in Editors, Maintain(e) PROVE ReplacementInv'
  <2>1. ASSUME NEW status \in Statuses, NEW open \in BOOLEAN
        PROVE  [status |-> status, open |-> open] \in RecordRow
    BY DEF Statuses, RecordRow
  <2> QED
    BY <1>2, <2>1, CreateInv, AskEditInv, DeleteRowsInv, ReplaceInv, TransitionInv, RemoveInv,
       FailEditInv DEF Maintain
<1> QED BY <1>1, <1>2 DEF ReplacementNext

-----------------------------------------------------------------------------
(* Records: theorem *)

\* However many requests replace the rows of a record: the rows of the last replacement
\* are there, a program keeps what it needs, and unless requests overlapped so does a
\* promotion that runs (promotion.service.ts, loyalty.service.ts: deleteMany, createMany).
THEOREM RecordsStayComplete == ReplacementSpec => []RecordIsComplete
<1>1. ReplacementInit => ReplacementInv
  BY ReplacementInitInv
<1>2. ReplacementInv /\ [ReplacementNext]_replacementVars => ReplacementInv'
  BY ReplacementNextInv
<1>3. ReplacementInv => RecordIsComplete
  BY DEF ReplacementInv
<1> QED BY <1>1, <1>2, <1>3, PTL DEF ReplacementSpec

-----------------------------------------------------------------------------
(* Accounts: types and the inductive invariant *)

LinkKinds == {"verify", "reset"}
LinkRow ==
  [kind : LinkKinds, to : Addresses \cup {NoAddress}, state : {"live", "expired", "gone"},
   mailed : BOOLEAN]
VisitRow ==
  [step : {"delete", "create", "mail", "claim"}, kind : LinkKinds, to : Addresses \cup {NoAddress},
   link : Nat, deleted : SUBSET Nat]

AccountTypeOK ==
  /\ address \in Addresses \cup {NoAddress}
  /\ verified \in BOOLEAN
  /\ links \in Seq(LinkRow)
  /\ Len(links) <= MaxLinks
  /\ visit \in [Visitors -> VisitRow \cup {NoVisit}]
  /\ used \in [1 .. MaxLinks -> Nat]
  /\ disturbed \in BOOLEAN

\* A link that was claimed is gone, which is why it is not claimed again.
UsedAreGone ==
  \A l \in 1 .. MaxLinks : used[l] <= 1 /\ (used[l] # 0 => l \in DOMAIN links /\ links[l].state = "gone")

\* A request that mails or claims a link knows what it is for.
LinkIsKnown(v) ==
  VisitAt(v, "mail") \/ VisitAt(v, "claim") =>
    visit[v].link \in DOMAIN links /\ visit[v].kind = links[visit[v].link].kind

\* A request has changed the address, or mails it again, and not made a link for it yet.
Moving(v) == visit[v] # NoVisit /\ visit[v].kind = "verify" /\ visit[v].step \in {"delete", "create"}

\* While requests neither overlap nor fail half-way:
OneVisit == \A v, o \in Visitors : visit[v] # NoVisit /\ visit[o] # NoVisit => v = o
MovesToAddress == \A v \in Visitors : Moving(v) => visit[v].to = address
\* between two such requests every link to verify an address is for the present one,
LinksAreForAddress ==
  \A l \in DOMAIN links : links[l].kind = "verify" /\ links[l].state # "gone" =>
    \/ links[l].to = address
    \/ \E v \in Visitors : Moving(v) /\ (visit[v].step = "create" => l \in visit[v].deleted)
\* and so was the one that verified it.
VerifiedForAddress == verified => proven = address \/ \E v \in Visitors : Moving(v)

Undisturbed == OneVisit /\ MovesToAddress /\ LinksAreForAddress /\ VerifiedForAddress

AccountInv ==
  /\ AccountTypeOK
  /\ UsedAreGone
  /\ \A v \in Visitors : LinkIsKnown(v)
  /\ ~disturbed => Undisturbed

-----------------------------------------------------------------------------
(* Accounts: lemmas *)

\* Replacing the rows of a sequence keeps its length, and appending one keeps the rows.
LEMMA LinksReplaced ==
  ASSUME NEW S, NEW T, NEW given \in Seq(S), NEW next \in [DOMAIN given -> T]
  PROVE  next \in Seq(T) /\ DOMAIN next = DOMAIN given /\ Len(next) = Len(given)
  OBVIOUS

LEMMA LinkAppended ==
  ASSUME NEW S, NEW given \in Seq(S), NEW row \in S
  PROVE  /\ Append(given, row) \in Seq(S)
         /\ Len(Append(given, row)) = Len(given) + 1
         /\ DOMAIN Append(given, row) = DOMAIN given \cup {Len(given) + 1}
         /\ Len(given) + 1 \notin DOMAIN given
         /\ \A i \in DOMAIN given : Append(given, row)[i] = given[i]
         /\ Append(given, row)[Len(given) + 1] = row
  OBVIOUS

\* Every request in flight is one that is told from none.
LEMMA VisitsAreThere == \A t \in VisitRow : t # NoVisit
  BY VisitAssumption DEF VisitRow, LinkKinds

\* Every link that there is has a number within the bound.
LEMMA LinkNumbers ==
  ASSUME AccountTypeOK
  PROVE  DOMAIN links \subseteq 1 .. MaxLinks /\ DOMAIN links = 1 .. Len(links) /\ Len(links) \in Nat
<1>1. DOMAIN links = 1 .. Len(links) /\ Len(links) \in Nat /\ Len(links) <= MaxLinks
  BY DEF AccountTypeOK
<1> QED BY <1>1, LinkAssumption

LEMMA AccountInitInv == AccountInit => AccountInv
<1> SUFFICES ASSUME AccountInit PROVE AccountInv
  OBVIOUS
<1>1. AccountTypeOK
  <2>1. links \in Seq(LinkRow) /\ Len(links) = 0
    BY DEF AccountInit
  <2>2. used \in [1 .. MaxLinks -> Nat] /\ visit \in [Visitors -> VisitRow \cup {NoVisit}]
    BY DEF AccountInit
  <2>3. Len(links) <= MaxLinks
    BY <2>1, LinkAssumption
  <2>4. address \in Addresses \cup {NoAddress} /\ verified \in BOOLEAN /\ disturbed \in BOOLEAN
    BY DEF AccountInit
  <2> QED BY <2>1, <2>2, <2>3, <2>4 DEF AccountTypeOK
<1>2. DOMAIN links = {}
  BY DEF AccountInit
<1> QED
  BY <1>1, <1>2 DEF AccountInit, AccountInv, UsedAreGone, LinkIsKnown, VisitAt, Undisturbed, OneVisit,
     MovesToAddress, LinksAreForAddress, VerifiedForAddress, Moving

\* A request begins; it may change the address if it will make a link for it.
LEMMA BeginVisitInv ==
  ASSUME AccountInv, NEW v \in Visitors, NEW t \in VisitRow, BeginVisit(v, t),
         UNCHANGED <<verified, links, used, proven>>,
         address' \in Addresses \cup {NoAddress},
         \/ t.kind = "verify" /\ t.step = "delete" /\ t.to = address'
         \/ address' = address /\ t.step = "delete" /\ t.kind = "reset"
         \/ address' = address /\ t.step = "claim" /\ t.link \in DOMAIN links /\ t.kind = links[t.link].kind
  PROVE  AccountInv'
<1>1. /\ visit' = [visit EXCEPT ![v] = t] /\ disturbed' = (disturbed \/ ~OnlyVisit(v))
      /\ visit[v] = NoVisit
  BY DEF BeginVisit
<1>2. /\ visit'[v] = t /\ t # NoVisit
      /\ \A o \in Visitors \ {v} : visit'[o] = visit[o]
  BY <1>1, VisitsAreThere DEF AccountInv, AccountTypeOK
<1>3. AccountTypeOK'
  BY <1>1 DEF AccountInv, AccountTypeOK
<1>4. UsedAreGone'
  BY DEF AccountInv, UsedAreGone
<1>5. ASSUME NEW o \in Visitors PROVE LinkIsKnown(o)'
  BY <1>2 DEF AccountInv, LinkIsKnown, VisitAt
<1>6. ASSUME ~disturbed' PROVE Undisturbed'
  <2>1. ~disturbed /\ Undisturbed /\ \A o \in Visitors : visit[o] = NoVisit
    BY <1>1, <1>6 DEF AccountInv, AccountTypeOK, OnlyVisit
  <2>2. \A o \in Visitors \ {v} : visit'[o] = NoVisit
    BY <1>2, <2>1
  <2>3. ~\E o \in Visitors : Moving(o)
    BY <2>1 DEF Moving
  <2>4. OneVisit'
    BY <2>2 DEF OneVisit
  <2>5. MovesToAddress'
    BY <1>2, <2>2 DEF MovesToAddress, Moving
  <2>6. (Moving(v)' /\ visit'[v].step = "delete") \/ address' = address
    BY <1>2 DEF Moving
  <2>7. LinksAreForAddress'
    BY <2>1, <2>3, <2>6 DEF Undisturbed, LinksAreForAddress
  <2>8. VerifiedForAddress'
    BY <2>1, <2>3, <2>6 DEF Undisturbed, VerifiedForAddress
  <2> QED BY <2>4, <2>5, <2>7, <2>8 DEF Undisturbed
<1> QED BY <1>3, <1>4, <1>5, <1>6 DEF AccountInv

\* While nothing overlaps, a request that is not moving the address is the only one.
LEMMA NobodyMoves ==
  ASSUME AccountInv, ~disturbed, NEW v \in Visitors, visit[v] # NoVisit, ~Moving(v)
  PROVE  /\ ~\E o \in Visitors : Moving(o)
         /\ Undisturbed
         /\ \A o \in Visitors \ {v} : visit[o] = NoVisit
         /\ verified => proven = address
         /\ \A l \in DOMAIN links :
              links[l].kind = "verify" /\ links[l].state # "gone" => links[l].to = address
  BY DEF AccountInv, Undisturbed, OneVisit, Moving, LinksAreForAddress, VerifiedForAddress

LEMMA DeleteLinksInv ==
  ASSUME AccountInv, NEW v \in Visitors, DeleteLinks(v)
  PROVE  AccountInv'
<1> DEFINE old == OldLinks(visit[v].kind)
           t == [visit[v] EXCEPT !.step = "create", !.deleted = old]
<1>1. visit[v] \in VisitRow /\ visit[v] # NoVisit /\ visit[v].step = "delete"
  BY DEF DeleteLinks, VisitAt, AccountInv, AccountTypeOK
<1>2. old \in SUBSET Nat
  BY LinkNumbers DEF OldLinks, AccountInv
<1>3. visit' = [visit EXCEPT ![v] = t] /\ UNCHANGED <<disturbed, accountRows, used, proven>>
  BY DEF DeleteLinks, ContinueVisit
<1>4. \A l \in DOMAIN links : links[l].kind = visit[v].kind /\ links[l].state # "gone" => l \in old
  BY DEF OldLinks
<1> HIDE DEF old
<1>5. /\ t \in VisitRow /\ t.step = "create" /\ t.deleted = old /\ t.to = visit[v].to
      /\ t.kind = visit[v].kind
  BY <1>1, <1>2 DEF VisitRow
<1> HIDE DEF t
<1>6. /\ visit'[v] = t /\ t # NoVisit /\ \A o \in Visitors \ {v} : visit'[o] = visit[o]
      /\ UNCHANGED <<address, verified, links>>
  BY <1>3, <1>5, VisitsAreThere DEF AccountInv, AccountTypeOK, accountRows
<1>7. AccountTypeOK'
  BY <1>3, <1>5, <1>6 DEF AccountInv, AccountTypeOK
<1>8. UsedAreGone'
  BY <1>3, <1>6 DEF AccountInv, UsedAreGone
<1>9. \A o \in Visitors : LinkIsKnown(o)'
  BY <1>5, <1>6 DEF AccountInv, LinkIsKnown, VisitAt
<1>10. ASSUME ~disturbed' PROVE Undisturbed'
  <2>1. Undisturbed
    BY <1>3, <1>10 DEF AccountInv
  <2>2. OneVisit'
    BY <1>1, <1>6, <2>1 DEF Undisturbed, OneVisit
  <2>3. \A o \in Visitors : (Moving(o) <=> Moving(o)') /\ (Moving(o) => visit'[o].to = visit[o].to)
    BY <1>1, <1>5, <1>6 DEF Moving
  <2>4. MovesToAddress'
    BY <1>6, <2>1, <2>3 DEF Undisturbed, MovesToAddress
  <2>5. VerifiedForAddress'
    BY <1>3, <1>6, <2>1, <2>3 DEF Undisturbed, VerifiedForAddress
  <2>6. ASSUME NEW l \in DOMAIN links, links[l].kind = "verify", links[l].state # "gone"
        PROVE  \/ links[l].to = address
               \/ \E o \in Visitors : Moving(o)' /\ (visit'[o].step = "create" => l \in visit'[o].deleted)
    <3>1. CASE links[l].to = address
      BY <3>1
    <3>2. ASSUME NEW o \in Visitors, Moving(o) PROVE Moving(o)' /\ l \in visit'[o].deleted
      <4>1. o = v
        BY <1>1, <2>1, <3>2 DEF Undisturbed, OneVisit, Moving
      <4>2. visit[v].kind = "verify"
        BY <3>2, <4>1 DEF Moving
      <4> QED BY <1>4, <1>5, <1>6, <2>3, <2>6, <3>2, <4>1, <4>2
    <3> QED BY <2>1, <2>6, <3>2 DEF Undisturbed, LinksAreForAddress
  <2>7. LinksAreForAddress'
    BY <1>6, <2>6 DEF LinksAreForAddress
  <2> QED BY <2>2, <2>4, <2>5, <2>7 DEF Undisturbed
<1> QED BY <1>7, <1>8, <1>9, <1>10 DEF AccountInv

\* The only place where a link comes into being: the ones before it are gone by then.
LEMMA CreateLinkInv ==
  ASSUME AccountInv, NEW v \in Visitors, CreateLink(v)
  PROVE  AccountInv'
<1> DEFINE gone == visit[v].deleted
           kept == [l \in DOMAIN links |->
                      IF l \in gone THEN [links[l] EXCEPT !.state = "gone"] ELSE links[l]]
           link == [kind |-> visit[v].kind, to |-> visit[v].to, state |-> "live", mailed |-> FALSE]
           n == Len(links) + 1
           t == [visit[v] EXCEPT !.step = "mail", !.link = n, !.deleted = {}]
<1>1. visit[v] \in VisitRow /\ visit[v] # NoVisit /\ visit[v].step = "create"
  BY DEF CreateLink, VisitAt, AccountInv, AccountTypeOK
<1>2. /\ links' = Append(kept, link) /\ visit' = [visit EXCEPT ![v] = t]
      /\ verified' = (verified /\ visit[v].kind = "reset")
      /\ UNCHANGED <<address, used, proven, disturbed>> /\ Len(links) < MaxLinks
  BY DEF CreateLink, ContinueVisit
<1>3. links \in Seq(LinkRow) /\ n \in Nat /\ n = Len(links) + 1 /\ n <= MaxLinks
  BY <1>2, LinkNumbers, LinkAssumption DEF AccountInv, AccountTypeOK
<1>4. /\ t \in VisitRow /\ t.step = "mail" /\ t.link = n /\ t.kind = visit[v].kind
  BY <1>1, <1>3 DEF VisitRow
<1>5. link \in LinkRow /\ link.kind = visit[v].kind /\ link.to = visit[v].to /\ link.state = "live"
  BY <1>1 DEF VisitRow, LinkRow
<1>6. \A l \in DOMAIN links :
        /\ kept[l] \in LinkRow /\ kept[l].kind = links[l].kind /\ kept[l].to = links[l].to
        /\ l \in gone => kept[l].state = "gone"
        /\ l \notin gone => kept[l].state = links[l].state
        /\ links[l].state = "gone" => kept[l].state = "gone"
  <2> SUFFICES ASSUME NEW l \in DOMAIN links
               PROVE  /\ kept[l] \in LinkRow /\ kept[l].kind = links[l].kind /\ kept[l].to = links[l].to
                      /\ l \in gone => kept[l].state = "gone"
                      /\ l \notin gone => kept[l].state = links[l].state
                      /\ links[l].state = "gone" => kept[l].state = "gone"
    OBVIOUS
  <2>1. links[l] \in LinkRow
    BY <1>3
  <2> QED BY <2>1 DEF LinkRow
<1>7. kept \in Seq(LinkRow) /\ DOMAIN kept = DOMAIN links /\ Len(kept) = Len(links)
  <2>1. kept \in [DOMAIN links -> LinkRow]
    BY <1>6
  <2> HIDE DEF kept
  <2> QED BY <1>3, <2>1, LinksReplaced
<1> HIDE DEF kept, link, t, n, gone
<1>8. /\ links' \in Seq(LinkRow) /\ Len(links') = n /\ DOMAIN links' = DOMAIN links \cup {n}
      /\ n \notin DOMAIN links /\ links'[n] = link /\ \A l \in DOMAIN links : links'[l] = kept[l]
  BY <1>2, <1>3, <1>5, <1>7, LinkAppended
<1>9. visit'[v] = t /\ t # NoVisit /\ \A o \in Visitors \ {v} : visit'[o] = visit[o]
  BY <1>2, <1>4, VisitsAreThere DEF AccountInv, AccountTypeOK
<1>10. AccountTypeOK'
  BY <1>2, <1>3, <1>4, <1>8 DEF AccountInv, AccountTypeOK
<1>11. UsedAreGone'
  <2> SUFFICES ASSUME NEW l \in 1 .. MaxLinks
               PROVE  used[l] <= 1 /\ (used[l] # 0 => l \in DOMAIN links' /\ links'[l].state = "gone")
    BY <1>2 DEF UsedAreGone
  <2>1. used[l] <= 1 /\ (used[l] # 0 => l \in DOMAIN links /\ links[l].state = "gone")
    BY DEF AccountInv, UsedAreGone
  <2> QED BY <1>6, <1>8, <2>1
<1>12. ASSUME NEW o \in Visitors PROVE LinkIsKnown(o)'
  <2>1. CASE o = v
    BY <1>4, <1>5, <1>8, <1>9, <2>1 DEF LinkIsKnown, VisitAt
  <2>2. CASE o # v
    <3>1. LinkIsKnown(o) /\ visit'[o] = visit[o]
      BY <1>9, <2>2 DEF AccountInv
    <3> QED BY <1>6, <1>8, <3>1 DEF LinkIsKnown, VisitAt
  <2> QED BY <2>1, <2>2
<1>13. ASSUME ~disturbed' PROVE Undisturbed'
  <2>1. ~disturbed /\ Undisturbed
    BY <1>2, <1>13 DEF AccountInv
  <2>2. \A o \in Visitors \ {v} : visit[o] = NoVisit
    BY <1>1, <2>1 DEF Undisturbed, OneVisit
  <2>3. \A o \in Visitors : ~Moving(o)'
    BY <1>4, <1>9, <2>2 DEF Moving
  <2>4. OneVisit' /\ MovesToAddress'
    BY <1>9, <2>2, <2>3 DEF OneVisit, MovesToAddress
  <2>5. CASE visit[v].kind = "verify"
    <3>1. visit[v].to = address /\ ~verified'
      BY <1>1, <1>2, <2>1, <2>5 DEF Undisturbed, MovesToAddress, Moving
    <3>2. \A l \in DOMAIN links : links[l].kind = "verify" /\ links[l].state # "gone" =>
            links[l].to = address \/ l \in gone
      BY <1>1, <2>1, <2>2 DEF Undisturbed, LinksAreForAddress, Moving, gone
    <3>3. LinksAreForAddress'
      BY <1>2, <1>5, <1>6, <1>8, <3>1, <3>2 DEF LinksAreForAddress
    <3> QED BY <2>4, <3>1, <3>3 DEF Undisturbed, VerifiedForAddress
  <2>6. CASE visit[v].kind # "verify"
    <3>1. ~Moving(v)
      BY <2>6 DEF Moving
    <3>2. /\ verified => proven = address
          /\ \A l \in DOMAIN links :
               links[l].kind = "verify" /\ links[l].state # "gone" => links[l].to = address
      BY <1>1, <2>1, <3>1, NobodyMoves
    <3>3. LinksAreForAddress'
      BY <1>2, <1>5, <1>6, <1>8, <2>6, <3>2 DEF LinksAreForAddress
    <3>4. VerifiedForAddress'
      BY <1>2, <3>2 DEF VerifiedForAddress
    <3> QED BY <2>4, <3>3, <3>4 DEF Undisturbed
  <2> QED BY <2>5, <2>6
<1> QED BY <1>10, <1>11, <1>12, <1>13 DEF AccountInv

\* A step that only changes what has become of one link, and ends the request.
LEMMA LinkStep ==
  ASSUME AccountInv, NEW l \in DOMAIN links, NEW row \in LinkRow,
         row.kind = links[l].kind, row.to = links[l].to,
         row.state = links[l].state \/ links[l].state = "live" \/ row.state = "gone",
         links[l].state = "gone" => row.state = "gone",
         links' = [links EXCEPT ![l] = row],
         used' \in [1 .. MaxLinks -> Nat],
         \A o \in 1 .. MaxLinks \ {l} : used'[o] = used[o],
         used'[l] <= 1, used'[l] # 0 => row.state = "gone",
         \/ visit' = visit
         \/ \E v \in Visitors : visit' = [visit EXCEPT ![v] = NoVisit] /\ ~Moving(v),
         address' = address, disturbed' = disturbed, verified' \in BOOLEAN,
         ~disturbed /\ verified' => (verified /\ proven' = proven)
                                   \/ (proven' = address /\ \A v \in Visitors : ~Moving(v))
  PROVE  AccountInv'
<1>1. links \in Seq(LinkRow) /\ DOMAIN links = 1 .. Len(links) /\ DOMAIN links \subseteq 1 .. MaxLinks
  BY LinkNumbers DEF AccountInv, AccountTypeOK
<1>2. /\ links' \in Seq(LinkRow) /\ DOMAIN links' = DOMAIN links /\ Len(links') = Len(links)
      /\ links'[l] = row /\ \A o \in DOMAIN links \ {l} : links'[o] = links[o]
  BY <1>1
<1>3. \A v \in Visitors : visit'[v] = NoVisit \/ visit'[v] = visit[v]
  BY DEF AccountInv, AccountTypeOK
<1>4. \A v \in Visitors : Moving(v) => visit'[v] = visit[v]
  BY DEF AccountInv, AccountTypeOK, Moving
<1>5. AccountTypeOK'
  <2>1. visit' \in [Visitors -> VisitRow \cup {NoVisit}]
    BY DEF AccountInv, AccountTypeOK
  <2> QED BY <1>2, <2>1 DEF AccountInv, AccountTypeOK
<1>6. UsedAreGone'
  <2> SUFFICES ASSUME NEW o \in 1 .. MaxLinks
               PROVE  used'[o] <= 1 /\ (used'[o] # 0 => o \in DOMAIN links' /\ links'[o].state = "gone")
    BY DEF UsedAreGone
  <2>1. used[o] <= 1 /\ (used[o] # 0 => o \in DOMAIN links /\ links[o].state = "gone")
    BY DEF AccountInv, UsedAreGone
  <2> QED BY <1>2, <2>1
<1>7. ASSUME NEW v \in Visitors PROVE LinkIsKnown(v)'
  <2>1. LinkIsKnown(v)
    BY DEF AccountInv
  <2>2. \A o \in DOMAIN links : links'[o].kind = links[o].kind
    BY <1>2
  <2> QED BY <1>2, <1>3, <2>1, <2>2 DEF LinkIsKnown, VisitAt
<1>8. ASSUME ~disturbed' PROVE Undisturbed'
  <2>1. Undisturbed
    BY <1>8 DEF AccountInv
  <2>2. OneVisit'
    BY <1>3, <2>1 DEF Undisturbed, OneVisit
  <2>3. \A v \in Visitors : (Moving(v)' => Moving(v)) /\ (Moving(v) => Moving(v)' /\ visit'[v] = visit[v])
    BY <1>3, <1>4 DEF Moving
  <2>4. MovesToAddress'
    BY <2>1, <2>3 DEF Undisturbed, MovesToAddress
  <2>5. VerifiedForAddress'
    BY <1>8, <2>1, <2>3 DEF Undisturbed, VerifiedForAddress
  <2>6. ASSUME NEW o \in DOMAIN links', links'[o].kind = "verify", links'[o].state # "gone"
        PROVE  \/ links'[o].to = address'
               \/ \E v \in Visitors : Moving(v)' /\ (visit'[v].step = "create" => o \in visit'[v].deleted)
    <3>1. /\ o \in DOMAIN links /\ links[o].kind = "verify" /\ links[o].state # "gone"
          /\ links'[o].to = links[o].to
      BY <1>2, <2>6
    <3>2. CASE links[o].to = address
      BY <3>1, <3>2
    <3>3. CASE \E v \in Visitors : Moving(v) /\ (visit[v].step = "create" => o \in visit[v].deleted)
      BY <2>3, <3>3
    <3> QED BY <2>1, <3>1, <3>2, <3>3 DEF Undisturbed, LinksAreForAddress
  <2>7. LinksAreForAddress'
    BY <2>6 DEF LinksAreForAddress
  <2> QED BY <2>2, <2>4, <2>5, <2>7 DEF Undisturbed
<1> QED BY <1>5, <1>6, <1>7, <1>8 DEF AccountInv

\* The fields of a link that was mailed, deleted, claimed or has expired.
LEMMA LinkFields ==
  ASSUME NEW link \in LinkRow
  PROVE  /\ \A state \in {"live", "expired", "gone"} :
              /\ [link EXCEPT !.state = state] \in LinkRow
              /\ [link EXCEPT !.state = state].kind = link.kind
              /\ [link EXCEPT !.state = state].to = link.to
              /\ [link EXCEPT !.state = state].state = state
         /\ [link EXCEPT !.mailed = TRUE] \in LinkRow
         /\ [link EXCEPT !.mailed = TRUE].kind = link.kind
         /\ [link EXCEPT !.mailed = TRUE].to = link.to
         /\ [link EXCEPT !.mailed = TRUE].state = link.state
  BY DEF LinkRow

\* Sending the mail, or failing to.
LEMMA MailInv ==
  ASSUME AccountInv, NEW v \in Visitors, SendMail(v) \/ ResetMailFails(v)
  PROVE  AccountInv'
<1> DEFINE l == visit[v].link
           row == IF SendMail(v) THEN [links[l] EXCEPT !.mailed = TRUE]
                                 ELSE [links[l] EXCEPT !.state = "gone"]
<1>1. VisitAt(v, "mail") /\ LinkIsKnown(v)
  BY DEF SendMail, ResetMailFails, AccountInv
<1>2. l \in DOMAIN links /\ links[l] \in LinkRow /\ l \in 1 .. MaxLinks
  BY <1>1, LinkNumbers DEF LinkIsKnown, AccountInv, AccountTypeOK
<1>3. /\ row \in LinkRow /\ row.kind = links[l].kind /\ row.to = links[l].to
      /\ row.state = links[l].state \/ row.state = "gone"
  BY <1>2, LinkFields
<1>4. /\ links' = [links EXCEPT ![l] = row]
      /\ visit' = [visit EXCEPT ![v] = NoVisit]
      /\ UNCHANGED <<address, verified, used, proven, disturbed>>
  <2>1. CASE SendMail(v)
    BY <1>2, <2>1 DEF SendMail, Finish
  <2>2. CASE ~SendMail(v)
    BY <1>2, <2>2 DEF ResetMailFails, Finish
  <2> QED BY <2>1, <2>2
<1>5. ~Moving(v)
  BY <1>1 DEF Moving, VisitAt
<1>6. used \in [1 .. MaxLinks -> Nat] /\ used[l] <= 1 /\ (used[l] # 0 => links[l].state = "gone")
      /\ verified \in BOOLEAN
  BY <1>2 DEF AccountInv, AccountTypeOK, UsedAreGone
<1> HIDE DEF l, row
<1> QED BY <1>2, <1>3, <1>4, <1>5, <1>6, LinkStep

LEMMA ExpireLinkInv ==
  ASSUME AccountInv, NEW l \in DOMAIN links, ExpireLink(l)
  PROVE  AccountInv'
<1> DEFINE row == [links[l] EXCEPT !.state = "expired"]
<1>1. links[l] \in LinkRow /\ l \in 1 .. MaxLinks /\ links[l].state = "live"
  BY LinkNumbers DEF AccountInv, AccountTypeOK, ExpireLink, LiveLink
<1>2. row \in LinkRow /\ row.kind = links[l].kind /\ row.to = links[l].to
  BY <1>1, LinkFields
<1>3. /\ links' = [links EXCEPT ![l] = row]
      /\ UNCHANGED <<visit, address, verified, used, proven, disturbed>>
  BY DEF ExpireLink, accountGhosts
<1>4. used \in [1 .. MaxLinks -> Nat] /\ used[l] <= 1 /\ (used[l] # 0 => links[l].state = "gone")
      /\ verified \in BOOLEAN
  BY <1>1 DEF AccountInv, AccountTypeOK, UsedAreGone
<1> HIDE DEF row
<1> QED BY <1>1, <1>2, <1>3, <1>4, LinkStep

\* A link is claimed while it is live, and therefore for the first time; one to verify
\* an address is then for the present one, if nothing overlapped.
LEMMA ClaimInv ==
  ASSUME AccountInv, NEW v \in Visitors, VerifyEmail(v) \/ ResetPassword(v)
  PROVE  AccountInv'
<1> DEFINE l == visit[v].link
           row == [links[l] EXCEPT !.state = "gone"]
<1>1. ClaimLink(v) /\ VisitAt(v, "claim") /\ LinkIsKnown(v)
  BY DEF VerifyEmail, ResetPassword, ClaimLink, AccountInv
<1>2. /\ l \in DOMAIN links /\ links[l] \in LinkRow /\ l \in 1 .. MaxLinks
      /\ links[l].kind = visit[v].kind /\ links[l].state = "live"
  BY <1>1, LinkNumbers DEF LinkIsKnown, AccountInv, AccountTypeOK, ClaimLink, Claim, LiveLink
<1>3. row \in LinkRow /\ row.kind = links[l].kind /\ row.to = links[l].to /\ row.state = "gone"
  BY <1>2, LinkFields
<1>4. /\ links' = [links EXCEPT ![l] = row] /\ used' = [used EXCEPT ![l] = @ + 1]
      /\ visit' = [visit EXCEPT ![v] = NoVisit]
      /\ UNCHANGED <<address, disturbed>>
  BY <1>1 DEF ClaimLink, Finish
<1>5. ~Moving(v) /\ visit[v] # NoVisit
  BY <1>1 DEF Moving, VisitAt
<1>6. used \in [1 .. MaxLinks -> Nat] /\ used[l] = 0 /\ verified \in BOOLEAN
  <2>1. used[l] # 0 => links[l].state = "gone"
    BY <1>2 DEF AccountInv, UsedAreGone
  <2> QED BY <1>2, <2>1 DEF AccountInv, AccountTypeOK
<1>7. /\ used' \in [1 .. MaxLinks -> Nat] /\ used'[l] <= 1
      /\ \A o \in 1 .. MaxLinks \ {l} : used'[o] = used[o]
  BY <1>2, <1>4, <1>6
<1>8. /\ verified' \in BOOLEAN
      /\ ~disturbed /\ verified' => (verified /\ proven' = proven)
                                    \/ (proven' = address /\ \A o \in Visitors : ~Moving(o))
  <2>1. CASE VerifyEmail(v)
    <3>1. verified' = TRUE /\ proven' = links[l].to /\ visit[v].kind = "verify"
      BY <2>1 DEF VerifyEmail
    <3>2. ASSUME ~disturbed PROVE links[l].to = address /\ \A o \in Visitors : ~Moving(o)
      BY <1>2, <1>5, <3>1, <3>2, NobodyMoves
    <3> QED BY <3>1, <3>2
  <2>2. CASE ResetPassword(v)
    BY <1>6, <2>2 DEF ResetPassword
  <2> QED BY <2>1, <2>2
<1> HIDE DEF l, row
<1> QED BY <1>2, <1>3, <1>4, <1>5, <1>7, <1>8, LinkStep

LEMMA VisitEndsInv ==
  ASSUME AccountInv, NEW v \in Visitors, Abandon(v) \/ VerificationMailFails(v)
  PROVE  AccountInv'
<1>1. /\ visit' = [visit EXCEPT ![v] = NoVisit]
      /\ UNCHANGED <<address, verified, links, used, proven>>
      /\ disturbed' \in BOOLEAN
  BY DEF Abandon, VerificationMailFails, Finish, accountRows, AccountInv, AccountTypeOK
<1>2. ~disturbed' => ~disturbed /\ VisitAt(v, "mail")
  BY DEF Abandon, VerificationMailFails, Finish
<1>3. \A o \in Visitors : visit'[o] = NoVisit \/ visit'[o] = visit[o]
  BY <1>1 DEF AccountInv, AccountTypeOK
<1>4. AccountTypeOK'
  BY <1>1 DEF AccountInv, AccountTypeOK
<1>5. UsedAreGone' /\ \A o \in Visitors : LinkIsKnown(o)'
  BY <1>1, <1>3 DEF AccountInv, UsedAreGone, LinkIsKnown, VisitAt
<1>6. ASSUME ~disturbed' PROVE Undisturbed'
  <2>1. visit[v] # NoVisit /\ ~Moving(v) /\ ~disturbed
    BY <1>2, <1>6 DEF VisitAt, Moving
  <2>2. /\ \A o \in Visitors : ~Moving(o)
        /\ Undisturbed
        /\ verified => proven = address
        /\ \A l \in DOMAIN links :
             links[l].kind = "verify" /\ links[l].state # "gone" => links[l].to = address
    BY <2>1, NobodyMoves
  <2>3. OneVisit' /\ MovesToAddress'
    BY <1>3, <2>2 DEF Undisturbed, OneVisit, MovesToAddress, Moving
  <2> QED BY <1>1, <2>2, <2>3 DEF Undisturbed, LinksAreForAddress, VerifiedForAddress
<1> QED BY <1>4, <1>5, <1>6 DEF AccountInv

LEMMA OpenVisitInv ==
  ASSUME AccountInv, NEW v \in Visitors,
         \/ \E to \in Addresses : Register(v, to) \/ UpdateEmail(v, to)
         \/ ForgotPassword(v)
         \/ \E l \in DOMAIN links : OpenLink(v, l)
  PROVE  AccountInv'
<1>1. ASSUME NEW to \in Addresses, Register(v, to) \/ UpdateEmail(v, to) PROVE AccountInv'
  <2> DEFINE t == [Visit("delete", "verify") EXCEPT !.to = to]
  <2>1. t \in VisitRow /\ t.kind = "verify" /\ t.step = "delete" /\ t.to = to
    BY DEF Visit, VisitRow, LinkKinds
  <2>2. BeginVisit(v, t) /\ address' = to /\ UNCHANGED <<verified, links, used, proven>>
    BY <1>1 DEF Register, UpdateEmail
  <2> HIDE DEF t
  <2> QED BY <2>1, <2>2, BeginVisitInv
<1>2. CASE ForgotPassword(v)
  <2> DEFINE t == [Visit("delete", "reset") EXCEPT !.to = address]
  <2>0. address \in Addresses \cup {NoAddress}
    BY DEF AccountInv, AccountTypeOK
  <2>1. t \in VisitRow /\ t.kind = "reset" /\ t.step = "delete"
    BY <2>0 DEF Visit, VisitRow, LinkKinds
  <2>2. BeginVisit(v, t) /\ address' = address /\ UNCHANGED <<verified, links, used, proven>>
    BY <1>2 DEF ForgotPassword, accountRows
  <2> HIDE DEF t
  <2> QED BY <2>0, <2>1, <2>2, BeginVisitInv
<1>3. ASSUME NEW l \in DOMAIN links, OpenLink(v, l) PROVE AccountInv'
  <2> DEFINE t == [Visit("claim", links[l].kind) EXCEPT !.link = l]
  <2>0. address \in Addresses \cup {NoAddress} /\ links[l] \in LinkRow /\ l \in Nat
    BY LinkNumbers DEF AccountInv, AccountTypeOK
  <2>1. t \in VisitRow /\ t.kind = links[l].kind /\ t.step = "claim" /\ t.link = l
    BY <2>0 DEF Visit, VisitRow, LinkKinds, LinkRow
  <2>2. BeginVisit(v, t) /\ address' = address /\ UNCHANGED <<verified, links, used, proven>>
    BY <1>3 DEF OpenLink, accountRows
  <2> HIDE DEF t
  <2> QED BY <2>0, <2>1, <2>2, BeginVisitInv
<1> QED BY <1>1, <1>2, <1>3

LEMMA AccountNextInv == AccountInv /\ [AccountNext]_accountVars => AccountInv'
<1> SUFFICES ASSUME AccountInv, [AccountNext]_accountVars PROVE AccountInv'
  OBVIOUS
<1>1. CASE UNCHANGED accountVars
  <2>1. UNCHANGED <<address, verified, links, visit, used, proven, disturbed>>
    BY <1>1 DEF accountVars, accountRows, accountGhosts
  <2>2. AccountTypeOK' /\ UsedAreGone' /\ \A v \in Visitors : LinkIsKnown(v)'
    BY <2>1 DEF AccountInv, AccountTypeOK, UsedAreGone, LinkIsKnown, VisitAt
  <2>3. ~disturbed' => Undisturbed'
    BY <2>1 DEF AccountInv, Undisturbed, OneVisit, MovesToAddress, LinksAreForAddress,
                VerifiedForAddress, Moving
  <2> QED BY <2>2, <2>3 DEF AccountInv
<1>2. ASSUME NEW v \in Visitors, Serve(v) PROVE AccountInv'
  BY <1>2, OpenVisitInv, DeleteLinksInv, CreateLinkInv, MailInv, VisitEndsInv, ClaimInv DEF Serve
<1>3. ASSUME NEW l \in DOMAIN links, ExpireLink(l) PROVE AccountInv'
  BY <1>3, ExpireLinkInv
<1> QED BY <1>1, <1>2, <1>3 DEF AccountNext

-----------------------------------------------------------------------------
(* Accounts: theorems *)

\* The invariant of accounts: a claimed link is gone, and while requests neither
\* overlap nor fail half-way every link that can still verify an address is for the
\* present one, unless a request is about to replace it.
THEOREM AccountsInvariant == AccountSpec => []AccountInv
<1>1. AccountInit => AccountInv
  BY AccountInitInv
<1>2. AccountInv /\ [AccountNext]_accountVars => AccountInv'
  BY AccountNextInv
<1> QED BY <1>1, <1>2, PTL DEF AccountSpec

\* However many requests open the links of however many mails at the same time, a link
\* works once (auth.service.ts: updateMany where usedAt is null).
THEOREM LinksAreUsedOnce == AccountSpec => []LinksWorkOnce
<1>1. AccountInv => LinksWorkOnce
  BY LinkNumbers DEF AccountInv, UsedAreGone, LinksWorkOnce
<1> QED BY <1>1, AccountsInvariant, PTL

\* However often the address changes, whoever may log in has proven the address the
\* account has, unless requests overlapped or failed half-way.
THEOREM AddressesAreProven == AccountSpec => []VerifiedIsProven
<1>1. AccountInv => VerifiedIsProven
  BY DEF AccountInv, Undisturbed, VerifiedForAddress, Moving, VerifiedIsProven, Quiet, MayLogIn
<1> QED BY <1>1, AccountsInvariant, PTL

-----------------------------------------------------------------------------
(* Registers: types *)

CodeRow == [register : RegisterIds, digits : Digits, state : {"live", "used", "expired"}]
DeviceRow == [register : RegisterIds, code : Nat, active : BOOLEAN]
TaskRow ==
  [step : {"devices", "revoke", "retire", "create", "activate"}, register : RegisterIds,
   code : Nat, codes : SUBSET Nat, devices : SUBSET Nat, existing : SUBSET Nat]

RegisterTypeOK ==
  /\ registers \in [RegisterIds -> RegisterStatus \cup {"none"}]
  /\ codes \in Seq(CodeRow)
  /\ devices \in Seq(DeviceRow)
  /\ task \in [Managers -> TaskRow \cup {NoTask}]

-----------------------------------------------------------------------------
(* Registers: the inductive invariant *)

\* A device was made of a code there is, which is live no more: that is why no other
\* activation can claim it.
CodesAreSpent == \A d \in DOMAIN devices : devices[d].code \in DOMAIN codes /\ ~LiveCode(devices[d].code)

\* An activation has found its code.
CodeWasFound == \A m \in Managers : TaskAt(m, "activate") => task[m].code \in DOMAIN codes

\* A revocation knows devices of its own register.
ExistingAreTheirs ==
  \A m \in Managers : TaskAt(m, "devices") \/ TaskAt(m, "revoke") =>
    \A d \in task[m].existing : d \in DOMAIN devices /\ devices[d].register = task[m].register

\* Those that were active when its UPDATE chose its rows are among these rows.
ExistingAreChosen ==
  \A m \in Managers : TaskAt(m, "revoke") =>
    \A d \in task[m].existing : d \in task[m].devices \/ ~devices[d].active

\* A device is switched on by its activation and never again.
BarredAreOff == \A d \in barred : d \in DOMAIN devices /\ ~devices[d].active

RegisterInv ==
  /\ RegisterTypeOK
  /\ CodesAreSpent
  /\ CodeMakesOneDevice
  /\ CodeWasFound
  /\ ExistingAreTheirs
  /\ ExistingAreChosen
  /\ BarredAreOff

-----------------------------------------------------------------------------
(* Registers: lemmas *)

\* Replacing the rows of a sequence keeps its length.
LEMMA RowsReplaced ==
  ASSUME NEW S, NEW T, NEW kept \in Seq(S), NEW next \in [DOMAIN kept -> T]
  PROVE  next \in Seq(T) /\ DOMAIN next = DOMAIN kept
  OBVIOUS

\* A new row changes none of the others.
LEMMA RowAppended ==
  ASSUME NEW S, NEW kept \in Seq(S), NEW row \in S
  PROVE  /\ Append(kept, row) \in Seq(S)
         /\ DOMAIN Append(kept, row) = DOMAIN kept \cup {Len(kept) + 1}
         /\ Len(kept) + 1 \notin DOMAIN kept
         /\ \A i \in DOMAIN kept : Append(kept, row)[i] = kept[i]
         /\ Append(kept, row)[Len(kept) + 1] = row
  OBVIOUS

\* A step that leaves codes and devices alone and gives one manager a task keeps the
\* invariant if the task is a proper one.
LEMMA TaskStep ==
  ASSUME RegisterInv, NEW m \in Managers, NEW t \in TaskRow \cup {NoTask},
         task' = [task EXCEPT ![m] = t],
         UNCHANGED <<codes, devices, barred>>,
         registers' \in [RegisterIds -> RegisterStatus \cup {"none"}],
         t # NoTask /\ t.step = "activate" => t.code \in DOMAIN codes,
         t # NoTask /\ t.step \in {"devices", "revoke"} =>
           \A d \in t.existing : d \in DOMAIN devices /\ devices[d].register = t.register,
         t # NoTask /\ t.step = "revoke" =>
           \A d \in t.existing : d \in t.devices \/ ~devices[d].active
  PROVE  RegisterInv'
<1>1. RegisterTypeOK'
  BY DEF RegisterInv, RegisterTypeOK
<1>2. task'[m] = t /\ \A o \in Managers \ {m} : task'[o] = task[o]
  BY DEF RegisterInv, RegisterTypeOK
<1>3. CodesAreSpent' /\ CodeMakesOneDevice' /\ BarredAreOff'
  BY DEF RegisterInv, CodesAreSpent, CodeMakesOneDevice, BarredAreOff, LiveCode
<1>4. CodeWasFound'
  BY <1>2 DEF RegisterInv, CodeWasFound, TaskAt
<1>5. ExistingAreTheirs'
  BY <1>2 DEF RegisterInv, ExistingAreTheirs, TaskAt
<1>6. ExistingAreChosen'
  BY <1>2 DEF RegisterInv, ExistingAreChosen, TaskAt
<1> QED
  BY <1>1, <1>3, <1>4, <1>5, <1>6 DEF RegisterInv

\* What a request begins with is a proper task.
LEMMA TaskType ==
  ASSUME NEW step \in {"devices", "revoke", "retire", "create", "activate"}, NEW r \in RegisterIds
  PROVE  Task(step, r) \in TaskRow
  BY DEF Task, TaskRow

-----------------------------------------------------------------------------
(* Registers: one step at a time *)

\* At the start there is nothing.
LEMMA RegisterInitInv == RegisterInit => RegisterInv
  BY DEF RegisterInit, RegisterInv, RegisterTypeOK, CodesAreSpent, CodeMakesOneDevice,
         CodeWasFound, ExistingAreTheirs, ExistingAreChosen, BarredAreOff, TaskAt

\* The status of a register is not what keeps its devices out.
LEMMA StatusInv ==
  ASSUME RegisterInv, UNCHANGED <<codes, devices, task, barred>>,
         registers' \in [RegisterIds -> RegisterStatus \cup {"none"}]
  PROVE  RegisterInv'
  BY DEF RegisterInv, RegisterTypeOK, CodesAreSpent, CodeMakesOneDevice, LiveCode,
         CodeWasFound, ExistingAreTheirs, ExistingAreChosen, BarredAreOff, TaskAt

\* A revocation is asked for: it knows the devices its register has.
LEMMA AskRevokeInv ==
  ASSUME RegisterInv, NEW m \in Managers, NEW r \in RegisterIds, AskRevoke(m, r)
  PROVE  RegisterInv'
<1> DEFINE t == [Task("devices", r) EXCEPT !.existing = {d \in DOMAIN devices : devices[d].register = r}]
<1>1. t \in TaskRow
  BY DEF Task, TaskRow, RegisterInv, RegisterTypeOK
<1>2. /\ t.step = "devices" /\ t.register = r
      /\ t.existing = {d \in DOMAIN devices : devices[d].register = r}
  BY DEF Task
<1>3. task' = [task EXCEPT ![m] = t] /\ UNCHANGED <<registers, codes, devices, barred>>
  BY DEF AskRevoke, Start, registerRows
<1>4. registers' \in [RegisterIds -> RegisterStatus \cup {"none"}]
  BY <1>3 DEF RegisterInv, RegisterTypeOK
<1> HIDE DEF t
<1> QED
  BY <1>1, <1>2, <1>3, <1>4, TaskStep

\* Its first statement chooses the active ones; the others stay as they are.
LEMMA RevokeDevicesInv ==
  ASSUME RegisterInv, NEW m \in Managers, RevokeDevices(m)
  PROVE  RegisterInv'
<1> DEFINE t == [task[m] EXCEPT !.step = "revoke", !.devices = RevokedDevices(m)]
<1>1. task[m] \in TaskRow /\ task[m].step = "devices"
  BY DEF RevokeDevices, TaskAt, RegisterInv, RegisterTypeOK
<1>2. RevokedDevices(m) \in SUBSET Nat
  BY DEF RevokedDevices, RegisterInv, RegisterTypeOK
<1>3. /\ t \in TaskRow
      /\ t.step = "revoke" /\ t.register = task[m].register
      /\ t.existing = task[m].existing /\ t.devices = RevokedDevices(m)
  BY <1>1, <1>2 DEF TaskRow
<1>4. task' = [task EXCEPT ![m] = t] /\ UNCHANGED <<registers, codes, devices, barred>>
  BY DEF RevokeDevices, Proceed, registerRows
<1>5. registers' \in [RegisterIds -> RegisterStatus \cup {"none"}]
  BY <1>4 DEF RegisterInv, RegisterTypeOK
<1>6. \A d \in task[m].existing : d \in DOMAIN devices /\ devices[d].register = task[m].register
  BY <1>1 DEF RevokeDevices, RegisterInv, ExistingAreTheirs
<1>7. \A d \in task[m].existing : d \in RevokedDevices(m) \/ ~devices[d].active
  BY <1>6 DEF RevokedDevices
<1> HIDE DEF t
<1> QED
  BY <1>3, <1>4, <1>5, <1>6, <1>7, TaskStep

\* Devices that are switched off, or not, keep their register and their code.
LEMMA DevicesOffInv ==
  ASSUME RegisterInv, NEW m \in Managers, NEW off \in SUBSET Nat,
         registers' \in [RegisterIds -> RegisterStatus \cup {"none"}],
         UNCHANGED codes,
         task' = task \/ task' = [task EXCEPT ![m] = NoTask],
         devices' = [d \in DOMAIN devices |-> [devices[d] EXCEPT !.active = @ /\ d \notin off]],
         \A d \in barred' \ barred : d \in DOMAIN devices /\ (d \in off \/ ~devices[d].active)
  PROVE  RegisterInv'
<1>1. \A d \in DOMAIN devices : devices[d] \in DeviceRow
  BY DEF RegisterInv, RegisterTypeOK
<1>2. devices' \in [DOMAIN devices -> DeviceRow]
  BY <1>1 DEF DeviceRow
<1>3. devices' \in Seq(DeviceRow) /\ DOMAIN devices' = DOMAIN devices
  BY <1>2, RowsReplaced DEF RegisterInv, RegisterTypeOK
<1>4. \A d \in DOMAIN devices :
        /\ devices'[d].register = devices[d].register
        /\ devices'[d].code = devices[d].code
        /\ d \in off \/ ~devices[d].active => ~devices'[d].active
  BY <1>1 DEF DeviceRow
<1>5. \A o \in Managers : task'[o] = task[o] \/ task'[o] = NoTask
  BY DEF RegisterInv, RegisterTypeOK
<1>6. RegisterTypeOK'
  BY <1>3 DEF RegisterInv, RegisterTypeOK
<1>7. CodesAreSpent'
  BY <1>3, <1>4 DEF RegisterInv, CodesAreSpent, LiveCode
<1>8. CodeMakesOneDevice'
  <2>1. \A d, e \in DOMAIN devices : devices[d].code = devices[e].code => d = e
    BY DEF RegisterInv, CodeMakesOneDevice
  <2>2. \A d, e \in DOMAIN devices : devices'[d].code = devices'[e].code => d = e
    BY <1>4, <2>1
  <2> QED
    BY <1>3, <2>2 DEF CodeMakesOneDevice
<1>9. CodeWasFound'
  BY <1>5 DEF RegisterInv, CodeWasFound, TaskAt
<1>10. ExistingAreTheirs'
  BY <1>3, <1>4, <1>5 DEF RegisterInv, ExistingAreTheirs, TaskAt
<1>11. ExistingAreChosen'
  BY <1>3, <1>4, <1>5 DEF RegisterInv, ExistingAreChosen, ExistingAreTheirs, TaskAt
<1>12. BarredAreOff'
  BY <1>3, <1>4 DEF RegisterInv, BarredAreOff
<1> QED
  BY <1>6, <1>7, <1>8, <1>9, <1>10, <1>11, <1>12 DEF RegisterInv

\* The revocation is committed: all that it knew are off.
LEMMA RevokeRegisterInv ==
  ASSUME RegisterInv, NEW m \in Managers, RevokeRegister(m)
  PROVE  RegisterInv'
<1>1. task[m] \in TaskRow /\ task[m].step = "revoke"
  BY DEF RevokeRegister, TaskAt, RegisterInv, RegisterTypeOK
<1>2. task[m].devices \in SUBSET Nat /\ task[m].register \in RegisterIds
  BY <1>1 DEF TaskRow
<1>3. registers' \in [RegisterIds -> RegisterStatus \cup {"none"}]
  BY <1>2 DEF RevokeRegister, RegisterInv, RegisterTypeOK, RegisterStatus
<1>4. \A d \in task[m].existing : d \in DOMAIN devices /\ (d \in task[m].devices \/ ~devices[d].active)
  BY DEF RevokeRegister, RegisterInv, ExistingAreTheirs, ExistingAreChosen
<1>5. barred' \ barred \subseteq task[m].existing
  BY DEF RevokeRegister
<1> QED
  BY <1>2, <1>3, <1>4, <1>5, DevicesOffInv DEF RevokeRegister, Done

\* One device is revoked.
LEMMA RevokeDeviceInv ==
  ASSUME RegisterInv, NEW m \in Managers, NEW d \in DOMAIN devices, RevokeDevice(m, d)
  PROVE  RegisterInv'
<1>1. d \in Nat /\ \A e \in DOMAIN devices : devices[e] \in DeviceRow
  BY DEF RegisterInv, RegisterTypeOK
<1>2. devices' = [e \in DOMAIN devices |-> [devices[e] EXCEPT !.active = @ /\ e \notin {d}]]
  BY <1>1 DEF RevokeDevice, DeviceRow
<1>3. registers' \in [RegisterIds -> RegisterStatus \cup {"none"}]
  BY DEF RevokeDevice, RegisterInv, RegisterTypeOK
<1>4. {d} \in SUBSET Nat /\ UNCHANGED <<codes, task, barred>> /\ barred' \ barred = {}
  BY <1>1 DEF RevokeDevice
<1> QED
  BY <1>2, <1>3, <1>4, DevicesOffInv

-----------------------------------------------------------------------------
(* Registers: codes *)

\* Codes may be used up or expire, and further ones may be made, while tasks end or
\* go on with other steps.
LEMMA CodesInv ==
  ASSUME RegisterInv,
         UNCHANGED <<registers, devices, barred>>,
         codes' \in Seq(CodeRow),
         DOMAIN codes \subseteq DOMAIN codes',
         \A c \in DOMAIN codes : codes'[c].state = "live" => codes[c].state = "live",
         task' = task \/ \E m \in Managers : task' = [task EXCEPT ![m] = NoTask]
  PROVE  RegisterInv'
<1>1. \A o \in Managers : task'[o] = task[o] \/ task'[o] = NoTask
  BY DEF RegisterInv, RegisterTypeOK
<1>2. RegisterTypeOK'
  BY DEF RegisterInv, RegisterTypeOK
<1>3. CodesAreSpent' /\ CodeMakesOneDevice' /\ BarredAreOff'
  BY DEF RegisterInv, CodesAreSpent, CodeMakesOneDevice, BarredAreOff, LiveCode
<1>4. CodeWasFound'
  BY <1>1 DEF RegisterInv, CodeWasFound, TaskAt
<1>5. ExistingAreTheirs' /\ ExistingAreChosen'
  BY <1>1 DEF RegisterInv, ExistingAreTheirs, ExistingAreChosen, TaskAt
<1> QED
  BY <1>2, <1>3, <1>4, <1>5 DEF RegisterInv

\* A code that is replaced by another is used up with all live ones before it.
LEMMA CreateCodeInv ==
  ASSUME RegisterInv, NEW m \in Managers, NEW digits \in Digits, CreateCode(m, digits)
  PROVE  RegisterInv'
<1> DEFINE retired == [c \in DOMAIN codes |->
                         IF c \in task[m].codes THEN [codes[c] EXCEPT !.state = "used"] ELSE codes[c]]
           new == [register |-> task[m].register, digits |-> digits, state |-> "live"]
<1>1. codes \in Seq(CodeRow) /\ \A c \in DOMAIN codes : codes[c] \in CodeRow
  BY DEF RegisterInv, RegisterTypeOK
<1>2. task[m] \in TaskRow
  BY DEF CreateCode, TaskAt, RegisterInv, RegisterTypeOK
<1>3. new \in CodeRow
  BY <1>2 DEF CodeRow, TaskRow
<1>4. retired \in [DOMAIN codes -> CodeRow]
  BY <1>1 DEF CodeRow
<1>5. retired \in Seq(CodeRow) /\ DOMAIN retired = DOMAIN codes
  BY <1>1, <1>4, RowsReplaced
<1>6. \A c \in DOMAIN codes : retired[c].state = "live" => codes[c].state = "live"
  BY <1>1 DEF CodeRow
<1>7. codes' = Append(retired, new) /\ UNCHANGED <<registers, devices, barred>>
      /\ task' = [task EXCEPT ![m] = NoTask]
  BY DEF CreateCode, Done
<1> HIDE DEF retired, new
<1>8. /\ codes' \in Seq(CodeRow)
      /\ DOMAIN codes \subseteq DOMAIN codes'
      /\ \A c \in DOMAIN codes : codes'[c] = retired[c]
  BY <1>3, <1>5, <1>7, RowAppended
<1> QED
  BY <1>6, <1>7, <1>8, CodesInv

\* A code expires.
LEMMA ExpireCodeInv ==
  ASSUME RegisterInv, NEW c \in DOMAIN codes, ExpireCode(c)
  PROVE  RegisterInv'
<1>1. codes \in Seq(CodeRow) /\ \A o \in DOMAIN codes : codes[o] \in CodeRow
  BY DEF RegisterInv, RegisterTypeOK
<1>2. codes' \in [DOMAIN codes -> CodeRow]
  BY <1>1 DEF ExpireCode, CodeRow
<1>3. codes' \in Seq(CodeRow) /\ DOMAIN codes' = DOMAIN codes
  BY <1>1, <1>2, RowsReplaced
<1>4. \A o \in DOMAIN codes : codes'[o].state = "live" => codes[o].state = "live"
  BY <1>1 DEF ExpireCode, CodeRow
<1> QED
  BY <1>3, <1>4, CodesInv DEF ExpireCode

\* An activation claims a code that is live, so no device was made of it before.
LEMMA ActivateInv ==
  ASSUME RegisterInv, NEW m \in Managers, Activate(m)
  PROVE  RegisterInv'
<1> DEFINE c == task[m].code
           new == [register |-> task[m].register, code |-> c, active |-> TRUE]
<1>1. /\ codes \in Seq(CodeRow) /\ \A o \in DOMAIN codes : codes[o] \in CodeRow
      /\ devices \in Seq(DeviceRow)
  BY DEF RegisterInv, RegisterTypeOK
<1>2. task[m] \in TaskRow /\ c \in DOMAIN codes /\ codes[c].state = "live"
  BY DEF Activate, TaskAt, ClaimCode, LiveCode, RegisterInv, RegisterTypeOK, CodeWasFound
<1>3. new \in DeviceRow /\ new.code = c
  BY <1>2 DEF DeviceRow, TaskRow
<1>4. /\ codes' = [codes EXCEPT ![c].state = "used"]
      /\ devices' = Append(devices, new)
      /\ registers' = [registers EXCEPT ![task[m].register] = "active"]
      /\ task' = [task EXCEPT ![m] = NoTask]
      /\ barred' = barred
  BY DEF Activate, Done
<1>5. codes' \in [DOMAIN codes -> CodeRow]
  BY <1>1, <1>2, <1>4 DEF CodeRow
<1>6. codes' \in Seq(CodeRow) /\ DOMAIN codes' = DOMAIN codes
  BY <1>1, <1>5, RowsReplaced
<1>7. \A o \in DOMAIN codes : codes[o].state # "live" \/ o = c => codes'[o].state # "live"
  BY <1>1, <1>2, <1>4 DEF CodeRow
<1> HIDE DEF new
<1>8. /\ devices' \in Seq(DeviceRow)
      /\ DOMAIN devices' = DOMAIN devices \cup {Len(devices) + 1}
      /\ Len(devices) + 1 \notin DOMAIN devices
      /\ \A d \in DOMAIN devices : devices'[d] = devices[d]
      /\ devices'[Len(devices) + 1] = new
  BY <1>1, <1>3, <1>4, RowAppended
<1>9. \A d \in DOMAIN devices : devices[d].code \in DOMAIN codes /\ codes[devices[d].code].state # "live"
  BY DEF RegisterInv, CodesAreSpent, LiveCode
<1>10. registers' \in [RegisterIds -> RegisterStatus \cup {"none"}]
  BY <1>2, <1>4 DEF RegisterInv, RegisterTypeOK, RegisterStatus, TaskRow
<1>11. \A o \in Managers : task'[o] = task[o] \/ task'[o] = NoTask
  BY <1>4 DEF RegisterInv, RegisterTypeOK
<1>12. RegisterTypeOK'
  BY <1>4, <1>6, <1>8, <1>10 DEF RegisterInv, RegisterTypeOK
<1>13. CodesAreSpent'
  <2>1. \A d \in DOMAIN devices : devices'[d].code \in DOMAIN codes /\ codes'[devices'[d].code].state # "live"
    BY <1>7, <1>8, <1>9
  <2>2. devices'[Len(devices) + 1].code = c /\ codes'[c].state # "live"
    BY <1>2, <1>3, <1>7, <1>8
  <2> QED
    BY <1>2, <1>6, <1>8, <2>1, <2>2 DEF CodesAreSpent, LiveCode
<1>14. CodeMakesOneDevice'
  <2>1. \A d, e \in DOMAIN devices : devices[d].code = devices[e].code => d = e
    BY DEF RegisterInv, CodeMakesOneDevice
  <2>2. \A d \in DOMAIN devices : devices'[d].code # devices'[Len(devices) + 1].code
    BY <1>2, <1>3, <1>8, <1>9
  <2> QED
    BY <1>8, <2>1, <2>2 DEF CodeMakesOneDevice
<1>15. CodeWasFound'
  BY <1>6, <1>11 DEF RegisterInv, CodeWasFound, TaskAt
<1>16. ExistingAreTheirs'
  BY <1>8, <1>11 DEF RegisterInv, ExistingAreTheirs, TaskAt
<1>17. ExistingAreChosen'
  BY <1>8, <1>11 DEF RegisterInv, ExistingAreTheirs, ExistingAreChosen, TaskAt
<1>18. BarredAreOff'
  BY <1>4, <1>8 DEF RegisterInv, BarredAreOff
<1> QED
  BY <1>12, <1>13, <1>14, <1>15, <1>16, <1>17, <1>18 DEF RegisterInv

\* The remaining requests only give a manager a task, or take it away.
LEMMA OtherTaskInv ==
  ASSUME RegisterInv, NEW m \in Managers,
         \/ \E r \in RegisterIds : AskCode(m, r)
         \/ RetireCodes(m)
         \/ \E digits \in Digits : FindCode(m, digits)
         \/ GiveUp(m)
  PROVE  RegisterInv'
<1>1. registers \in [RegisterIds -> RegisterStatus \cup {"none"}]
  BY DEF RegisterInv, RegisterTypeOK
<1>2. CASE \E r \in RegisterIds : AskCode(m, r)
  <2>1. PICK r \in RegisterIds : AskCode(m, r)
    BY <1>2
  <2>2. Task("retire", r) \in TaskRow /\ Task("retire", r).step = "retire"
    BY TaskType DEF Task
  <2>3. task' = [task EXCEPT ![m] = Task("retire", r)] /\ UNCHANGED <<registers, codes, devices, barred>>
    BY <2>1 DEF AskCode, Start, registerRows
  <2> QED
    BY <1>1, <2>2, <2>3, TaskStep
<1>3. CASE RetireCodes(m)
  <2> DEFINE old == {c \in DOMAIN codes : codes[c].register = task[m].register /\ LiveCode(c)}
             t == [task[m] EXCEPT !.step = "create", !.codes = old]
  <2>1. task[m] \in TaskRow /\ old \in SUBSET Nat
    BY <1>3 DEF RetireCodes, TaskAt, RegisterInv, RegisterTypeOK
  <2>2. t \in TaskRow /\ t.step = "create"
    BY <2>1 DEF TaskRow
  <2>3. task' = [task EXCEPT ![m] = t] /\ UNCHANGED <<registers, codes, devices, barred>>
    BY <1>3 DEF RetireCodes, Proceed, registerRows
  <2> HIDE DEF t
  <2> QED
    BY <1>1, <2>2, <2>3, TaskStep
<1>4. CASE \E digits \in Digits : FindCode(m, digits)
  <2>0. PICK digits \in Digits : FindCode(m, digits)
    BY <1>4
  <2>1. PICK c \in MatchingCodes(digits) :
          /\ Start(m, [Task("activate", codes[c].register) EXCEPT !.code = c])
          /\ UNCHANGED <<registerRows, barred>>
    BY <2>0 DEF FindCode
  <2> DEFINE t == [Task("activate", codes[c].register) EXCEPT !.code = c]
  <2>2. c \in DOMAIN codes /\ c \in Nat /\ codes[c].register \in RegisterIds
    <3>1. codes \in Seq(CodeRow) /\ c \in DOMAIN codes
      BY <2>1 DEF MatchingCodes, RegisterInv, RegisterTypeOK
    <3>2. c \in Nat /\ codes[c] \in CodeRow
      BY <3>1
    <3> QED
      BY <3>1, <3>2 DEF CodeRow
  <2>3. t \in TaskRow /\ t.step = "activate" /\ t.code = c
    BY <2>2 DEF Task, TaskRow
  <2>4. task' = [task EXCEPT ![m] = t] /\ UNCHANGED <<registers, codes, devices, barred>>
    BY <2>1 DEF Start, registerRows
  <2>5. registers' \in [RegisterIds -> RegisterStatus \cup {"none"}]
    BY <1>1, <2>4
  <2>6. /\ t.step # "revoke" /\ t.step # "devices"
        /\ t.step = "activate" => t.code \in DOMAIN codes
    BY <2>2, <2>3
  <2> HIDE DEF t
  <2> QED
    BY <2>3, <2>4, <2>5, <2>6, TaskStep
<1>5. CASE GiveUp(m)
  <2>1. task' = [task EXCEPT ![m] = NoTask] /\ UNCHANGED <<registers, codes, devices, barred>>
    BY <1>5 DEF GiveUp, Done, registerRows
  <2> QED
    BY <1>1, <2>1, TaskStep
<1> QED
  BY <1>2, <1>3, <1>4, <1>5

-----------------------------------------------------------------------------
(* Registers: theorems *)

\* The invariant holds in every state, whoever creates, edits, activates and revokes,
\* in whatever order, and whatever fails.
THEOREM RegistersInvariant == RegisterSpec => []RegisterInv
<1>1. RegisterInit => RegisterInv
  BY RegisterInitInv
<1>2. RegisterInv /\ [RegisterNext]_registerVars => RegisterInv'
  <2> SUFFICES ASSUME RegisterInv, [RegisterNext]_registerVars
               PROVE  RegisterInv'
    OBVIOUS
  <2>1. CASE UNCHANGED registerVars
    BY <2>1, StatusInv DEF registerVars, registerRows, RegisterInv, RegisterTypeOK
  <2>2. ASSUME NEW c \in DOMAIN codes, ExpireCode(c)
        PROVE  RegisterInv'
    BY <2>2, ExpireCodeInv
  <2>3. ASSUME NEW m \in Managers, NEW r \in RegisterIds,
               CreateRegister(m, r) \/ \E status \in RegisterStatus : UpdateRegister(m, r, status)
        PROVE  RegisterInv'
    <3>1. registers' \in [RegisterIds -> RegisterStatus \cup {"none"}]
      BY <2>3 DEF CreateRegister, UpdateRegister, RegisterInv, RegisterTypeOK, RegisterStatus
    <3>2. UNCHANGED <<codes, devices, task, barred>>
      BY <2>3 DEF CreateRegister, UpdateRegister
    <3> QED
      BY <3>1, <3>2, StatusInv
  <2>4. ASSUME NEW m \in Managers, NEW r \in RegisterIds, AskRevoke(m, r)
        PROVE  RegisterInv'
    BY <2>4, AskRevokeInv
  <2>5. ASSUME NEW m \in Managers, RevokeDevices(m)
        PROVE  RegisterInv'
    BY <2>5, RevokeDevicesInv
  <2>6. ASSUME NEW m \in Managers, RevokeRegister(m)
        PROVE  RegisterInv'
    BY <2>6, RevokeRegisterInv
  <2>7. ASSUME NEW m \in Managers, NEW d \in DOMAIN devices, RevokeDevice(m, d)
        PROVE  RegisterInv'
    BY <2>7, RevokeDeviceInv
  <2>8. ASSUME NEW m \in Managers, NEW digits \in Digits, CreateCode(m, digits)
        PROVE  RegisterInv'
    BY <2>8, CreateCodeInv
  <2>9. ASSUME NEW m \in Managers, Activate(m)
        PROVE  RegisterInv'
    BY <2>9, ActivateInv
  <2>10. ASSUME NEW m \in Managers,
                \/ \E r \in RegisterIds : AskCode(m, r)
                \/ RetireCodes(m)
                \/ \E digits \in Digits : FindCode(m, digits)
                \/ GiveUp(m)
         PROVE  RegisterInv'
    BY <2>10, OtherTaskInv
  <2> QED
    BY <2>1, <2>2, <2>3, <2>4, <2>5, <2>6, <2>7, <2>8, <2>9, <2>10 DEF RegisterNext, Manage
<1> QED
  BY <1>1, <1>2, PTL DEF RegisterSpec

\* A code activates at most one device (updateMany ... where usedAt is null in
\* activate), for any number of managers, codes that look alike, and registers.
THEOREM CodesMakeOneDevice == RegisterSpec => []CodeMakesOneDevice
<1>1. RegisterInv => CodeMakesOneDevice
  BY DEF RegisterInv
<1> QED
  BY <1>1, RegistersInvariant, PTL

\* A device whose register's revocation was asked for is never accepted again
\* (revokeRegister, authenticateRegisterToken).
THEOREM RevokedDevicesStayOut == RegisterSpec => []RevokedStayOut
<1>1. RegisterInv => RevokedStayOut
  BY DEF RegisterInv, BarredAreOff, RevokedStayOut, Accepted
<1> QED
  BY <1>1, RegistersInvariant, PTL

-----------------------------------------------------------------------------
(* Packs: types and the inductive invariant *)

StagedRows == UNION {[S -> PackRecord] : S \in SUBSET PackRow}

PackTypeOK ==
  /\ packs \in [PackRow -> PackRecord \cup {NoPack}]
  /\ proposals \in Seq(ProposalRecord)
  /\ Len(proposals) <= MaxProposals
  /\ review \in [Reviewers -> ReviewRecord \cup {NoReview}]
  /\ staged \in [Reviewers -> StagedRows]
  /\ writes \in [PackRow -> Nat]
  /\ applied \in [Numbers -> Nat]
  /\ overtaken \in [Reviewers -> BOOLEAN]
  /\ raced \in BOOLEAN

\* What a request holds at which step.
ReviewShape(k) ==
  LET r == review[k] IN
  r # NoReview =>
    /\ r.at \in {"save", "pack"} => r.d \in ClaimRecord \cup ProposalRecord
    /\ r.kind # "batch" => DOMAIN r.batch = {}
    /\ r.kind \in {"edit", "reject", "approve"} => r.q \in DOMAIN proposals
    /\ r.kind = "batch" => /\ r.todo \subseteq DOMAIN r.batch
                           /\ r.at = "lock" => DOMAIN r.batch = {} /\ r.counted # 0
                           /\ r.at = "check" => r.todo # {}
                           /\ r.at \in {"save", "pack"} => r.q \in r.todo

\* Nobody else writes a proposal that a batch has locked.
BatchIsLocked(k) ==
  \A q \in Locked(k) :
    q \in DOMAIN proposals /\ proposals[q] = review[k].batch[q] /\ proposals[q].status = "PENDING"

\* While nobody else commits, a proposal that was found pending is.
StillPending(k) ==
  review[k] # NoReview /\ review[k].kind \in {"edit", "reject", "approve"} /\ ~overtaken[k] =>
    proposals[review[k].q].status = "PENDING"

\* A proposal is about a pack there is, and no version of the future.
TargetThere(d) == d.target # NoPack => packs[d.target] # NoPack /\ d.version <= packs[d.target].version
TargetsAreThere == \A q \in DOMAIN proposals : TargetThere(proposals[q])
ClaimIsThere(k) ==
  review[k] # NoReview /\ review[k].at \in {"save", "pack"} => TargetThere(review[k].d)

\* What a pack that was written as often is counted as.
Counted(p) == writes[p] + (IF p \in Packs THEN InitialPack[p].version ELSE 0)

\* A row that is written and not committed is one version further.
StagedIsNext(k) == \A p \in DOMAIN staged[k] : staged[k][p].version = Counted(p) + 1

NothingStagedYet(k) ==
  review[k] = NoReview \/ review[k].kind \in {"submit", "edit", "reject"}
    \/ (review[k].kind = "approve" /\ review[k].at = "pack")
    \/ (review[k].kind = "batch" /\ review[k].at = "lock")
  => DOMAIN staged[k] = {}

\* A batch writes no pack twice: a second proposal for it names an older version.
TargetIsFresh(k) ==
  review[k] # NoReview /\ review[k].at = "pack" =>
    /\ (review[k].d.action = "CREATE") = (review[k].d.target = NoPack)
    /\ review[k].d.target \notin DOMAIN staged[k]

\* Unless others commit: the packs a transaction sees differ while they are active,
\* and so they will with the one it is about to write.
OnSale(row) == row # NoPack /\ row.active
Apart(given) == \A p, o \in PackRow : p # o /\ OnSale(given[p]) /\ OnSale(given[o]) => ~Clash(given[p], given[o])
SeenApart(k) == ~overtaken[k] /\ ~raced => Apart(PacksSeenBy(k))
ClaimFits(k) ==
  review[k] # NoReview /\ review[k].at = "pack" /\ ~overtaken[k] /\ ~raced =>
    \A p \in PackRow \ {review[k].d.target} :
      OnSale(PacksSeenBy(k)[p]) => ~Clash(review[k].d, PacksSeenBy(k)[p])

\* While nobody else commits: what is about to be written is the proposal as it is,
\* for the pack as it is, and so is what has been written.
IsCurrent(d) == d.target # NoPack => packs[d.target].version = d.version
ClaimIsCurrent(k) ==
  review[k] # NoReview /\ review[k].at = "pack" /\ ~overtaken[k] =>
    review[k].d = proposals[review[k].q] /\ IsCurrent(review[k].d)
StagedIsCurrent(k) ==
  ~overtaken[k] =>
    \A p \in DOMAIN staged[k] : packs[p] # NoPack =>
      LET d == proposals[staged[k][p].from] IN d.target = p /\ d.version = packs[p].version

ReviewInv(k) ==
  /\ ReviewShape(k) /\ BatchIsLocked(k) /\ StillPending(k) /\ ClaimIsThere(k)
  /\ StagedIsNext(k) /\ NothingStagedYet(k) /\ TargetIsFresh(k)
  /\ SeenApart(k) /\ ClaimFits(k) /\ ClaimIsCurrent(k) /\ StagedIsCurrent(k)

\* Two transactions hold no row together.
HeldOnce ==
  \A j, k \in Reviewers : j # k =>
    DOMAIN staged[j] \cap DOMAIN staged[k] = {} /\ Locked(j) \cap Locked(k) = {}

VersionsAreCounts ==
  \A p \in PackRow : IF packs[p] = NoPack THEN writes[p] = 0 /\ p \notin Packs
                                          ELSE packs[p].version = Counted(p)

PackInv ==
  /\ PackTypeOK /\ HeldOnce /\ VersionsAreCounts
  /\ ~raced => Apart(packs)
  /\ TargetsAreThere
  /\ \A k \in Reviewers : ReviewInv(k)

-----------------------------------------------------------------------------
(* Packs: lemmas *)

\* The rows a transaction has written, and what it sees with them.
LEMMA SeenRows ==
  ASSUME PackTypeOK, NEW k \in Reviewers
  PROVE  /\ DOMAIN staged[k] \subseteq PackRow
         /\ \A p \in DOMAIN staged[k] : staged[k][p] \in PackRecord
         /\ DOMAIN packs = PackRow
         /\ PacksSeenBy(k) \in [PackRow -> PackRecord \cup {NoPack}]
         /\ \A p \in PackRow :
              PacksSeenBy(k)[p] = IF p \in DOMAIN staged[k] THEN staged[k][p] ELSE packs[p]
<1>1. PICK S \in SUBSET PackRow : staged[k] \in [S -> PackRecord]
  BY DEF PackTypeOK, StagedRows
<1>2. DOMAIN packs = PackRow /\ \A p \in PackRow : packs[p] \in PackRecord \cup {NoPack}
  BY DEF PackTypeOK
<1> QED BY <1>1, <1>2 DEF PacksSeenBy

LEMMA NothingStaged ==
  /\ NoRows \in StagedRows /\ DOMAIN NoRows = {}
  /\ NoRows \in Batches
<1>1. DOMAIN NoRows = {} /\ NoRows \in [{} -> PackRecord] /\ NoRows \in [{} -> ProposalRecord]
  BY DEF NoRows
<1> QED BY <1>1 DEF StagedRows, Batches

\* Whoever has written nothing sees the rows that are committed.
LEMMA SeesCommitted ==
  ASSUME PackTypeOK, NEW k \in Reviewers, DOMAIN staged[k] = {}
  PROVE  PacksSeenBy(k) = packs
  BY DEF PackTypeOK, PacksSeenBy

LEMMA BatchRows ==
  ASSUME NEW r \in ReviewRecord
  PROVE  DOMAIN r.batch \subseteq Numbers /\ \A q \in DOMAIN r.batch : r.batch[q] \in ProposalRecord
<1>1. PICK S \in SUBSET Numbers : r.batch \in [S -> ProposalRecord]
  BY DEF ReviewRecord, Batches
<1> QED BY <1>1

\* A row is there, and a request in flight is one.
LEMMA RowsAreThere ==
  /\ \A row \in PackRecord : row # NoPack
  /\ \A r \in ReviewRecord : r # NoReview
  /\ NoPack \notin PackRow
  BY PackAssumption

LEMMA ProposalNumbers ==
  ASSUME PackTypeOK
  PROVE  /\ DOMAIN proposals \subseteq Numbers /\ DOMAIN proposals = 1 .. Len(proposals)
         /\ \A q \in DOMAIN proposals : proposals[q] \in ProposalRecord
<1>1. MaxProposals \in Nat
  BY PackAssumption
<1>2. DOMAIN proposals = 1 .. Len(proposals) /\ Len(proposals) \in Nat
  BY DEF PackTypeOK
<1>3. DOMAIN proposals \subseteq Numbers
  BY <1>1, <1>2 DEF PackTypeOK, Numbers
<1> QED BY <1>2, <1>3 DEF PackTypeOK

LEMMA CountedType ==
  ASSUME PackTypeOK, NEW p \in PackRow
  PROVE  Counted(p) \in Nat
<1>1. p \in Packs => InitialPack[p].version \in Nat
  BY PackAssumption DEF PackRecord
<1>2. writes[p] \in Nat
  BY DEF PackTypeOK
<1> QED BY <1>1, <1>2 DEF Counted

\* A step that commits nothing keeps what holds of everybody else.
LEMMA ReviewGoesOn ==
  ASSUME PackInv, NEW k \in Reviewers, NEW r \in ReviewRecord \cup {NoReview}, NEW s \in StagedRows,
         review' = [review EXCEPT ![k] = r], staged' = [staged EXCEPT ![k] = s],
         UNCHANGED <<packs, proposals, writes, applied, raced>>,
         overtaken' \in [Reviewers -> BOOLEAN], \A j \in Reviewers \ {k} : overtaken'[j] = overtaken[j],
         HeldOnce', ReviewInv(k)'
  PROVE  PackInv'
<1>1. PackTypeOK'
  BY DEF PackInv, PackTypeOK
<1>2. VersionsAreCounts'
  BY DEF PackInv, VersionsAreCounts, Counted
<1>3. ~raced' => Apart(packs)'
  BY DEF PackInv, Apart, OnSale, Clash
<1>4. TargetsAreThere'
  BY DEF PackInv, TargetsAreThere, TargetThere
<1>5. ASSUME NEW j \in Reviewers, j # k PROVE ReviewInv(j)'
  <2>1. /\ review'[j] = review[j] /\ staged'[j] = staged[j] /\ overtaken'[j] = overtaken[j]
        /\ ReviewInv(j)
    BY <1>5 DEF PackInv, PackTypeOK
  <2>2. PacksSeenBy(j)' = PacksSeenBy(j)
    BY <2>1 DEF PacksSeenBy
  <2>3. Locked(j)' = Locked(j)
    BY <2>1 DEF Locked
  <2>4. ReviewShape(j)' /\ BatchIsLocked(j)' /\ StillPending(j)'
    BY <2>1, <2>3 DEF ReviewInv, ReviewShape, BatchIsLocked, StillPending
  <2>5. ClaimIsThere(j)'
    BY <2>1 DEF ReviewInv, ClaimIsThere, TargetThere
  <2>6. StagedIsNext(j)' /\ NothingStagedYet(j)' /\ TargetIsFresh(j)'
    BY <2>1 DEF ReviewInv, StagedIsNext, NothingStagedYet, TargetIsFresh, Counted
  <2>7. SeenApart(j)' /\ ClaimFits(j)'
    BY <2>1, <2>2 DEF ReviewInv, SeenApart, ClaimFits, Apart, OnSale, Clash
  <2>8. ClaimIsCurrent(j)' /\ StagedIsCurrent(j)'
    BY <2>1 DEF ReviewInv, ClaimIsCurrent, IsCurrent, StagedIsCurrent
  <2> QED BY <2>4, <2>5, <2>6, <2>7, <2>8 DEF ReviewInv
<1> QED BY <1>1, <1>2, <1>3, <1>4, <1>5 DEF PackInv

\* Rows only grow in version: a claim for a pack there is stays one.
LEMMA TargetStays ==
  ASSUME PackTypeOK, NEW d \in ClaimRecord \cup ProposalRecord, TargetThere(d),
         \A p \in PackRow : packs[p] # NoPack =>
           packs'[p] # NoPack /\ packs'[p].version >= packs[p].version
           /\ packs'[p].version \in Nat /\ packs[p].version \in Nat
  PROVE  d.target # NoPack => packs'[d.target] # NoPack /\ d.version <= packs'[d.target].version
<1>1. d.target \in Targets /\ d.version \in Nat
  BY DEF ClaimRecord, ProposalRecord
<1>2. d.target # NoPack => d.target \in PackRow
  BY <1>1 DEF Targets
<1> QED BY <1>1, <1>2 DEF TargetThere

\* COMMIT: what was seen is what there is, and everybody else has been overtaken.
LEMMA SucceedInv ==
  ASSUME PackInv, NEW k \in Reviewers, NEW next \in Seq(ProposalRecord), NEW done,
         Succeed(k, next, done), review[k] # NoReview,
         Len(next) <= MaxProposals,
         DOMAIN proposals \subseteq DOMAIN next,
         \A q \in DOMAIN proposals :
           next[q] = proposals[q] \/ \A j \in Reviewers \ {k} : q \notin Locked(j),
         \A q \in DOMAIN next : TargetThere(next[q])
  PROVE  PackInv'
<1>1. /\ proposals' = next /\ packs' = PacksSeenBy(k)
      /\ writes' = [p \in DOMAIN writes |-> writes[p] + (IF p \in DOMAIN staged[k] THEN 1 ELSE 0)]
      /\ applied' = [q \in DOMAIN applied |-> applied[q] + (IF q \in done THEN 1 ELSE 0)]
      /\ overtaken' = [j \in Reviewers |-> j # k /\ review[j] # NoReview]
      /\ raced' = (raced \/ overtaken[k])
      /\ review' = [review EXCEPT ![k] = NoReview]
      /\ staged' = [staged EXCEPT ![k] = NoRows]
  BY DEF Succeed, Goto
<1>2. PackTypeOK /\ ReviewInv(k)
  BY DEF PackInv
<1>3. /\ review'[k] = NoReview /\ staged'[k] = NoRows /\ DOMAIN staged'[k] = {}
      /\ \A j \in Reviewers \ {k} : review'[j] = review[j] /\ staged'[j] = staged[j]
  BY <1>1, <1>2, NothingStaged DEF PackTypeOK
<1>4. /\ DOMAIN packs = PackRow /\ DOMAIN packs' = PackRow
      /\ \A p \in PackRow : packs'[p] = IF p \in DOMAIN staged[k] THEN staged[k][p] ELSE packs[p]
      /\ \A p \in DOMAIN staged[k] : staged[k][p] \in PackRecord /\ p \in PackRow
  BY <1>1, <1>2, SeenRows
<1>5. /\ writes' \in [PackRow -> Nat]
      /\ \A p \in PackRow : writes'[p] = writes[p] + (IF p \in DOMAIN staged[k] THEN 1 ELSE 0)
  BY <1>1, <1>2 DEF PackTypeOK
<1>6. PackTypeOK'
  <2>1. packs' \in [PackRow -> PackRecord \cup {NoPack}]
    BY <1>1, <1>2, SeenRows
  <2>2. applied' \in [Numbers -> Nat]
    BY <1>1, <1>2 DEF PackTypeOK
  <2>3. overtaken' \in [Reviewers -> BOOLEAN] /\ raced' \in BOOLEAN
    BY <1>1, <1>2 DEF PackTypeOK
  <2>4. staged' \in [Reviewers -> StagedRows] /\ review' \in [Reviewers -> ReviewRecord \cup {NoReview}]
    BY <1>1, <1>2, NothingStaged DEF PackTypeOK
  <2> QED BY <1>1, <1>5, <2>1, <2>2, <2>3, <2>4 DEF PackTypeOK
<1>7. \A p \in PackRow : Counted(p)' = Counted(p) + (IF p \in DOMAIN staged[k] THEN 1 ELSE 0)
  <2> SUFFICES ASSUME NEW p \in PackRow
               PROVE  Counted(p)' = Counted(p) + (IF p \in DOMAIN staged[k] THEN 1 ELSE 0)
    OBVIOUS
  <2> DEFINE base == IF p \in Packs THEN InitialPack[p].version ELSE 0
  <2>1. base \in Nat
    BY PackAssumption DEF PackRecord
  <2>2. writes[p] \in Nat /\ writes'[p] = writes[p] + (IF p \in DOMAIN staged[k] THEN 1 ELSE 0)
    BY <1>2, <1>5 DEF PackTypeOK
  <2>3. Counted(p) = writes[p] + base /\ Counted(p)' = writes'[p] + base
    BY DEF Counted
  <2> HIDE DEF base
  <2> QED BY <2>1, <2>2, <2>3
<1>8. \A p \in PackRow :
        packs[p] # NoPack => /\ packs'[p] # NoPack /\ packs'[p].version >= packs[p].version
                             /\ packs'[p].version \in Nat /\ packs[p].version \in Nat
  <2> SUFFICES ASSUME NEW p \in PackRow, packs[p] # NoPack
               PROVE  /\ packs'[p] # NoPack /\ packs'[p].version >= packs[p].version
                      /\ packs'[p].version \in Nat /\ packs[p].version \in Nat
    OBVIOUS
  <2>1. packs[p].version = Counted(p) /\ Counted(p) \in Nat
    BY <1>2, CountedType DEF PackInv, VersionsAreCounts
  <2>2. CASE p \in DOMAIN staged[k]
    <3>1. packs'[p] = staged[k][p] /\ staged[k][p].version = Counted(p) + 1 /\ staged[k][p] # NoPack
      BY <1>2, <1>4, <2>2, RowsAreThere DEF ReviewInv, StagedIsNext
    <3> QED BY <2>1, <3>1
  <2>3. CASE p \notin DOMAIN staged[k]
    BY <1>4, <2>1, <2>3
  <2> QED BY <2>2, <2>3
<1>9. VersionsAreCounts'
  <2> SUFFICES ASSUME NEW p \in PackRow
               PROVE  IF packs'[p] = NoPack THEN writes'[p] = 0 /\ p \notin Packs
                                            ELSE packs'[p].version = Counted(p)'
    BY DEF VersionsAreCounts
  <2>1. CASE p \in DOMAIN staged[k]
    BY <1>2, <1>4, <1>7, <2>1, RowsAreThere DEF ReviewInv, StagedIsNext
  <2>2. CASE p \notin DOMAIN staged[k]
    <3>1. packs'[p] = packs[p] /\ writes'[p] = writes[p] /\ Counted(p)' = Counted(p)
      BY <1>2, <1>4, <1>5, <1>7, <2>2, CountedType DEF PackTypeOK
    <3> QED BY <3>1 DEF PackInv, VersionsAreCounts
  <2> QED BY <2>1, <2>2
<1>10. TargetsAreThere'
  <2> SUFFICES ASSUME NEW q \in DOMAIN next
               PROVE  next[q].target # NoPack =>
                        packs'[next[q].target] # NoPack /\ next[q].version <= packs'[next[q].target].version
    BY <1>1 DEF TargetsAreThere, TargetThere
  <2>1. next[q] \in ProposalRecord
    OBVIOUS
  <2> QED BY <1>2, <1>8, <2>1, TargetStays
<1>11. ~raced' => Apart(packs)'
  <2>1. ~raced' => Apart(PacksSeenBy(k))
    BY <1>1, <1>2 DEF ReviewInv, SeenApart, PackTypeOK
  <2> QED BY <1>1, <2>1 DEF Apart, OnSale, Clash
<1>12. HeldOnce'
  BY <1>3 DEF PackInv, HeldOnce, Locked
<1>13. ASSUME NEW j \in Reviewers PROVE ReviewInv(j)'
  <2>1. review'[j] = NoReview \/ (j # k /\ review'[j] = review[j] /\ staged'[j] = staged[j] /\ overtaken'[j])
    BY <1>1, <1>3
  <2>2. CASE review'[j] = NoReview
    <3>1. DOMAIN staged'[j] = {}
      <4>1. CASE j = k
        BY <1>3, <4>1
      <4>2. CASE j # k
        <5>1. review[j] = NoReview /\ staged'[j] = staged[j]
          BY <1>3, <2>2, <4>2
        <5>2. DOMAIN staged[j] = {}
          BY <5>1 DEF PackInv, ReviewInv, NothingStagedYet
        <5> QED BY <5>1, <5>2
      <4> QED BY <4>1, <4>2
    <3>2. PacksSeenBy(j)' = packs'
      BY <1>6, <3>1 DEF PackTypeOK, PacksSeenBy
    <3>3. SeenApart(j)'
      BY <1>11, <3>2 DEF SeenApart, Apart, OnSale, Clash
    <3> QED
      BY <2>2, <3>1, <3>3 DEF ReviewInv, ReviewShape, BatchIsLocked, Locked, StillPending, ClaimIsThere,
         StagedIsNext, NothingStagedYet, TargetIsFresh, ClaimFits, ClaimIsCurrent, StagedIsCurrent
  <2>3. CASE j # k /\ review'[j] = review[j] /\ review[j] # NoReview /\ staged'[j] = staged[j] /\ overtaken'[j]
    <3>1. ReviewInv(j) /\ Locked(j)' = Locked(j)
      BY <2>3 DEF PackInv, Locked
    <3>2. ReviewShape(j)'
      BY <1>1, <2>3, <3>1 DEF ReviewInv, ReviewShape
    <3>3. BatchIsLocked(j)'
      BY <1>1, <2>3, <3>1 DEF ReviewInv, BatchIsLocked
    <3>4. ClaimIsThere(j)'
      <4>1. review[j].at \in {"save", "pack"} => review[j].d \in ClaimRecord \cup ProposalRecord
        BY <2>3, <3>1 DEF ReviewInv, ReviewShape
      <4> QED BY <1>2, <1>8, <2>3, <3>1, <4>1, TargetStays DEF ReviewInv, ClaimIsThere, TargetThere
    <3>5. StagedIsNext(j)'
      <4>1. DOMAIN staged[j] \cap DOMAIN staged[k] = {} /\ DOMAIN staged[j] \subseteq PackRow
        BY <1>2, <2>3, SeenRows DEF PackInv, HeldOnce
      <4>2. \A p \in DOMAIN staged[j] : Counted(p)' = Counted(p)
        <5> SUFFICES ASSUME NEW p \in DOMAIN staged[j] PROVE Counted(p)' = Counted(p)
          OBVIOUS
        <5>1. p \in PackRow /\ p \notin DOMAIN staged[k]
          BY <4>1
        <5>2. Counted(p)' = Counted(p) + 0 /\ Counted(p) \in Nat
          BY <1>2, <1>7, <5>1, CountedType
        <5> QED BY <5>2
      <4>3. StagedIsNext(j)
        BY <3>1 DEF ReviewInv
      <4> QED BY <2>3, <4>2, <4>3 DEF StagedIsNext
    <3>6. NothingStagedYet(j)' /\ TargetIsFresh(j)' /\ StillPending(j)' /\ SeenApart(j)' /\ ClaimFits(j)'
      BY <2>3, <3>1 DEF ReviewInv, NothingStagedYet, TargetIsFresh, StillPending, SeenApart, ClaimFits
    <3>7. ClaimIsCurrent(j)' /\ StagedIsCurrent(j)'
      BY <2>3 DEF ClaimIsCurrent, StagedIsCurrent
    <3> QED BY <3>2, <3>3, <3>4, <3>5, <3>6, <3>7 DEF ReviewInv
  <2> QED BY <2>1, <2>2, <2>3
<1> QED BY <1>6, <1>9, <1>10, <1>11, <1>12, <1>13 DEF PackInv

\* What a request has checked before it applies a proposal.
Fits(k, d) == \A p \in PackRow \ {d.target} : OnSale(PacksSeenBy(k)[p]) => ~Clash(d, PacksSeenBy(k)[p])

LEMMA ApplyFits ==
  ASSUME PackTypeOK, NEW k \in Reviewers, NEW d, NEW others, MayApply(k, d, others)
  PROVE  Fits(k, d)
<1> SUFFICES ASSUME NEW p \in PackRow, p # d.target, OnSale(PacksSeenBy(k)[p])
             PROVE  ~Clash(d, PacksSeenBy(k)[p])
  BY DEF Fits
<1>1. p \in ActivePacks(k, d.target)
  BY SeenRows DEF ActivePacks, OnSale
<1>2. PacksSeenBy(k)[p].config # d.config
  BY <1>1 DEF MayApply, NoActiveDuplicate
<1>3. IsCaseSale(d.config) => PacksSeenBy(k)[p].config.barcode # d.config.barcode
  BY <1>1 DEF MayApply, CaseBarcodeAvailable
<1> QED BY <1>2, <1>3 DEF Clash, IsCaseSale

\* The version a request compares is the committed one, if it has not written the pack.
LEMMA ApplyIsCurrent ==
  ASSUME PackTypeOK, NEW k \in Reviewers, NEW d, NEW others, MayApply(k, d, others),
         d.target \in PackRow \cup {NoPack}, d.target \notin DOMAIN staged[k]
  PROVE  IsCurrent(d)
<1> SUFFICES ASSUME d.target # NoPack PROVE packs[d.target].version = d.version
  BY DEF IsCurrent
<1>1. PacksSeenBy(k)[d.target] = packs[d.target]
  BY SeenRows
<1> QED BY <1>1 DEF MayApply, SameVersion

\* A request that begins has written and locked nothing.
LEMMA BeginReviewInv ==
  ASSUME PackInv, NEW k \in Reviewers, NEW r \in ReviewRecord, Begin(k, r),
         DOMAIN r.batch = {},
         r.kind = "batch" => r.at = "lock" /\ r.todo = {} /\ r.counted # 0,
         r.kind # "batch" => r.d \in ClaimRecord \cup ProposalRecord /\ TargetThere(r.d),
         r.kind \in {"edit", "reject", "approve"} =>
           r.q \in DOMAIN proposals /\ proposals[r.q].status = "PENDING",
         r.kind = "approve" => /\ r.at = "pack" /\ Fits(k, r.d)
                               /\ r.d = proposals[r.q] /\ IsCurrent(r.d)
                               /\ (r.d.action = "CREATE") = (r.d.target = NoPack),
         r.kind \in {"submit", "edit", "reject"} => r.at = "save"
  PROVE  PackInv'
<1>1. /\ review' = [review EXCEPT ![k] = r] /\ review[k] = NoReview
      /\ UNCHANGED <<packs, proposals, writes, applied, overtaken, raced, staged>>
  BY DEF Begin, Goto, packRows, packGhosts
<1>2. /\ review'[k] = r /\ PackTypeOK /\ ReviewInv(k)
      /\ \A j \in Reviewers \ {k} : review'[j] = review[j]
  BY <1>1 DEF PackInv, PackTypeOK
<1>3. DOMAIN staged[k] = {} /\ staged[k] \in StagedRows /\ staged' = [staged EXCEPT ![k] = staged[k]]
  BY <1>1, <1>2 DEF ReviewInv, NothingStagedYet, PackTypeOK
<1>4. r # NoReview /\ NoPack \notin PackRow
  BY RowsAreThere
<1>5. r.kind \in {"submit", "edit", "reject", "approve", "batch"}
  BY DEF ReviewRecord
<1>6. PacksSeenBy(k)' = PacksSeenBy(k)
  BY <1>1 DEF PacksSeenBy
<1>7. HeldOnce'
  BY <1>1, <1>2 DEF PackInv, HeldOnce, Locked
<1>8. ReviewInv(k)'
  <2>1. ReviewShape(k)'
    BY <1>1, <1>2, <1>5 DEF ReviewShape
  <2>2. BatchIsLocked(k)' /\ StillPending(k)'
    BY <1>1, <1>2 DEF BatchIsLocked, Locked, StillPending
  <2>3. ClaimIsThere(k)'
    BY <1>1, <1>2 DEF ClaimIsThere, TargetThere
  <2>4. StagedIsNext(k)' /\ NothingStagedYet(k)'
    BY <1>1, <1>3 DEF StagedIsNext, NothingStagedYet
  <2>5. TargetIsFresh(k)'
    BY <1>1, <1>2, <1>3, <1>5 DEF TargetIsFresh
  <2>6. SeenApart(k)'
    BY <1>1, <1>2, <1>6 DEF ReviewInv, SeenApart, Apart, OnSale, Clash
  <2>7. ClaimFits(k)'
    BY <1>1, <1>2, <1>5, <1>6 DEF ClaimFits, Fits, OnSale, Clash
  <2>8. ClaimIsCurrent(k)' /\ StagedIsCurrent(k)'
    BY <1>1, <1>2, <1>3, <1>5 DEF ClaimIsCurrent, IsCurrent, StagedIsCurrent
  <2> QED BY <2>1, <2>2, <2>3, <2>4, <2>5, <2>6, <2>7, <2>8 DEF ReviewInv
<1> QED BY <1>1, <1>3, <1>7, <1>8, ReviewGoesOn DEF PackInv, PackTypeOK

\* What the first step of a request writes down.
LEMMA RequestRow ==
  ASSUME NEW what \in {"submit", "edit", "reject", "approve", "batch"}, NEW q \in 0 .. MaxProposals,
         NEW d \in ClaimRecord \cup ProposalRecord \cup {NoProposal}
  PROVE  LET r == Request(what, q, d) IN
         /\ r \in ReviewRecord
         /\ r.kind = what /\ r.q = q /\ r.d = d /\ r.at = "save" /\ r.todo = {} /\ r.batch = NoRows
         /\ r.wanted = {} /\ r.counted = 0
  BY NothingStaged DEF Request, ReviewRecord

\* A dto becomes a claim for the pack as it is.
LEMMA VersionedRow ==
  ASSUME PackInv, NEW k \in Reviewers, review[k] = NoReview, NEW d \in PackDtos, TargetFits(k, d)
  PROVE  Versioned(d) \in ClaimRecord /\ TargetThere(Versioned(d))
<1>1. PackTypeOK /\ ReviewInv(k)
  BY DEF PackInv
<1>2. PacksSeenBy(k) = packs
  BY <1>1, SeesCommitted DEF ReviewInv, NothingStagedYet
<1>3. d.action \in Actions /\ d.target \in Targets /\ d.config \in Configs /\ d.retail \in Prices
  BY PackAssumption DEF Prices
<1>4. d.target # NoPack => packs[d.target] # NoPack /\ d.target \in PackRow /\ packs[d.target].version \in Nat
  <2>1. d.target # NoPack => d.target \in PackRow /\ packs[d.target] # NoPack
    BY <1>2, <1>3 DEF TargetFits, Targets
  <2>2. ASSUME NEW p \in PackRow, packs[p] # NoPack PROVE packs[p].version \in Nat
    BY <1>1, <2>2 DEF PackTypeOK, PackRecord
  <2> QED BY <2>1, <2>2
<1>5. VersionOf(d.target) \in Nat /\ (d.target # NoPack => VersionOf(d.target) <= packs[d.target].version)
  BY <1>4 DEF VersionOf
<1> DEFINE n == VersionOf(d.target)
<1> HIDE DEF n
<1>6. Versioned(d) =
        [action |-> d.action, target |-> d.target, config |-> d.config, retail |-> d.retail, version |-> n]
  BY DEF Versioned, n
<1>7. Versioned(d) \in ClaimRecord /\ Versioned(d).target = d.target /\ Versioned(d).version = n
  BY <1>3, <1>5, <1>6 DEF ClaimRecord, n
<1> QED BY <1>4, <1>5, <1>7 DEF TargetThere, n

LEMMA AskReviewInv ==
  ASSUME PackInv, NEW k \in Reviewers,
         AskSubmit(k) \/ AskEdit(k) \/ AskReject(k) \/ AskApprove(k) \/ CountPending(k)
  PROVE  PackInv'
<1>0. PackTypeOK /\ DOMAIN NoRows = {} /\ 0 \in 0 .. MaxProposals
  BY NothingStaged, PackAssumption DEF PackInv
<1>1. \A q \in DOMAIN proposals : q \in 0 .. MaxProposals /\ proposals[q] \in ProposalRecord
  BY <1>0, ProposalNumbers, PackAssumption DEF Numbers
<1>2. CASE AskSubmit(k)
  <2>1. PICK d \in PackDtos : TargetFits(k, d) /\ Begin(k, Request("submit", 0, Versioned(d)))
    BY <1>2 DEF AskSubmit, MayPropose
  <2>2. Versioned(d) \in ClaimRecord /\ TargetThere(Versioned(d))
    BY <2>1, VersionedRow DEF Begin
  <2> DEFINE r == Request("submit", 0, Versioned(d))
  <2>3. /\ r \in ReviewRecord /\ r.kind = "submit" /\ r.d = Versioned(d) /\ r.at = "save"
        /\ r.batch = NoRows
    BY <1>0, <2>2, RequestRow
  <2> HIDE DEF r
  <2>4. Begin(k, r)
    BY <2>1 DEF r
  <2> QED BY <1>0, <2>2, <2>3, <2>4, BeginReviewInv
<1>3. CASE AskEdit(k)
  <2>1. PICK q \in DOMAIN proposals, d \in PackDtos :
          TargetFits(k, d) /\ proposals[q].status = "PENDING" /\ Begin(k, Request("edit", q, Versioned(d)))
    BY <1>3 DEF AskEdit, MayPropose, MayReview
  <2>2. Versioned(d) \in ClaimRecord /\ TargetThere(Versioned(d))
    BY <2>1, VersionedRow DEF Begin
  <2> DEFINE r == Request("edit", q, Versioned(d))
  <2>3. /\ r \in ReviewRecord /\ r.kind = "edit" /\ r.q = q /\ r.d = Versioned(d) /\ r.at = "save"
        /\ r.batch = NoRows
    BY <1>1, <2>2, RequestRow
  <2> HIDE DEF r
  <2>4. Begin(k, r)
    BY <2>1 DEF r
  <2> QED BY <1>0, <2>1, <2>2, <2>3, <2>4, BeginReviewInv
<1>4. CASE AskReject(k)
  <2>1. PICK q \in DOMAIN proposals :
          proposals[q].status = "PENDING" /\ Begin(k, Request("reject", q, proposals[q]))
    BY <1>4 DEF AskReject, MayReview
  <2> DEFINE r == Request("reject", q, proposals[q])
  <2>2. /\ r \in ReviewRecord /\ r.kind = "reject" /\ r.q = q /\ r.d = proposals[q] /\ r.at = "save"
        /\ r.batch = NoRows
    BY <1>1, RequestRow
  <2>3. proposals[q] \in ProposalRecord /\ TargetThere(proposals[q])
    BY <1>1 DEF PackInv, TargetsAreThere
  <2> HIDE DEF r
  <2>4. Begin(k, r)
    BY <2>1 DEF r
  <2> QED BY <1>0, <2>1, <2>2, <2>3, <2>4, BeginReviewInv
<1>5. CASE AskApprove(k)
  <2>1. PICK q \in DOMAIN proposals :
          /\ proposals[q].status = "PENDING" /\ MayApply(k, proposals[q], Pending(k, {}) \ {q})
          /\ Begin(k, [Request("approve", q, proposals[q]) EXCEPT !.at = "pack"])
    BY <1>5 DEF AskApprove, MayReview
  <2> DEFINE a1 == Request("approve", q, proposals[q])
             r == [a1 EXCEPT !.at = "pack"]
  <2>2. a1 \in ReviewRecord /\ a1.kind = "approve" /\ a1.q = q /\ a1.d = proposals[q] /\ a1.batch = NoRows
    BY <1>1, RequestRow
  <2>3. Begin(k, r)
    BY <2>1
  <2> HIDE DEF a1
  <2>4. /\ r \in ReviewRecord /\ r.kind = "approve" /\ r.q = q /\ r.d = proposals[q] /\ r.at = "pack"
        /\ r.batch = NoRows
    BY <2>2 DEF ReviewRecord
  <2> HIDE DEF r
  <2>5. proposals[q] \in ProposalRecord /\ TargetThere(proposals[q]) /\ Fits(k, proposals[q])
    BY <1>0, <1>1, <2>1, ApplyFits DEF PackInv, TargetsAreThere
  <2>6. (proposals[q].action = "CREATE") = (proposals[q].target = NoPack)
    BY <2>1 DEF MayApply, TargetFits
  <2>7. IsCurrent(proposals[q])
    <3>1. DOMAIN staged[k] = {} /\ proposals[q].target \in PackRow \cup {NoPack}
      BY <2>1, <2>5 DEF PackInv, ReviewInv, NothingStagedYet, Begin, ProposalRecord, Targets
    <3> QED BY <1>0, <2>1, <3>1, ApplyIsCurrent
  <2> QED BY <1>0, <2>1, <2>3, <2>4, <2>5, <2>6, <2>7, BeginReviewInv
<1>6. CASE CountPending(k)
  <2>1. PICK wanted \in SUBSET DOMAIN applied :
          /\ Pending(k, {}) \cap wanted # {}
          /\ Begin(k, [Request("batch", 0, NoProposal) EXCEPT
                         !.at = "lock", !.wanted = wanted, !.counted = Cardinality(Pending(k, {}) \cap wanted)])
    BY <1>6 DEF CountPending
  <2> DEFINE a1 == Request("batch", 0, NoProposal)
             n == Cardinality(Pending(k, {}) \cap wanted)
             r == [a1 EXCEPT !.at = "lock", !.wanted = wanted, !.counted = n]
  <2>2. a1 \in ReviewRecord /\ a1.kind = "batch" /\ a1.todo = {} /\ a1.batch = NoRows
    BY <1>0, RequestRow
  <2>3. Begin(k, r)
    BY <2>1
  <2>4. n \in Nat /\ n # 0
    <3>1. IsFiniteSet(Numbers)
      BY PackAssumption, FS_Interval DEF Numbers
    <3>2. Pending(k, {}) \cap wanted \in SUBSET Numbers
      BY <1>0, ProposalNumbers DEF Pending
    <3>3. IsFiniteSet(Pending(k, {}) \cap wanted)
      BY <3>1, <3>2, FS_Subset
    <3> QED BY <2>1, <3>3, FS_EmptySet, FS_CardinalityType
  <2>5. wanted \in SUBSET Numbers
    BY <1>0 DEF PackTypeOK
  <2> HIDE DEF a1, n
  <2>6. r \in ReviewRecord /\ r.kind = "batch" /\ r.at = "lock" /\ r.todo = {} /\ r.batch = NoRows /\ r.counted = n
    BY <2>2, <2>4, <2>5 DEF ReviewRecord
  <2> HIDE DEF r
  <2> QED BY <1>0, <2>3, <2>4, <2>6, BeginReviewInv
<1> QED BY <1>2, <1>3, <1>4, <1>5, <1>6

\* A batch that goes on: what it has locked is nobody else's, is what it has read and pending.
LEMMA BatchGoesOn ==
  ASSUME PackInv, NEW k \in Reviewers, NEW r \in ReviewRecord, Continue(k, r), r.kind = "batch",
         r.todo \subseteq DOMAIN r.batch,
         \A q \in DOMAIN r.batch :
           /\ q \in DOMAIN proposals /\ proposals[q] = r.batch[q] /\ proposals[q].status = "PENDING"
           /\ ~ProposalBusy(k, q),
         \/ r.at = "check" /\ r.todo # {}
         \/ /\ r.at = "pack" /\ r.q \in r.todo /\ r.d = r.batch[r.q] /\ Fits(k, r.d)
            /\ (r.d.action = "CREATE") = (r.d.target = NoPack)
            /\ r.d.target \notin DOMAIN staged[k] /\ IsCurrent(r.d)
  PROVE  PackInv'
<1>1. /\ review' = [review EXCEPT ![k] = r]
      /\ UNCHANGED <<packs, proposals, writes, applied, overtaken, raced, staged>>
  BY DEF Continue, Goto, packRows, packGhosts
<1>2. /\ review'[k] = r /\ PackTypeOK /\ ReviewInv(k)
      /\ \A j \in Reviewers \ {k} : review'[j] = review[j]
  BY <1>1 DEF PackInv, PackTypeOK
<1>3. staged[k] \in StagedRows /\ staged' = [staged EXCEPT ![k] = staged[k]]
  BY <1>1, <1>2 DEF PackTypeOK
<1>4. r # NoReview
  BY RowsAreThere
<1>5. PacksSeenBy(k)' = PacksSeenBy(k)
  BY <1>1 DEF PacksSeenBy
<1>6. Locked(k)' = DOMAIN r.batch /\ \A j \in Reviewers \ {k} : Locked(j)' = Locked(j)
  BY <1>2, <1>4 DEF Locked
<1>7. HeldOnce'
  BY <1>1, <1>6 DEF PackInv, HeldOnce, ProposalBusy
<1>8. ReviewInv(k)'
  <2>1. \A q \in DOMAIN r.batch : r.batch[q] \in ProposalRecord /\ TargetThere(r.batch[q])
    BY BatchRows DEF PackInv, TargetsAreThere
  <2>2. ReviewShape(k)'
    BY <1>1, <1>2, <2>1 DEF ReviewShape
  <2>3. BatchIsLocked(k)'
    BY <1>1, <1>2, <1>6 DEF BatchIsLocked
  <2>4. StillPending(k)'
    BY <1>2 DEF StillPending
  <2>5. ClaimIsThere(k)'
    BY <1>1, <1>2, <2>1 DEF ClaimIsThere, TargetThere
  <2>6. StagedIsNext(k)' /\ NothingStagedYet(k)'
    BY <1>1, <1>2, <1>4 DEF ReviewInv, StagedIsNext, NothingStagedYet, Counted
  <2>7. TargetIsFresh(k)'
    BY <1>1, <1>2 DEF TargetIsFresh
  <2>8. SeenApart(k)'
    BY <1>1, <1>2, <1>5 DEF ReviewInv, SeenApart, Apart, OnSale, Clash
  <2>9. ClaimFits(k)'
    BY <1>1, <1>2, <1>5 DEF ClaimFits, Fits, OnSale, Clash
  <2>10. ClaimIsCurrent(k)'
    BY <1>1, <1>2 DEF ClaimIsCurrent, IsCurrent
  <2>11. StagedIsCurrent(k)'
    BY <1>1, <1>2 DEF ReviewInv, StagedIsCurrent
  <2> QED BY <2>2, <2>3, <2>4, <2>5, <2>6, <2>7, <2>8, <2>9, <2>10, <2>11 DEF ReviewInv
<1> QED BY <1>1, <1>3, <1>7, <1>8, ReviewGoesOn DEF PackInv, PackTypeOK

\* What a batch holds is not held by anybody else.
LEMMA BatchIsMine ==
  ASSUME PackInv, NEW k \in Reviewers, review[k] # NoReview
  PROVE  /\ Locked(k) = DOMAIN review[k].batch
         /\ \A q \in DOMAIN review[k].batch :
              /\ q \in DOMAIN proposals /\ proposals[q] = review[k].batch[q] /\ proposals[q].status = "PENDING"
              /\ ~ProposalBusy(k, q)
<1>1. Locked(k) = DOMAIN review[k].batch
  BY DEF Locked
<1>2. BatchIsLocked(k) /\ HeldOnce
  BY DEF PackInv, ReviewInv
<1>3. \A q \in Locked(k) : ~ProposalBusy(k, q)
  BY <1>2 DEF HeldOnce, ProposalBusy
<1> QED BY <1>1, <1>2, <1>3 DEF BatchIsLocked

\* A set of proposals that is not empty has a first one.
LEMMA SomeIsFirst ==
  ASSUME NEW todo \in SUBSET Numbers, todo # {}
  PROVE  FirstSubmitted(todo) \in todo
<1>1. MaxProposals \in Nat
  BY PackAssumption
<1>2. todo \subseteq Nat
  BY <1>1 DEF Numbers
<1>3. PICK q \in todo : \A o \in todo : <<o, q>> \notin OpToRel(<, Nat)
  BY <1>2, NatLessThanWellFounded, WFMin
<1>4. \A o \in todo : ~(o < q)
  BY <1>2, <1>3 DEF OpToRel
<1>5. \A o \in todo : q <= o
  BY <1>2, <1>4
<1> QED BY <1>5 DEF FirstSubmitted

LEMMA LockPendingInv ==
  ASSUME PackInv, NEW k \in Reviewers, LockPending(k)
  PROVE  PackInv'
<1> DEFINE pending == Pending(k, {}) \cap review[k].wanted
           a1 == Request("batch", 0, NoProposal)
           b == [q \in pending |-> proposals[q]]
           r == [a1 EXCEPT !.at = "check", !.batch = b, !.todo = pending]
<1>1. /\ review[k] # NoReview /\ review[k].kind = "batch" /\ review[k].at = "lock"
      /\ \A q \in pending : ~ProposalBusy(k, q)
      /\ Cardinality(pending) = review[k].counted
      /\ Continue(k, r)
  BY DEF LockPending, At
<1>2. PackTypeOK /\ ReviewInv(k)
  BY DEF PackInv
<1>3. Locked(k) = {}
  BY <1>1, <1>2 DEF ReviewInv, ReviewShape, Locked
<1>4. pending \subseteq DOMAIN proposals /\ \A q \in pending : proposals[q].status = "PENDING"
  BY DEF Pending, PendingFor
<1>5. pending # {}
  <2>1. Cardinality(pending) # 0
    BY <1>1, <1>2 DEF ReviewInv, ReviewShape
  <2> HIDE DEF pending
  <2> QED BY <2>1, FS_EmptySet
<1>6. pending \in SUBSET Numbers /\ b \in [pending -> ProposalRecord]
  BY <1>2, <1>4, ProposalNumbers
<1>7. b \in Batches /\ DOMAIN b = pending /\ \A q \in pending : b[q] = proposals[q]
  BY <1>6 DEF Batches
<1>8. a1 \in ReviewRecord /\ a1.kind = "batch"
  BY RequestRow, PackAssumption
<1> HIDE DEF a1, b, pending
<1>9. r \in ReviewRecord /\ r.kind = "batch" /\ r.at = "check" /\ r.todo = pending /\ r.batch = b
  BY <1>6, <1>7, <1>8 DEF ReviewRecord
<1> HIDE DEF r
<1> QED BY <1>1, <1>4, <1>5, <1>7, <1>9, BatchGoesOn

LEMMA CheckNextInv ==
  ASSUME PackInv, NEW k \in Reviewers, CheckNext(k)
  PROVE  PackInv'
<1> DEFINE old == review[k]
           q == FirstSubmitted(old.todo)
           d == old.batch[q]
           r == [old EXCEPT !.at = "pack", !.q = q, !.d = d]
<1>1. /\ old # NoReview /\ old.kind = "batch" /\ old.at = "check"
      /\ MayApply(k, d, Pending(k, old.todo) \ {q})
      /\ Continue(k, r)
  BY DEF CheckNext, At
<1>2. PackTypeOK /\ ReviewInv(k) /\ old \in ReviewRecord
  BY <1>1 DEF PackInv, PackTypeOK
<1>3. old.todo \subseteq DOMAIN old.batch /\ old.todo # {}
  BY <1>1, <1>2 DEF ReviewInv, ReviewShape
<1>4. DOMAIN old.batch \subseteq Numbers /\ \A i \in DOMAIN old.batch : old.batch[i] \in ProposalRecord
  BY <1>2, BatchRows
<1>5. q \in old.todo /\ q \in DOMAIN old.batch
  <2>1. old.todo \in SUBSET Numbers
    BY <1>3, <1>4
  <2> QED BY <1>3, <2>1, SomeIsFirst
<1>6. /\ \A i \in DOMAIN old.batch :
           /\ i \in DOMAIN proposals /\ proposals[i] = old.batch[i] /\ proposals[i].status = "PENDING"
           /\ ~ProposalBusy(k, i)
  BY <1>1, BatchIsMine
<1>7. d \in ProposalRecord /\ TargetThere(d)
  BY <1>4, <1>5, <1>6 DEF PackInv, TargetsAreThere
<1>8. Fits(k, d) /\ (d.action = "CREATE") = (d.target = NoPack)
  BY <1>1, <1>2, ApplyFits DEF MayApply, TargetFits
<1>9. d.target \notin DOMAIN staged[k]
  <2> SUFFICES ASSUME d.target \in DOMAIN staged[k] PROVE FALSE
    OBVIOUS
  <2>1. d.target \in PackRow /\ d.target # NoPack
    BY <1>2, SeenRows, RowsAreThere
  <2>2. PacksSeenBy(k)[d.target] = staged[k][d.target]
    BY <1>2, <2>1, SeenRows
  <2>3. PacksSeenBy(k)[d.target].version = d.version
    BY <1>1, <2>1 DEF MayApply, SameVersion
  <2>4. staged[k][d.target].version = Counted(d.target) + 1
    BY <1>2 DEF ReviewInv, StagedIsNext
  <2>5. packs[d.target].version = Counted(d.target) /\ d.version <= packs[d.target].version
    BY <1>7, <2>1 DEF TargetThere, PackInv, VersionsAreCounts
  <2>6. Counted(d.target) \in Nat
    BY <1>2, <2>1, CountedType
  <2> HIDE DEF d
  <2> QED BY <2>2, <2>3, <2>4, <2>5, <2>6
<1>10. q \in 0 .. MaxProposals
  BY <1>4, <1>5, PackAssumption DEF Numbers
<1>13. IsCurrent(d)
  <2>1. d.target \in PackRow \cup {NoPack}
    BY <1>7 DEF ProposalRecord, Targets
  <2> HIDE DEF d
  <2> QED BY <1>1, <1>2, <1>9, <2>1, ApplyIsCurrent
<1> HIDE DEF d, q, old
<1>11. /\ r \in ReviewRecord /\ r.kind = "batch" /\ r.at = "pack" /\ r.q = q /\ r.d = d
       /\ r.todo = old.todo /\ r.batch = old.batch
  BY <1>1, <1>2, <1>7, <1>10 DEF ReviewRecord
<1>12. d = old.batch[q]
  BY DEF d
<1> HIDE DEF r
<1> QED BY <1>1, <1>3, <1>5, <1>6, <1>8, <1>9, <1>11, <1>12, <1>13, BatchGoesOn

LEMMA NextInBatchInv ==
  ASSUME PackInv, NEW k \in Reviewers, NextInBatch(k)
  PROVE  PackInv'
<1> DEFINE old == review[k]
           rest == old.todo \ {old.q}
           r == [old EXCEPT !.at = "check", !.todo = rest]
<1>1. /\ old # NoReview /\ old.kind = "batch" /\ old.at = "save" /\ old.todo # {old.q}
      /\ Continue(k, r)
  BY DEF NextInBatch, At
<1>2. PackTypeOK /\ ReviewInv(k) /\ old \in ReviewRecord
  BY <1>1 DEF PackInv, PackTypeOK
<1>3. old.todo \subseteq DOMAIN old.batch /\ old.q \in old.todo
  BY <1>1, <1>2 DEF ReviewInv, ReviewShape
<1>4. rest # {} /\ rest \subseteq DOMAIN old.batch /\ rest \subseteq Numbers
  BY <1>1, <1>2, <1>3, BatchRows
<1>5. \A i \in DOMAIN old.batch :
        /\ i \in DOMAIN proposals /\ proposals[i] = old.batch[i] /\ proposals[i].status = "PENDING"
        /\ ~ProposalBusy(k, i)
  BY <1>1, BatchIsMine
<1> HIDE DEF old, rest
<1>6. r \in ReviewRecord /\ r.kind = "batch" /\ r.at = "check" /\ r.todo = rest /\ r.batch = old.batch
  BY <1>1, <1>2, <1>4 DEF ReviewRecord
<1> HIDE DEF r
<1> QED BY <1>1, <1>4, <1>5, <1>6, BatchGoesOn

\* A request that fails gives up what it wrote and locked.
LEMMA FailReviewInv ==
  ASSUME PackInv, NEW k \in Reviewers, FailReview(k)
  PROVE  PackInv'
<1>1. /\ review' = [review EXCEPT ![k] = NoReview] /\ staged' = [staged EXCEPT ![k] = NoRows]
      /\ overtaken' = [overtaken EXCEPT ![k] = FALSE]
      /\ UNCHANGED <<packs, proposals, writes, applied, raced>>
  BY DEF FailReview, Goto, packRows
<1>2. PackTypeOK
  BY DEF PackInv
<1>3. /\ review'[k] = NoReview /\ DOMAIN staged'[k] = {}
      /\ \A j \in Reviewers \ {k} : review'[j] = review[j] /\ staged'[j] = staged[j]
      /\ overtaken' \in [Reviewers -> BOOLEAN]
      /\ \A j \in Reviewers \ {k} : overtaken'[j] = overtaken[j]
  BY <1>1, <1>2, NothingStaged DEF PackTypeOK
<1>4. HeldOnce'
  BY <1>3 DEF PackInv, HeldOnce, Locked
<1>5. ReviewInv(k)'
  <2>1. PacksSeenBy(k)' = packs'
    BY <1>1, <1>2, <1>3 DEF PackTypeOK, PacksSeenBy
  <2>2. ~raced' => Apart(packs)'
    BY <1>1 DEF PackInv, Apart, OnSale, Clash
  <2>3. SeenApart(k)'
    BY <2>1, <2>2 DEF SeenApart, Apart, OnSale, Clash
  <2> QED
    BY <1>3, <2>3 DEF ReviewInv, ReviewShape, BatchIsLocked, Locked, StillPending, ClaimIsThere,
       StagedIsNext, NothingStagedYet, TargetIsFresh, ClaimFits, ClaimIsCurrent, StagedIsCurrent
<1> QED BY <1>1, <1>3, <1>4, <1>5, NothingStaged, ReviewGoesOn

LEMMA PackInitInv == PackInit => PackInv
<1> SUFFICES ASSUME PackInit PROVE PackInv
  OBVIOUS
<1>1. \A k \in Reviewers : /\ review[k] = NoReview /\ staged[k] = NoRows /\ DOMAIN staged[k] = {}
                          /\ Locked(k) = {} /\ proposals = <<>>
  BY NothingStaged DEF PackInit, Locked
<1>2. PackTypeOK
  <2>1. packs \in [PackRow -> PackRecord \cup {NoPack}]
    BY PackAssumption DEF PackInit
  <2>2. proposals \in Seq(ProposalRecord) /\ Len(proposals) <= MaxProposals
    BY PackAssumption DEF PackInit
  <2>3. writes \in [PackRow -> Nat] /\ applied \in [Numbers -> Nat]
    BY DEF PackInit, Numbers
  <2>4. review \in [Reviewers -> ReviewRecord \cup {NoReview}] /\ staged \in [Reviewers -> StagedRows]
    BY NothingStaged DEF PackInit
  <2> QED BY <2>1, <2>2, <2>3, <2>4 DEF PackTypeOK, PackInit
<1>3. \A p \in PackRow : /\ packs[p] = IF p \in Packs THEN InitialPack[p] ELSE NoPack
                         /\ writes[p] = 0
                         /\ p \in Packs => InitialPack[p] \in PackRecord /\ InitialPack[p] # NoPack
  BY RowsAreThere, PackAssumption DEF PackInit
<1>4. VersionsAreCounts
  BY <1>3 DEF VersionsAreCounts, Counted, PackRecord
<1>5. Apart(packs)
  BY <1>3, PackAssumption DEF Apart, OnSale
<1>6. HeldOnce /\ TargetsAreThere
  BY <1>1 DEF HeldOnce, TargetsAreThere, PackInit
<1>7. ASSUME NEW k \in Reviewers PROVE ReviewInv(k)
  <2>1. PacksSeenBy(k) = packs
    BY <1>1, <1>2, SeesCommitted
  <2> QED
    BY <1>1, <1>5, <2>1 DEF ReviewInv, ReviewShape, BatchIsLocked, StillPending, ClaimIsThere,
       StagedIsNext, NothingStagedYet, TargetIsFresh, SeenApart, ClaimFits, ClaimIsCurrent, StagedIsCurrent
<1> QED BY <1>2, <1>4, <1>5, <1>6, <1>7 DEF PackInv

\* The UPDATE of a pack that nobody else holds, and which fits what the request sees.
LEMMA StageInv ==
  ASSUME PackInv, NEW k \in Reviewers, NEW p \in PackRow, NEW row \in PackRecord,
         At(k, {"approve", "batch"}, "pack"), ~PackBusy(k, p), row.version = Counted(p) + 1,
         row.from = review[k].q, packs[p] # NoPack => review[k].d.target = p,
         ~overtaken[k] /\ ~raced /\ row.active =>
           \A o \in PackRow \ {p} : OnSale(PacksSeenBy(k)[o]) => ~Clash(row, PacksSeenBy(k)[o]),
         staged' = [staged EXCEPT ![k] = StagedWith(k, p, row)],
         Goto(k, [review[k] EXCEPT !.at = "save"]), UNCHANGED <<packRows, packGhosts>>
  PROVE  PackInv'
<1> DEFINE old == review[k]
           r == [old EXCEPT !.at = "save"]
           s == StagedWith(k, p, row)
<1>1. /\ review' = [review EXCEPT ![k] = r] /\ staged' = [staged EXCEPT ![k] = s]
      /\ UNCHANGED <<packs, proposals, writes, applied, overtaken, raced>>
  BY DEF Goto, packRows, packGhosts
<1>2. PackTypeOK /\ ReviewInv(k) /\ old \in ReviewRecord /\ old # NoReview
      /\ old.kind \in {"approve", "batch"} /\ old.at = "pack"
  BY DEF PackInv, PackTypeOK, At
<1>3. /\ r \in ReviewRecord /\ r.at = "save" /\ r.kind = old.kind /\ r.q = old.q /\ r.d = old.d
      /\ r.todo = old.todo /\ r.batch = old.batch /\ r # NoReview
  <2> HIDE DEF old
  <2>1. /\ r \in ReviewRecord /\ r.at = "save" /\ r.kind = old.kind /\ r.q = old.q /\ r.d = old.d
        /\ r.todo = old.todo /\ r.batch = old.batch
    BY <1>2 DEF ReviewRecord
  <2> QED BY <2>1, RowsAreThere
<1>4. /\ DOMAIN s = DOMAIN staged[k] \cup {p} /\ s \in StagedRows
      /\ \A o \in DOMAIN s : s[o] = IF o = p THEN row ELSE staged[k][o]
  <2>1. DOMAIN staged[k] \subseteq PackRow /\ \A o \in DOMAIN staged[k] : staged[k][o] \in PackRecord
    BY <1>2, SeenRows
  <2>2. s \in [DOMAIN staged[k] \cup {p} -> PackRecord] /\ DOMAIN staged[k] \cup {p} \in SUBSET PackRow
    BY <2>1 DEF StagedWith
  <2> QED BY <2>2 DEF StagedRows, StagedWith
<1> HIDE DEF r, s
<1>5. /\ review'[k] = r /\ staged'[k] = s
      /\ \A j \in Reviewers \ {k} : review'[j] = review[j] /\ staged'[j] = staged[j]
  BY <1>1, <1>2 DEF PackTypeOK
<1>6. \A j \in Reviewers : Locked(j)' = Locked(j)
  BY <1>2, <1>3, <1>5 DEF Locked
<1>7. HeldOnce'
  BY <1>4, <1>5, <1>6 DEF PackInv, HeldOnce, PackBusy
<1>8. /\ DOMAIN packs' = PackRow
      /\ \A o \in PackRow : PacksSeenBy(k)'[o] = IF o = p THEN row ELSE PacksSeenBy(k)[o]
  BY <1>1, <1>2, <1>4, <1>5, SeenRows DEF PacksSeenBy
<1>9. ReviewInv(k)'
  <2>1. ReviewShape(k)'
    BY <1>1, <1>2, <1>3, <1>5 DEF ReviewInv, ReviewShape
  <2>2. BatchIsLocked(k)'
    BY <1>1, <1>2, <1>3, <1>5, <1>6 DEF ReviewInv, BatchIsLocked
  <2>3. StillPending(k)' /\ ClaimIsThere(k)'
    BY <1>1, <1>2, <1>3, <1>5 DEF ReviewInv, StillPending, ClaimIsThere, TargetThere
  <2>4. StagedIsNext(k)'
    BY <1>1, <1>2, <1>4, <1>5 DEF ReviewInv, StagedIsNext, Counted
  <2>5. NothingStagedYet(k)' /\ TargetIsFresh(k)' /\ ClaimFits(k)'
    BY <1>2, <1>3, <1>5 DEF NothingStagedYet, TargetIsFresh, ClaimFits
  <2>6. SeenApart(k)'
    <3> SUFFICES ASSUME ~overtaken[k], ~raced, NEW i \in PackRow, NEW o \in PackRow, i # o,
                        OnSale(PacksSeenBy(k)'[i]), OnSale(PacksSeenBy(k)'[o])
                 PROVE  ~Clash(PacksSeenBy(k)'[i], PacksSeenBy(k)'[o])
      BY <1>1 DEF SeenApart, Apart, OnSale, Clash
    <3>1. CASE i # p /\ o # p
      BY <1>2, <1>8, <3>1 DEF ReviewInv, SeenApart, Apart
    <3>2. CASE i = p \/ o = p
      BY <1>8, <3>2 DEF Clash, OnSale
    <3> QED BY <3>1, <3>2
  <2>7. ClaimIsCurrent(k)'
    BY <1>3, <1>5 DEF ClaimIsCurrent
  <2>8. StagedIsCurrent(k)'
    <3> SUFFICES ASSUME ~overtaken[k], NEW o \in DOMAIN s, packs[o] # NoPack
                 PROVE  /\ proposals[s[o].from].target = o
                        /\ proposals[s[o].from].version = packs[o].version
      BY <1>1, <1>5 DEF StagedIsCurrent
    <3>1. CASE o = p
      <4>1. s[o].from = old.q /\ old.d.target = p /\ p # NoPack
        BY <1>4, <3>1, RowsAreThere
      <4>2. old.d = proposals[old.q] /\ IsCurrent(old.d)
        BY <1>2 DEF ReviewInv, ClaimIsCurrent
      <4> QED BY <3>1, <4>1, <4>2 DEF IsCurrent
    <3>2. CASE o # p
      <4>1. o \in DOMAIN staged[k] /\ s[o] = staged[k][o]
        BY <1>4, <3>2
      <4> QED BY <1>2, <4>1 DEF ReviewInv, StagedIsCurrent
    <3> QED BY <3>1, <3>2
  <2> QED BY <2>1, <2>2, <2>3, <2>4, <2>5, <2>6, <2>7, <2>8 DEF ReviewInv
<1> QED BY <1>1, <1>3, <1>4, <1>7, <1>9, ReviewGoesOn DEF PackInv, PackTypeOK

LEMMA WritePackInv ==
  ASSUME PackInv, NEW k \in Reviewers, WritePack(k)
  PROVE  PackInv'
<1> DEFINE q == review[k].q
           d == review[k].d
           p == IF d.action = "CREATE" THEN q ELSE d.target
           row == IF d.action = "CREATE" THEN CreatedPack(q, d) ELSE ChangedPack(q, d, PacksSeenBy(k)[p])
<1>1. /\ At(k, {"approve", "batch"}, "pack") /\ ~PackBusy(k, p)
      /\ d.action = "CREATE" => packs[p] = NoPack
      /\ staged' = [staged EXCEPT ![k] = StagedWith(k, p, row)]
      /\ Goto(k, [review[k] EXCEPT !.at = "save"]) /\ UNCHANGED <<packRows, packGhosts>>
  BY DEF WritePack
<1>2. /\ PackTypeOK /\ ReviewInv(k) /\ review[k] \in ReviewRecord /\ review[k] # NoReview
      /\ review[k].kind \in {"approve", "batch"} /\ review[k].at = "pack"
  BY <1>1 DEF PackInv, PackTypeOK, At
<1>3. q \in Numbers /\ q \in PackRow
  <2>1. review[k].kind = "approve" => q \in DOMAIN proposals
    BY <1>2 DEF ReviewInv, ReviewShape
  <2>2. review[k].kind = "batch" => q \in DOMAIN review[k].batch
    BY <1>2 DEF ReviewInv, ReviewShape
  <2>3. q \in Numbers
    BY <1>2, <2>1, <2>2, ProposalNumbers, BatchRows
  <2> QED BY <2>3 DEF Numbers, PackRow
<1>4. d \in ClaimRecord \cup ProposalRecord /\ TargetThere(d)
  BY <1>2 DEF ReviewInv, ReviewShape, ClaimIsThere
<1>5. d.target \in Targets /\ d.config \in Configs
  BY <1>4 DEF ClaimRecord, ProposalRecord
<1>6. (d.action = "CREATE") = (d.target = NoPack) /\ d.target \notin DOMAIN staged[k]
  BY <1>2 DEF ReviewInv, TargetIsFresh
<1>7. ~overtaken[k] /\ ~raced =>
        \A o \in PackRow \ {d.target} : OnSale(PacksSeenBy(k)[o]) => ~Clash(d, PacksSeenBy(k)[o])
  BY <1>2 DEF ReviewInv, ClaimFits
<1> HIDE DEF q, d
<1>8. CASE d.action = "CREATE"
  <2>1. packs[q] = NoPack /\ d.target = NoPack /\ NoPack \notin PackRow
    BY <1>1, <1>6, <1>8, RowsAreThere
  <2>2. Counted(q) = 0
    BY <1>3, <2>1 DEF PackInv, VersionsAreCounts, Counted
  <2> DEFINE new == CreatedPack(q, d)
  <2>3. new \in PackRecord /\ new.config = d.config /\ new.version = Counted(q) + 1 /\ new.from = q
    BY <1>3, <1>5, <2>2 DEF CreatedPack, PackRecord, Numbers
  <2>4. p = q /\ row = new
    BY <1>8
  <2> HIDE DEF new, p, row
  <2>5. ~overtaken[k] /\ ~raced =>
          \A o \in PackRow \ {q} : OnSale(PacksSeenBy(k)[o]) => ~Clash(new, PacksSeenBy(k)[o])
    BY <1>7, <2>1, <2>3 DEF Clash
  <2> QED BY <1>1, <1>3, <2>1, <2>3, <2>4, <2>5, StageInv DEF q
<1>9. CASE d.action # "CREATE"
  <2> DEFINE t == d.target
             before == PacksSeenBy(k)[t]
             new == ChangedPack(q, d, before)
  <2>1. t \in PackRow /\ packs[t] # NoPack
    BY <1>4, <1>5, <1>6, <1>9 DEF Targets, TargetThere
  <2>2. before = packs[t] /\ before \in PackRecord
    BY <1>2, <1>6, <2>1, SeenRows DEF PackTypeOK
  <2>3. before.version = Counted(t) /\ Counted(t) \in Nat
    BY <1>2, <2>1, <2>2, CountedType DEF PackInv, VersionsAreCounts
  <2>4. p = t /\ row = new
    BY <1>9
  <2> HIDE DEF t, before
  <2>5. /\ new \in PackRecord /\ new.version = Counted(t) + 1 /\ new.from = q
        /\ new.active => new.config = d.config
    <3> DEFINE c == IF d.action = "DEACTIVATE" THEN before.config ELSE d.config
               on == d.action # "DEACTIVATE"
               n == before.version + 1
    <3>1. c \in Configs /\ on \in BOOLEAN /\ n \in Nat /\ n = Counted(t) + 1 /\ (on => c = d.config)
      BY <1>5, <2>2, <2>3 DEF PackRecord
    <3>2. new = [config |-> c, active |-> on, version |-> n, from |-> q]
      BY DEF ChangedPack
    <3> HIDE DEF c, on, n, new
    <3>3. new \in PackRecord /\ new.config = c /\ new.active = on /\ new.version = n /\ new.from = q
      BY <1>3, <3>1, <3>2 DEF PackRecord, Numbers
    <3> QED BY <3>1, <3>3
  <2> HIDE DEF new, p, row
  <2>6. ~overtaken[k] /\ ~raced /\ new.active =>
          \A o \in PackRow \ {t} : OnSale(PacksSeenBy(k)[o]) => ~Clash(new, PacksSeenBy(k)[o])
    BY <1>7, <2>5 DEF Clash, t
  <2>7. review[k].d.target = t /\ review[k].q = q
    BY DEF t, q, d
  <2> QED BY <1>1, <2>1, <2>4, <2>5, <2>6, <2>7, StageInv
<1> QED BY <1>8, <1>9

\* Submitting, editing, rejecting and approving end in a COMMIT that writes no locked proposal.
LEMMA SubmitProposalInv ==
  ASSUME PackInv, NEW k \in Reviewers, SubmitProposal(k)
  PROVE  PackInv'
<1> DEFINE d == review[k].d
           row == ProposalRow(d, "PENDING", k)
           next == Append(proposals, row)
<1>1. /\ review[k] # NoReview /\ review[k].kind = "submit" /\ review[k].at = "save"
      /\ Len(proposals) < MaxProposals /\ Succeed(k, next, {})
  BY DEF SubmitProposal, At
<1>2. PackTypeOK /\ ReviewInv(k)
  BY DEF PackInv
<1>3. d \in ClaimRecord \cup ProposalRecord /\ TargetThere(d)
  BY <1>1, <1>2 DEF ReviewInv, ReviewShape, ClaimIsThere
<1> HIDE DEF d
<1>4. row \in ProposalRecord /\ row.target = d.target /\ row.version = d.version
  BY <1>3 DEF ProposalRow, ClaimRecord, ProposalRecord
<1>5. TargetThere(row)
  BY <1>3, <1>4 DEF TargetThere
<1> HIDE DEF row
<1>6. /\ next \in Seq(ProposalRecord) /\ Len(next) = Len(proposals) + 1
      /\ DOMAIN next = 1 .. (Len(proposals) + 1)
      /\ \A q \in DOMAIN next : next[q] = IF q = Len(proposals) + 1 THEN row ELSE proposals[q]
  BY <1>2, <1>4 DEF PackTypeOK
<1>7. DOMAIN proposals = 1 .. Len(proposals) /\ Len(proposals) \in Nat /\ MaxProposals \in Nat
  BY <1>2, PackAssumption DEF PackTypeOK
<1> HIDE DEF next
<1>8. Len(next) <= MaxProposals /\ DOMAIN proposals \subseteq DOMAIN next
  BY <1>1, <1>6, <1>7
<1>9. \A q \in DOMAIN proposals : next[q] = proposals[q]
  BY <1>6, <1>7
<1>10. \A q \in DOMAIN next : TargetThere(next[q])
  <2>1. \A q \in DOMAIN next : q = Len(proposals) + 1 \/ q \in DOMAIN proposals
    BY <1>6, <1>7
  <2> QED BY <1>5, <1>6, <2>1 DEF PackInv, TargetsAreThere
<1> QED BY <1>1, <1>6, <1>8, <1>9, <1>10, SucceedInv

\* A change of one proposal that no batch holds.
LEMMA ChangeProposalInv ==
  ASSUME PackInv, NEW k \in Reviewers, NEW q, NEW row \in ProposalRecord, NEW done,
         review[k] # NoReview, q \in DOMAIN proposals => TargetThere(row), ~ProposalBusy(k, q),
         Succeed(k, [proposals EXCEPT ![q] = row], done)
  PROVE  PackInv'
<1> DEFINE next == [proposals EXCEPT ![q] = row]
<1>1. proposals \in Seq(ProposalRecord) /\ Len(proposals) <= MaxProposals
  BY DEF PackInv, PackTypeOK
<1>2. /\ next \in Seq(ProposalRecord) /\ Len(next) = Len(proposals) /\ DOMAIN next = DOMAIN proposals
      /\ \A i \in DOMAIN proposals : next[i] = IF i = q THEN row ELSE proposals[i]
  <2>1. /\ DOMAIN proposals = 1 .. Len(proposals) /\ Len(proposals) \in Nat
        /\ proposals \in [1 .. Len(proposals) -> ProposalRecord]
    BY <1>1
  <2>2. /\ next \in [1 .. Len(proposals) -> ProposalRecord] /\ DOMAIN next = DOMAIN proposals
        /\ \A i \in DOMAIN proposals : next[i] = IF i = q THEN row ELSE proposals[i]
    BY <2>1
  <2> HIDE DEF next
  <2>3. next \in Seq(ProposalRecord) /\ Len(next) = Len(proposals)
    BY <2>1, <2>2
  <2> QED BY <2>2, <2>3
<1> HIDE DEF next
<1>3. \A i \in DOMAIN proposals :
        next[i] = proposals[i] \/ \A j \in Reviewers \ {k} : i \notin Locked(j)
  BY <1>2 DEF ProposalBusy
<1>4. \A i \in DOMAIN next : TargetThere(next[i])
  BY <1>2 DEF PackInv, TargetsAreThere
<1>5. Succeed(k, next, done)
  BY DEF next
<1> QED BY <1>1, <1>2, <1>3, <1>4, <1>5, SucceedInv

LEMMA WriteProposalInv ==
  ASSUME PackInv, NEW k \in Reviewers, UpdateProposal(k) \/ RejectProposal(k) \/ ApproveProposal(k)
  PROVE  PackInv'
<1> DEFINE q == review[k].q
           d == review[k].d
           old == proposals[q]
<1>1. /\ review[k] # NoReview /\ review[k].kind \in {"edit", "reject", "approve"} /\ review[k].at = "save"
      /\ ~ProposalBusy(k, q)
  BY DEF UpdateProposal, RejectProposal, ApproveProposal, At
<1>2. PackTypeOK /\ ReviewInv(k)
  BY DEF PackInv
<1>3. q \in DOMAIN proposals /\ d \in ClaimRecord \cup ProposalRecord /\ TargetThere(d)
  BY <1>1, <1>2 DEF ReviewInv, ReviewShape, ClaimIsThere
<1>4. old \in ProposalRecord /\ TargetThere(old)
  BY <1>2, <1>3, ProposalNumbers DEF PackInv, TargetsAreThere
<1>5. CASE UpdateProposal(k)
  <2> DEFINE row == ProposalRow(d, old.status, old.by)
  <2>1. Succeed(k, [proposals EXCEPT ![q] = row], {})
    BY <1>5 DEF UpdateProposal
  <2> HIDE DEF d, q, old
  <2>2. row \in ProposalRecord /\ row.target = d.target /\ row.version = d.version
    BY <1>3, <1>4 DEF ProposalRow, ClaimRecord, ProposalRecord
  <2>3. TargetThere(row)
    BY <1>3, <2>2 DEF TargetThere
  <2> HIDE DEF row
  <2> QED BY <1>1, <2>1, <2>2, <2>3, ChangeProposalInv
<1>6. CASE RejectProposal(k)
  <2> DEFINE row == [old EXCEPT !.status = "REJECTED"]
  <2>1. Succeed(k, [proposals EXCEPT ![q] = row], {})
    BY <1>6 DEF RejectProposal
  <2> HIDE DEF d, q, old
  <2>2. row \in ProposalRecord /\ row.target = old.target /\ row.version = old.version
    BY <1>4 DEF ProposalRecord
  <2>3. TargetThere(row)
    BY <1>4, <2>2 DEF TargetThere
  <2> HIDE DEF row
  <2> QED BY <1>1, <2>1, <2>2, <2>3, ChangeProposalInv
<1>7. CASE ApproveProposal(k)
  <2> DEFINE row == [old EXCEPT !.status = "APPROVED"]
  <2>1. Succeed(k, [proposals EXCEPT ![q] = row], {q})
    BY <1>7 DEF ApproveProposal
  <2> HIDE DEF d, q, old
  <2>2. row \in ProposalRecord /\ row.target = old.target /\ row.version = old.version
    BY <1>4 DEF ProposalRecord
  <2>3. TargetThere(row)
    BY <1>4, <2>2 DEF TargetThere
  <2> HIDE DEF row
  <2> QED BY <1>1, <2>1, <2>2, <2>3, ChangeProposalInv
<1> QED BY <1>5, <1>6, <1>7

LEMMA SendBatchInv ==
  ASSUME PackInv, NEW k \in Reviewers, SendBatch(k)
  PROVE  PackInv'
<1> DEFINE Approved(q) == [proposals[q] EXCEPT !.status = IF q \in Locked(k) THEN "APPROVED" ELSE @]
           next == [q \in DOMAIN proposals |-> Approved(q)]
<1>1. review[k] # NoReview /\ Succeed(k, next, Locked(k))
  BY DEF SendBatch, At
<1>2. PackTypeOK
  BY DEF PackInv
<1>3. ASSUME NEW q \in DOMAIN proposals
      PROVE  /\ Approved(q) \in ProposalRecord /\ TargetThere(Approved(q))
             /\ q \notin Locked(k) => Approved(q) = proposals[q]
  <2> DEFINE old == proposals[q]
             status == IF q \in Locked(k) THEN "APPROVED" ELSE old.status
             row == [old EXCEPT !.status = status]
  <2>1. old \in ProposalRecord /\ TargetThere(old)
    BY <1>2, ProposalNumbers DEF PackInv, TargetsAreThere
  <2>2. status \in {"PENDING", "APPROVED", "REJECTED"} /\ (q \notin Locked(k) => status = old.status)
    BY <2>1 DEF ProposalRecord
  <2>3. Approved(q) = row
    OBVIOUS
  <2> HIDE DEF Approved, old, status
  <2>4. /\ row \in ProposalRecord /\ row.target = old.target /\ row.version = old.version
        /\ status = old.status => row = old
    BY <2>1, <2>2 DEF ProposalRecord
  <2> HIDE DEF row
  <2>5. TargetThere(row)
    BY <2>1, <2>4 DEF TargetThere
  <2> QED BY <2>2, <2>3, <2>4, <2>5 DEF old
<1> HIDE DEF Approved
<1>4. /\ next \in Seq(ProposalRecord) /\ Len(next) = Len(proposals) /\ DOMAIN next = DOMAIN proposals
      /\ Len(proposals) <= MaxProposals
  <2>1. DOMAIN proposals = 1 .. Len(proposals) /\ Len(proposals) \in Nat /\ Len(proposals) <= MaxProposals
    BY <1>2 DEF PackTypeOK
  <2>2. next \in [1 .. Len(proposals) -> ProposalRecord]
    BY <1>3, <2>1
  <2> HIDE DEF next
  <2> QED BY <2>1, <2>2
<1>5. \A q \in DOMAIN proposals : next[q] = Approved(q)
  OBVIOUS
<1> HIDE DEF next
<1>6. \A q \in DOMAIN proposals :
        next[q] = proposals[q] \/ \A j \in Reviewers \ {k} : q \notin Locked(j)
  BY <1>3, <1>5 DEF PackInv, HeldOnce
<1>7. \A q \in DOMAIN next : TargetThere(next[q])
  BY <1>3, <1>4, <1>5
<1> QED BY <1>1, <1>4, <1>6, <1>7, SucceedInv

LEMMA PackNextInv == PackInv /\ [PackNext]_packVars => PackInv'
<1> SUFFICES ASSUME PackInv, [PackNext]_packVars PROVE PackInv'
  OBVIOUS
<1>1. CASE UNCHANGED packVars
  <2>1. UNCHANGED <<packs, proposals, review, staged, writes, applied, overtaken, raced>>
    BY <1>1 DEF packVars, packRows, packGhosts
  <2>2. PackTypeOK' /\ HeldOnce' /\ VersionsAreCounts' /\ TargetsAreThere'
    BY <2>1 DEF PackInv, PackTypeOK, HeldOnce, Locked, VersionsAreCounts, Counted, TargetsAreThere, TargetThere
  <2>3. ~raced' => Apart(packs)'
    BY <2>1 DEF PackInv, Apart, OnSale, Clash
  <2>4. ASSUME NEW k \in Reviewers PROVE ReviewInv(k)'
    <3>1. ReviewInv(k) /\ PacksSeenBy(k)' = PacksSeenBy(k) /\ Locked(k)' = Locked(k)
      BY <2>1 DEF PackInv, PacksSeenBy, Locked
    <3>2. ReviewShape(k)' /\ BatchIsLocked(k)' /\ StillPending(k)' /\ ClaimIsThere(k)'
      BY <2>1, <3>1 DEF ReviewInv, ReviewShape, BatchIsLocked, StillPending, ClaimIsThere, TargetThere
    <3>3. StagedIsNext(k)' /\ NothingStagedYet(k)' /\ TargetIsFresh(k)'
      BY <2>1, <3>1 DEF ReviewInv, StagedIsNext, Counted, NothingStagedYet, TargetIsFresh
    <3>4. SeenApart(k)' /\ ClaimFits(k)'
      BY <2>1, <3>1 DEF ReviewInv, SeenApart, ClaimFits, Apart, OnSale, Clash
    <3>5. ClaimIsCurrent(k)' /\ StagedIsCurrent(k)'
      BY <2>1, <3>1 DEF ReviewInv, ClaimIsCurrent, IsCurrent, StagedIsCurrent
    <3> QED BY <3>2, <3>3, <3>4, <3>5 DEF ReviewInv
  <2> QED BY <2>2, <2>3, <2>4 DEF PackInv
<1>2. CASE PackNext
  <2>1. PICK k \in Reviewers : Review(k)
    BY <1>2 DEF PackNext
  <2> QED
    BY <2>1, AskReviewInv, SubmitProposalInv, WriteProposalInv, WritePackInv, LockPendingInv, CheckNextInv,
       NextInBatchInv, SendBatchInv, FailReviewInv DEF Review
<1> QED BY <1>1, <1>2

\* What was pending when a request read it, and has not been decided since, is what it decides.
LEMMA DecisionStep ==
  ASSUME PackInv, [PackNext]_packVars
  PROVE  /\ \A k \in Reviewers : SendBatch(k) => \A q \in Locked(k) : proposals[q] = review[k].batch[q]
         /\ \A q \in DOMAIN proposals : proposals[q].status # "PENDING" =>
              raced' \/ (proposals'[q] = proposals[q] /\ applied'[q] = applied[q])
<1>1. ASSUME NEW k \in Reviewers, SendBatch(k)
      PROVE  \A q \in Locked(k) : proposals[q] = review[k].batch[q]
  BY <1>1 DEF PackInv, ReviewInv, BatchIsLocked
<1>2. ASSUME NEW q \in DOMAIN proposals, proposals[q].status # "PENDING", ~raced'
      PROVE  proposals'[q] = proposals[q] /\ applied'[q] = applied[q]
  <2>0. PackTypeOK /\ q \in Numbers
    BY <1>2, ProposalNumbers DEF PackInv
  <2>1. CASE UNCHANGED <<proposals, applied>>
    BY <2>1
  <2>2. ASSUME NEW k \in Reviewers, NEW next, NEW done, Succeed(k, next, done), review[k] # NoReview,
               next[q] = proposals[q], q \notin done
        PROVE  proposals'[q] = proposals[q] /\ applied'[q] = applied[q]
    BY <2>0, <2>2 DEF Succeed, PackTypeOK
  <2>3. ASSUME NEW k \in Reviewers, review[k] # NoReview, review[k].kind \in {"edit", "reject", "approve"},
               ~overtaken[k]
        PROVE  q # review[k].q
    BY <1>2, <2>3 DEF PackInv, ReviewInv, StillPending
  <2>4. ASSUME NEW k \in Reviewers, Review(k)
        PROVE  proposals'[q] = proposals[q] /\ applied'[q] = applied[q]
    <3>1. CASE AskSubmit(k) \/ AskEdit(k) \/ AskReject(k) \/ AskApprove(k) \/ CountPending(k)
      BY <2>1, <3>1 DEF AskSubmit, AskEdit, AskReject, AskApprove, CountPending, Begin, packRows, packGhosts
    <3>2. CASE LockPending(k) \/ CheckNext(k) \/ NextInBatch(k) \/ WritePack(k) \/ FailReview(k)
      BY <2>1, <3>2 DEF LockPending, CheckNext, NextInBatch, WritePack, FailReview, Continue, packRows, packGhosts
    <3>3. CASE SubmitProposal(k)
      <4> DEFINE row == ProposalRow(review[k].d, "PENDING", k)
                 next == Append(proposals, row)
      <4>1. review[k] # NoReview /\ Succeed(k, next, {})
        BY <3>3 DEF SubmitProposal, At
      <4> HIDE DEF row
      <4>2. next[q] = proposals[q]
        BY <2>0 DEF PackTypeOK
      <4> HIDE DEF next
      <4> QED BY <2>2, <4>1, <4>2
    <3>4. CASE UpdateProposal(k) \/ RejectProposal(k) \/ ApproveProposal(k)
      <4>1. review[k] # NoReview /\ review[k].kind \in {"edit", "reject", "approve"}
        BY <3>4 DEF UpdateProposal, RejectProposal, ApproveProposal, At
      <4>2. ASSUME NEW row, NEW done \in SUBSET {review[k].q},
                   Succeed(k, [proposals EXCEPT ![review[k].q] = row], done)
            PROVE  proposals'[q] = proposals[q] /\ applied'[q] = applied[q]
        <5>1. ~overtaken[k]
          BY <1>2, <4>2 DEF Succeed
        <5>2. q # review[k].q
          BY <2>3, <4>1, <5>1
        <5> DEFINE next == [proposals EXCEPT ![review[k].q] = row]
        <5>3. next[q] = proposals[q] /\ q \notin done
          BY <5>2
        <5>4. Succeed(k, next, done)
          BY <4>2
        <5> HIDE DEF next
        <5> QED BY <2>2, <4>1, <5>3, <5>4
      <4>3. CASE UpdateProposal(k)
        <5> DEFINE row == ProposalRow(review[k].d, proposals[review[k].q].status, proposals[review[k].q].by)
        <5>1. Succeed(k, [proposals EXCEPT ![review[k].q] = row], {})
          BY <4>3 DEF UpdateProposal
        <5> HIDE DEF row
        <5> QED BY <4>2, <5>1
      <4>4. CASE RejectProposal(k)
        <5> DEFINE row == [proposals[review[k].q] EXCEPT !.status = "REJECTED"]
        <5>1. Succeed(k, [proposals EXCEPT ![review[k].q] = row], {})
          BY <4>4 DEF RejectProposal
        <5> HIDE DEF row
        <5> QED BY <4>2, <5>1
      <4>5. CASE ApproveProposal(k)
        <5> DEFINE row == [proposals[review[k].q] EXCEPT !.status = "APPROVED"]
        <5>1. Succeed(k, [proposals EXCEPT ![review[k].q] = row], {review[k].q})
          BY <4>5 DEF ApproveProposal
        <5> HIDE DEF row
        <5> QED BY <4>2, <5>1
      <4> QED BY <3>4, <4>3, <4>4, <4>5
    <3>5. CASE SendBatch(k)
      <4> DEFINE next == [i \in DOMAIN proposals |->
                            [proposals[i] EXCEPT !.status = IF i \in Locked(k) THEN "APPROVED" ELSE @]]
      <4>1. review[k] # NoReview /\ Succeed(k, next, Locked(k))
        BY <3>5 DEF SendBatch, At
      <4>2. q \notin Locked(k)
        BY <1>2 DEF PackInv, ReviewInv, BatchIsLocked
      <4>3. next[q] = proposals[q]
        <5>1. next[q] = [proposals[q] EXCEPT !.status = proposals[q].status]
          BY <4>2
        <5>2. proposals[q] \in ProposalRecord
          BY <2>0, ProposalNumbers
        <5> QED BY <5>1, <5>2 DEF ProposalRecord
      <4> HIDE DEF next
      <4> QED BY <2>2, <4>1, <4>2, <4>3
    <3> QED BY <2>4, <3>1, <3>2, <3>3, <3>4, <3>5 DEF Review
  <2>5. CASE UNCHANGED packVars
    BY <2>1, <2>5 DEF packVars, packRows, packGhosts
  <2> QED BY <2>4, <2>5 DEF PackNext
<1> QED BY <1>1, <1>2

-----------------------------------------------------------------------------
(* Packs: theorems *)

\* Whoever submits, edits and reviews, and however their transactions overlap: no two
\* hold a row, no claim is for a version of the future, and a version counts its writes
\* (multi-pack.service.ts:470-560, 757-865).
THEOREM PacksInvariant == PackSpec => []PackInv
<1>1. PackInit => PackInv
  BY PackInitInv
<1>2. PackInv /\ [PackNext]_packVars => PackInv'
  BY PackNextInv
<1> QED BY <1>1, <1>2, PTL DEF PackSpec

\* The version of a pack counts its committed writes, however the requests overlap, and a
\* pack is changed by a proposal made for the version it has, unless somebody else
\* succeeds between the comparison and the UPDATE (multi-pack.service.ts:722-730, 793-851).
THEOREM PackVersionsGuard == PackSpec => []VersionsGuardPacks
<1>1. PackInv => VersionsCountWrites
  BY DEF PackInv, VersionsAreCounts, VersionsCountWrites, Counted
<1>2. PackInv => AppliedAsProposed
  BY DEF PackInv, ReviewInv, StagedIsCurrent, AppliedAsProposed
<1>3. PackInv => VersionsGuardPacks
  BY <1>1, <1>2 DEF VersionsGuardPacks
<1> QED BY <1>3, PacksInvariant, PTL

\* Unless requests overlapped, no two packs on sale share a configuration or a barcode.
THEOREM PacksOnSaleDiffer == PackSpec => []ActivePacksDiffer
<1>1. PackInv => ActivePacksDiffer
  BY DEF PackInv, PackTypeOK, Apart, OnSale, ActivePacksDiffer, ActiveRows
<1> QED BY <1>1, PacksInvariant, PTL

\* A batch approves what it read, and a decision stands unless requests overlapped.
THEOREM DecisionsStand == PackSpec => DecisionsHold
<1>1. PackInv /\ [PackNext]_packVars =>
        [/\ \A k \in Reviewers : SendBatch(k) =>
              \A q \in Locked(k) : proposals[q] = review[k].batch[q]
         /\ \A q \in DOMAIN proposals : proposals[q].status # "PENDING" =>
              raced' \/ (proposals'[q] = proposals[q] /\ applied'[q] = applied[q])]_packVars
  BY DecisionStep
<1> QED BY <1>1, PacksInvariant, PTL DEF PackSpec, DecisionsHold

-----------------------------------------------------------------------------
(* Catalogue: types and the inductive invariant *)

RowsOf(x) ==
  IF x \in CatalogueItems THEN ItemRow
  ELSE IF x \in Departments THEN DepartmentRow
  ELSE IF x \in Categories THEN CategoryRow ELSE TaxRow

\* A request writes a row of the table, and deletes a row that is there by making it inactive.
CheckOK(c) ==
  /\ c \in CheckRecord
  /\ c.new => c.fields \in RowsOf(c.row)
  /\ ~c.new => \A r \in RowsOf(c.row) : Updated(r, c.fields) \in RowsOf(c.row)
  /\ c.deletes => ~c.new /\ \A r \in RowsOf(c.row) : ~Updated(r, c.fields).active

CatalogueTypeOK ==
  /\ rows \in [RowIds -> ItemRow \cup DepartmentRow \cup CategoryRow \cup TaxRow \cup {NoRow}]
  /\ \A x \in RowIds : There(x) => rows[x] \in RowsOf(x)
  /\ check \in [Keepers -> CheckRecord \cup {NoCheck}]
  /\ \A k \in Keepers : check[k] # NoCheck => CheckOK(check[k])
  /\ deleted \subseteq RowIds
  /\ passed \in [Keepers -> BOOLEAN]
  /\ entangled \in BOOLEAN

DeletedAreInactive == \A x \in deleted : There(x) /\ ~rows[x].active

\* The product fits the rows it refers to.
ItemFits(r, given, gone) ==
  /\ r.category # NoCategory => given[r.category] # NoRow /\ given[r.category].department = r.department
  /\ r.active => gone \cap {r.department, r.category, r.tax} = {}

AllFit(given, gone) == \A i \in CatalogueItems : given[i] # NoRow => ItemFits(given[i], given, gone)

\* What a request that has checked will leave.
Written(c) == IF c.new THEN c.fields ELSE Updated(rows[c.row], c.fields)
RowsAfter(c) == [rows EXCEPT ![c.row] = Written(c)]
GoneAfter(c) ==
  IF c.deletes THEN deleted \cup {c.row} ELSE IF Written(c).active THEN deleted \ {c.row} ELSE deleted

\* Unless another one succeeded in between, it leaves products that fit.
CheckFits(k) ==
  check[k] # NoCheck /\ ~passed[k] /\ ~entangled => AllFit(RowsAfter(check[k]), GoneAfter(check[k]))

CatalogueInv ==
  /\ CatalogueTypeOK /\ DeletedAreInactive
  /\ ~entangled => AllFit(rows, deleted)
  /\ \A k \in Keepers : CheckFits(k)

-----------------------------------------------------------------------------
(* Catalogue: lemmas *)

\* Tables do not meet.
LEMMA TablesApart ==
  /\ \A x \in CatalogueItems : RowsOf(x) = ItemRow
  /\ \A x \in Departments : x \notin CatalogueItems /\ RowsOf(x) = DepartmentRow
  /\ \A x \in Categories : x \notin CatalogueItems /\ x \notin Departments /\ RowsOf(x) = CategoryRow
  /\ \A x \in Taxes : /\ x \notin CatalogueItems /\ x \notin Departments /\ x \notin Categories
                      /\ RowsOf(x) = TaxRow
  /\ NoCategory \notin RowIds
  /\ \A x \in RowIds : \A r \in RowsOf(x) : r # NoRow /\ r.active \in BOOLEAN
  BY CatalogueAssumption DEF RowsOf, RowIds, ItemRow, DepartmentRow, CategoryRow, TaxRow

\* A product whose fields are updated is a product, with the fields that were sent.
LEMMA UpdatedItem ==
  ASSUME NEW r \in ItemRow, NEW fields,
         "active" \in DOMAIN fields => fields.active \in BOOLEAN,
         "department" \in DOMAIN fields => fields.department \in Departments,
         "category" \in DOMAIN fields => fields.category \in Categories \cup {NoCategory},
         "tax" \in DOMAIN fields => fields.tax \in Taxes
  PROVE  LET w == Updated(r, fields) IN
         /\ w \in ItemRow
         /\ w.active = IF "active" \in DOMAIN fields THEN fields.active ELSE r.active
         /\ w.department = IF "department" \in DOMAIN fields THEN fields.department ELSE r.department
         /\ w.category = IF "category" \in DOMAIN fields THEN fields.category ELSE r.category
         /\ w.tax = IF "tax" \in DOMAIN fields THEN fields.tax ELSE r.tax
<1> DEFINE w == Updated(r, fields)
<1>1. DOMAIN r = {"active", "department", "category", "tax"}
  BY DEF ItemRow
<1>2. /\ w.active = IF "active" \in DOMAIN fields THEN fields.active ELSE r.active
      /\ w.department = IF "department" \in DOMAIN fields THEN fields.department ELSE r.department
      /\ w.category = IF "category" \in DOMAIN fields THEN fields.category ELSE r.category
      /\ w.tax = IF "tax" \in DOMAIN fields THEN fields.tax ELSE r.tax
  BY <1>1 DEF Updated
<1>3. w = [active |-> w.active, department |-> w.department, category |-> w.category, tax |-> w.tax]
  BY <1>1 DEF Updated
<1>4. /\ r.active \in BOOLEAN /\ r.department \in Departments
      /\ r.category \in Categories \cup {NoCategory} /\ r.tax \in Taxes
  BY DEF ItemRow
<1> HIDE DEF w
<1>5. w \in ItemRow
  BY <1>2, <1>3, <1>4 DEF ItemRow
<1> QED BY <1>2, <1>5 DEF w

\* And so is a department,
LEMMA UpdatedDepartment ==
  ASSUME NEW r \in DepartmentRow, NEW fields,
         "active" \in DOMAIN fields => fields.active \in BOOLEAN,
         "tax" \in DOMAIN fields => fields.tax \in Taxes
  PROVE  LET w == Updated(r, fields) IN
         /\ w \in DepartmentRow
         /\ w.active = IF "active" \in DOMAIN fields THEN fields.active ELSE r.active
<1> DEFINE w == Updated(r, fields)
<1>1. DOMAIN r = {"active", "tax"} /\ r.active \in BOOLEAN /\ r.tax \in Taxes
  BY DEF DepartmentRow
<1>2. /\ w.active = IF "active" \in DOMAIN fields THEN fields.active ELSE r.active
      /\ w.tax = IF "tax" \in DOMAIN fields THEN fields.tax ELSE r.tax
      /\ w = [active |-> w.active, tax |-> w.tax]
  BY <1>1 DEF Updated
<1> HIDE DEF w
<1>3. w \in DepartmentRow
  BY <1>1, <1>2 DEF DepartmentRow
<1> QED BY <1>2, <1>3 DEF w

\* a category
LEMMA UpdatedCategory ==
  ASSUME NEW r \in CategoryRow, NEW fields,
         "active" \in DOMAIN fields => fields.active \in BOOLEAN,
         "department" \in DOMAIN fields => fields.department \in Departments
  PROVE  LET w == Updated(r, fields) IN
         /\ w \in CategoryRow
         /\ w.active = IF "active" \in DOMAIN fields THEN fields.active ELSE r.active
         /\ w.department = IF "department" \in DOMAIN fields THEN fields.department ELSE r.department
<1> DEFINE w == Updated(r, fields)
<1>1. DOMAIN r = {"active", "department"} /\ r.active \in BOOLEAN /\ r.department \in Departments
  BY DEF CategoryRow
<1>2. /\ w.active = IF "active" \in DOMAIN fields THEN fields.active ELSE r.active
      /\ w.department = IF "department" \in DOMAIN fields THEN fields.department ELSE r.department
      /\ w = [active |-> w.active, department |-> w.department]
  BY <1>1 DEF Updated
<1> HIDE DEF w
<1>3. w \in CategoryRow
  BY <1>1, <1>2 DEF CategoryRow
<1> QED BY <1>2, <1>3 DEF w

\* and a tax.
LEMMA UpdatedTax ==
  ASSUME NEW r \in TaxRow, NEW on \in BOOLEAN
  PROVE  LET w == Updated(r, [active |-> on]) IN w \in TaxRow /\ w.active = on
<1> DEFINE w == Updated(r, [active |-> on])
<1>1. DOMAIN r = {"active"}
  BY DEF TaxRow
<1>2. w.active = on /\ w = [active |-> w.active]
  BY <1>1 DEF Updated
<1> HIDE DEF w
<1>3. w \in TaxRow
  BY <1>2 DEF TaxRow
<1> QED BY <1>2, <1>3 DEF w

\* What is written is a row of the table.
LEMMA WrittenRow ==
  ASSUME CatalogueTypeOK, NEW c, CheckOK(c), c.new = ~There(c.row)
  PROVE  Written(c) \in RowsOf(c.row) /\ Written(c) # NoRow /\ c.row \in RowIds
<1>1. c.row \in RowIds
  BY DEF CheckOK, CheckRecord
<1>2. Written(c) \in RowsOf(c.row)
  BY <1>1 DEF CheckOK, Written, CatalogueTypeOK
<1> QED BY <1>1, <1>2, TablesApart

\* A product that fits what there is leaves products that fit.
LEMMA ItemWriteFits ==
  ASSUME CatalogueInv, ~entangled, NEW c, CheckOK(c), c.new = ~There(c.row),
         c.row \in CatalogueItems, ~c.deletes, ItemFits(Written(c), rows, deleted)
  PROVE  AllFit(RowsAfter(c), GoneAfter(c))
<1> DEFINE w == Written(c)
<1>1. CatalogueTypeOK /\ AllFit(rows, deleted)
  BY DEF CatalogueInv
<1>2. w \in ItemRow /\ GoneAfter(c) \subseteq deleted
  BY <1>1, WrittenRow, TablesApart DEF GoneAfter
<1>3. \A x \in RowIds : RowsAfter(c)[x] = IF x = c.row THEN w ELSE rows[x]
  BY <1>1 DEF RowsAfter, CatalogueTypeOK
<1>4. ASSUME NEW i \in CatalogueItems, RowsAfter(c)[i] # NoRow
      PROVE  /\ RowsAfter(c)[i] \in ItemRow
             /\ ItemFits(RowsAfter(c)[i], rows, deleted)
  <2>1. CASE i = c.row
    BY <1>2, <1>3, <2>1 DEF RowIds
  <2>2. CASE i # c.row
    BY <1>1, <1>3, <1>4, <2>2, TablesApart DEF RowIds, AllFit, CatalogueTypeOK, There
  <2> QED BY <2>1, <2>2
<1>5. \A o \in Categories : RowsAfter(c)[o] = rows[o]
  BY <1>3, TablesApart DEF RowIds
<1> HIDE DEF w
<1>6. \A r \in ItemRow : r.category \in Categories \cup {NoCategory}
  BY DEF ItemRow
<1> QED BY <1>2, <1>4, <1>5, <1>6 DEF AllFit, ItemFits

\* A department, category or tax: nothing in use refers to what is deleted, and a category
\* has the department of its products.
LEMMA SetupWriteFits ==
  ASSUME CatalogueInv, ~entangled, NEW c, CheckOK(c), c.new = ~There(c.row),
         c.row \notin CatalogueItems, c.deletes => UsedBy(c.row) = {},
         c.row \in Categories /\ There(c.row) =>
           \A i \in CatalogueItems : There(i) /\ rows[i].category = c.row => Written(c).department = rows[i].department
  PROVE  AllFit(RowsAfter(c), GoneAfter(c))
<1> DEFINE w == Written(c)
<1>1. CatalogueTypeOK /\ AllFit(rows, deleted)
  BY DEF CatalogueInv
<1>2. w # NoRow /\ c.row \in RowIds
  BY <1>1, WrittenRow
<1>3. \A x \in RowIds : RowsAfter(c)[x] = IF x = c.row THEN w ELSE rows[x]
  BY <1>1 DEF RowsAfter, CatalogueTypeOK
<1> SUFFICES ASSUME NEW i \in CatalogueItems, rows[i] # NoRow
             PROVE  ItemFits(rows[i], RowsAfter(c), GoneAfter(c))
  BY <1>3 DEF AllFit, RowIds
<1>4. rows[i] \in ItemRow /\ ItemFits(rows[i], rows, deleted) /\ There(i)
  BY <1>1, TablesApart DEF RowIds, AllFit, CatalogueTypeOK, There
<1>5. rows[i].category \in Categories \cup {NoCategory}
  BY <1>4 DEF ItemRow
<1>6. ASSUME rows[i].category # NoCategory
      PROVE  /\ RowsAfter(c)[rows[i].category] # NoRow
             /\ RowsAfter(c)[rows[i].category].department = rows[i].department
  <2>1. rows[i].category \in Categories /\ rows[i].category \in RowIds
    BY <1>5, <1>6 DEF RowIds
  <2>2. There(rows[i].category) /\ rows[rows[i].category].department = rows[i].department
    BY <1>4, <1>6 DEF ItemFits, There
  <2>3. CASE rows[i].category = c.row
    BY <1>2, <1>3, <1>4, <2>1, <2>2, <2>3
  <2>4. CASE rows[i].category # c.row
    BY <1>3, <2>1, <2>2, <2>4 DEF There
  <2> QED BY <2>3, <2>4
<1>7. ASSUME rows[i].active
      PROVE  GoneAfter(c) \cap {rows[i].department, rows[i].category, rows[i].tax} = {}
  <2>1. deleted \cap {rows[i].department, rows[i].category, rows[i].tax} = {}
    BY <1>4, <1>7 DEF ItemFits
  <2>2. c.deletes => c.row \notin {rows[i].department, rows[i].category, rows[i].tax}
    BY <1>4, <1>7 DEF UsedBy, Active
  <2> QED BY <2>1, <2>2 DEF GoneAfter
<1> QED BY <1>6, <1>7 DEF ItemFits

\* A request that has checked what it needs.
LEMMA CheckedInv ==
  ASSUME CatalogueInv, NEW k \in Keepers, NEW x, NEW fields, NEW deletes,
         Checked(k, x, fields, deletes), NEW c,
         c = [row |-> x, fields |-> fields, new |-> ~There(x), deletes |-> deletes],
         CheckOK(c), ~entangled => AllFit(RowsAfter(c), GoneAfter(c))
  PROVE  CatalogueInv'
<1>1. check' = [check EXCEPT ![k] = c] /\ UNCHANGED <<rows, deleted, passed, entangled>>
  BY DEF Checked
<1>0. rows' = rows /\ deleted' = deleted
  BY <1>1
<1>2. CatalogueTypeOK /\ c \in CheckRecord
  BY DEF CatalogueInv, CheckOK
<1>3. check'[k] = c /\ \A j \in Keepers \ {k} : check'[j] = check[j]
  BY <1>1, <1>2 DEF CatalogueTypeOK
<1>4. CatalogueTypeOK'
  BY <1>1, <1>2, <1>3 DEF CatalogueTypeOK, CheckOK, There
<1>5. DeletedAreInactive' /\ (~entangled' => AllFit(rows, deleted)')
  BY <1>1 DEF CatalogueInv, DeletedAreInactive, There, AllFit, ItemFits
<1>6. ASSUME NEW j \in Keepers PROVE CheckFits(j)'
  <2> SUFFICES ASSUME check'[j] # NoCheck, ~passed[j], ~entangled
               PROVE  AllFit(RowsAfter(check[j])', GoneAfter(check[j])')
    BY <1>1 DEF CheckFits, AllFit, ItemFits
  <2>1. CASE j = k
    <3>1. check'[j] = c
      BY <1>3, <2>1
    <3>2. RowsAfter(check[j])' = RowsAfter(c) /\ GoneAfter(check[j])' = GoneAfter(c)
      <4>1. Written(check[j])' = Written(check'[j])
        BY <1>0 DEF Written
      <4> QED BY <1>0, <3>1, <4>1 DEF RowsAfter, GoneAfter
    <3> QED BY <3>2
  <2>2. CASE j # k
    <3>1. check'[j] = check[j]
      BY <1>3, <2>2
    <3>2. RowsAfter(check[j])' = RowsAfter(check[j]) /\ GoneAfter(check[j])' = GoneAfter(check[j])
      <4>1. Written(check[j])' = Written(check'[j])
        BY <1>0 DEF Written
      <4> QED BY <1>0, <3>1, <4>1 DEF RowsAfter, GoneAfter
    <3> QED BY <3>1, <3>2 DEF CatalogueInv, CheckFits
  <2> QED BY <2>1, <2>2
<1> QED BY <1>4, <1>5, <1>6 DEF CatalogueInv

\* The write: whoever has checked and not written yet was passed.
LEMMA SaveRowInv ==
  ASSUME CatalogueInv, NEW k \in Keepers, Save(k)
  PROVE  CatalogueInv'
<1> DEFINE c == check[k]
<1>1. CatalogueTypeOK /\ c # NoCheck /\ c.new = ~There(c.row)
  BY DEF Save, CatalogueInv
<1>2. CheckOK(c) /\ c.row \in RowIds /\ Written(c) \in RowsOf(c.row)
  BY <1>1, WrittenRow DEF CatalogueTypeOK
<1>3. rows' = RowsAfter(c) /\ rows'[c.row] = Written(c)
  BY <1>1, <1>2 DEF Save, RowsAfter, Written, CatalogueTypeOK
<1>4. deleted' = GoneAfter(c)
  BY <1>3 DEF Save, GoneAfter
<1>5. /\ check' = [check EXCEPT ![k] = NoCheck]
      /\ passed' = [o \in Keepers |-> IF o = k THEN FALSE ELSE passed[o] \/ check[o] # NoCheck]
      /\ entangled' = (entangled \/ passed[k])
  BY DEF Save
<1>6. /\ check'[k] = NoCheck
      /\ \A j \in Keepers \ {k} : check'[j] = check[j] /\ (check[j] # NoCheck => passed'[j])
  BY <1>1, <1>5 DEF CatalogueTypeOK
<1>7. \A x \in RowIds : rows'[x] = IF x = c.row THEN Written(c) ELSE rows[x]
  BY <1>1, <1>3 DEF RowsAfter, CatalogueTypeOK
<1>8. CatalogueTypeOK'
  <2>1. Written(c) \in ItemRow \cup DepartmentRow \cup CategoryRow \cup TaxRow \cup {NoRow}
    BY <1>2 DEF RowsOf
  <2>2. rows' \in [RowIds -> ItemRow \cup DepartmentRow \cup CategoryRow \cup TaxRow \cup {NoRow}]
    BY <1>1, <1>3, <2>1 DEF RowsAfter, CatalogueTypeOK
  <2>3. \A x \in RowIds : rows'[x] # NoRow => rows'[x] \in RowsOf(x)
    BY <1>1, <1>2, <1>7 DEF CatalogueTypeOK, There
  <2>4. deleted' \subseteq RowIds
    BY <1>1, <1>2, <1>4 DEF GoneAfter, CatalogueTypeOK
  <2>5. check' \in [Keepers -> CheckRecord \cup {NoCheck}] /\ passed' \in [Keepers -> BOOLEAN]
    BY <1>1, <1>5 DEF CatalogueTypeOK
  <2>6. \A j \in Keepers : check'[j] # NoCheck => CheckOK(check'[j])
    BY <1>1, <1>6 DEF CatalogueTypeOK
  <2>7. entangled' \in BOOLEAN
    BY <1>1, <1>5 DEF CatalogueTypeOK
  <2> QED BY <2>2, <2>3, <2>4, <2>5, <2>6, <2>7 DEF CatalogueTypeOK, There, CheckOK
<1>9. DeletedAreInactive'
  <2> SUFFICES ASSUME NEW x \in deleted' PROVE rows'[x] # NoRow /\ ~rows'[x].active
    BY DEF DeletedAreInactive, There
  <2>1. CASE x = c.row
    <3>1. Written(c) # NoRow /\ Written(c).active \in BOOLEAN
      BY <1>2, TablesApart
    <3>2. ~Written(c).active
      <4>1. CASE c.deletes
        <5>1. ~c.new /\ rows[c.row] \in RowsOf(c.row)
          BY <1>1, <1>2, <4>1 DEF CheckOK, CatalogueTypeOK
        <5> QED BY <1>2, <4>1, <5>1 DEF CheckOK, Written
      <4>2. CASE ~c.deletes
        BY <1>4, <2>1, <4>2 DEF GoneAfter
      <4> QED BY <4>1, <4>2
    <3> QED BY <1>3, <2>1, <3>1, <3>2
  <2>2. CASE x # c.row
    <3>1. x \in deleted /\ x \in RowIds
      BY <1>1, <1>4, <2>2 DEF GoneAfter, CatalogueTypeOK
    <3> QED BY <1>7, <2>2, <3>1 DEF CatalogueInv, DeletedAreInactive, There
  <2> QED BY <2>1, <2>2
<1>10. ~entangled' => AllFit(rows, deleted)'
  <2>1. ~entangled' => AllFit(RowsAfter(c), GoneAfter(c))
    BY <1>1, <1>5 DEF CatalogueInv, CheckFits, CatalogueTypeOK
  <2> QED BY <1>3, <1>4, <2>1 DEF AllFit, ItemFits
<1>11. ASSUME NEW j \in Keepers PROVE CheckFits(j)'
  BY <1>6 DEF CheckFits
<1> QED BY <1>8, <1>9, <1>10, <1>11 DEF CatalogueInv

\* A request that gives up.
LEMMA DropCheckInv ==
  ASSUME CatalogueInv, NEW k \in Keepers, DropCheck(k)
  PROVE  CatalogueInv'
<1>1. /\ check' = [check EXCEPT ![k] = NoCheck] /\ passed' = [passed EXCEPT ![k] = FALSE]
      /\ UNCHANGED <<rows, deleted, entangled>>
  BY DEF DropCheck
<1>2. CatalogueTypeOK
  BY DEF CatalogueInv
<1>3. /\ check'[k] = NoCheck
      /\ \A j \in Keepers \ {k} : check'[j] = check[j] /\ passed'[j] = passed[j]
  BY <1>1, <1>2 DEF CatalogueTypeOK
<1>4. CatalogueTypeOK'
  BY <1>1, <1>2, <1>3 DEF CatalogueTypeOK, CheckOK, There
<1>5. DeletedAreInactive' /\ (~entangled' => AllFit(rows, deleted)')
  BY <1>1 DEF CatalogueInv, DeletedAreInactive, There, AllFit, ItemFits
<1>6. ASSUME NEW j \in Keepers PROVE CheckFits(j)'
  <2> SUFFICES ASSUME check'[j] # NoCheck, ~passed'[j], ~entangled
               PROVE  AllFit(RowsAfter(check[j])', GoneAfter(check[j])')
    BY <1>1 DEF CheckFits, AllFit, ItemFits
  <2>1. j # k /\ check'[j] = check[j] /\ passed'[j] = passed[j]
    BY <1>3
  <2>2. RowsAfter(check[j])' = RowsAfter(check[j]) /\ GoneAfter(check[j])' = GoneAfter(check[j])
    BY <1>1, <2>1 DEF RowsAfter, GoneAfter, Written
  <2> QED BY <2>1, <2>2 DEF CatalogueInv, CheckFits
<1> QED BY <1>4, <1>5, <1>6 DEF CatalogueInv

\* Some fields, as a request sends them.
LEMMA SomeChanges ==
  ASSUME NEW f, f = [field \in DOMAIN f |-> f[field]],
         DOMAIN f \subseteq {"active", "department", "category", "tax"},
         \A field \in DOMAIN f : f[field] \in BOOLEAN \cup RowIds \cup {NoCategory}
  PROVE  f \in Changes
<1>1. f \in [DOMAIN f -> BOOLEAN \cup RowIds \cup {NoCategory}]
  OBVIOUS
<1> QED BY <1>1 DEF Changes

\* What is in use was not deleted.
LEMMA ActiveStays ==
  ASSUME CatalogueInv, NEW x, Active(x)
  PROVE  x \notin deleted
  BY DEF CatalogueInv, DeletedAreInactive, Active

\* Any field that a request sends must be of its kind.
LEMMA ItemFieldsOK ==
  ASSUME NEW f, f = [field \in DOMAIN f |-> f[field]],
         DOMAIN f \subseteq {"active", "department", "category", "tax"},
         "active" \in DOMAIN f => f.active \in BOOLEAN,
         "department" \in DOMAIN f => f.department \in Departments,
         "category" \in DOMAIN f => f.category \in Categories \cup {NoCategory},
         "tax" \in DOMAIN f => f.tax \in Taxes
  PROVE  f \in Changes /\ \A r \in ItemRow : Updated(r, f) \in ItemRow
<1>1. \A field \in DOMAIN f : f[field] \in BOOLEAN \cup RowIds \cup {NoCategory}
  BY DEF RowIds
<1> QED BY <1>1, SomeChanges, UpdatedItem

\* A department's tax.
LEMMA DepartmentThere ==
  ASSUME CatalogueTypeOK, NEW d \in Departments, Active(d)
  PROVE  rows[d].tax \in Taxes
<1>1. rows[d] \in RowsOf(d)
  BY DEF Active, CatalogueTypeOK, RowIds
<1>2. rows[d] \in DepartmentRow
  BY <1>1, TablesApart
<1> QED BY <1>2 DEF DepartmentRow

\* A product is created: what it refers to is in use, and the category is of its department.
LEMMA CreateItemInv ==
  ASSUME CatalogueInv, NEW k \in Keepers, NEW i \in CatalogueItems, NEW d \in Departments,
         NEW cat \in Categories \cup {NoCategory}, CreateItem(k, i, d, cat)
  PROVE  CatalogueInv'
<1> DEFINE f == [active |-> TRUE, department |-> d, category |-> cat, tax |-> rows[d].tax]
           c == [row |-> i, fields |-> f, new |-> TRUE, deletes |-> FALSE]
<1>1. /\ CatalogueTypeOK /\ ~There(i) /\ Active(d) /\ Active(rows[d].tax)
      /\ cat # NoCategory => Active(cat) /\ rows[cat].department = d
  BY DEF CatalogueInv, CreateItem, RelationsFit
<1>2. rows[d].tax \in Taxes
  BY <1>1, DepartmentThere
<1>3. Placed([active |-> TRUE, department |-> d, category |-> cat]) = f
  BY DEF Placed
<1>4. f \in ItemRow
  BY <1>2 DEF ItemRow
<1>5. f \in Changes
  BY <1>2, ItemFieldsOK
<1>6. Checked(k, i, f, FALSE)
  BY <1>3 DEF CreateItem
<1> HIDE DEF f
<1>7. CheckOK(c)
  BY <1>4, <1>5, TablesApart DEF CheckOK, CheckRecord, RowIds
<1>8. ItemFits(f, rows, deleted)
  BY <1>1, ActiveStays, TablesApart DEF ItemFits, f, Active, There, CatalogueInv, CatalogueTypeOK
<1>9. ~entangled => AllFit(RowsAfter(c), GoneAfter(c))
  BY <1>1, <1>7, <1>8, ItemWriteFits DEF Written
<1> QED BY <1>1, <1>6, <1>7, <1>9, CheckedInv

\* A product is updated: it moves with its tax to what is in use, or keeps what it has.
LEMMA UpdateItemInv ==
  ASSUME CatalogueInv, NEW k \in Keepers, NEW i \in CatalogueItems, NEW fields \in ItemChanges,
         UpdateItem(k, i, fields)
  PROVE  CatalogueInv'
<1> DEFINE f == Placed(fields)
           next == Updated(rows[i], fields)
           w == Updated(rows[i], f)
           c == [row |-> i, fields |-> f, new |-> FALSE, deletes |-> FALSE]
<1>1. /\ CatalogueTypeOK /\ Active(i) /\ There(i)
      /\ Active(next.department) /\ Active(rows[next.department].tax)
      /\ next.category # NoCategory => Active(next.category) /\ rows[next.category].department = next.department
  BY DEF CatalogueInv, UpdateItem, RelationsFit, Active
<1>2. rows[i] \in ItemRow
  BY <1>1, TablesApart DEF CatalogueTypeOK, RowIds
<1>3. /\ DOMAIN fields \subseteq {"active", "department", "category"}
      /\ "active" \in DOMAIN fields => fields.active \in BOOLEAN
      /\ "department" \in DOMAIN fields => fields.department \in Departments
      /\ "category" \in DOMAIN fields => fields.category \in Categories \cup {NoCategory}
      /\ fields = [field \in DOMAIN fields |-> fields[field]]
  BY DEF ItemChanges
<1>4. /\ next \in ItemRow
      /\ next.department = IF "department" \in DOMAIN fields THEN fields.department ELSE rows[i].department
      /\ next.category = IF "category" \in DOMAIN fields THEN fields.category ELSE rows[i].category
  BY <1>2, <1>3, UpdatedItem
<1>5. next.department \in Departments
  BY <1>4 DEF ItemRow
<1>6. rows[next.department].tax \in Taxes
  BY <1>1, <1>5, DepartmentThere
<1> HIDE DEF next
<1>7. /\ f = [field \in DOMAIN f |-> f[field]]
      /\ DOMAIN f = IF "department" \in DOMAIN fields THEN DOMAIN fields \cup {"tax"} ELSE DOMAIN fields
      /\ \A field \in DOMAIN fields : f[field] = fields[field]
      /\ "department" \in DOMAIN fields => f.tax = rows[fields.department].tax
  BY <1>3 DEF Placed
<1> HIDE DEF f
<1>8. /\ "active" \in DOMAIN f => f.active \in BOOLEAN
      /\ "department" \in DOMAIN f => f.department \in Departments
      /\ "category" \in DOMAIN f => f.category \in Categories \cup {NoCategory}
      /\ "tax" \in DOMAIN f => f.tax \in Taxes /\ f.tax = rows[next.department].tax
      /\ DOMAIN f \subseteq {"active", "department", "category", "tax"}
  BY <1>3, <1>4, <1>6, <1>7
<1>9. f \in Changes /\ \A r \in ItemRow : Updated(r, f) \in ItemRow
  BY <1>7, <1>8, ItemFieldsOK
<1>10. CheckOK(c)
  BY <1>9, TablesApart DEF CheckOK, CheckRecord, RowIds
<1>11. /\ w.department = next.department /\ w.category = next.category
       /\ w.tax = IF "tax" \in DOMAIN f THEN f.tax ELSE rows[i].tax
  BY <1>2, <1>3, <1>4, <1>7, <1>8, UpdatedItem
<1> HIDE DEF w
<1>12. ASSUME ~entangled PROVE ItemFits(w, rows, deleted)
  <2>1. ItemFits(rows[i], rows, deleted)
    BY <1>1, <1>12 DEF CatalogueInv, AllFit, There
  <2>2. w.tax \notin deleted
    BY <1>1, <1>8, <1>11, <2>1, ActiveStays DEF ItemFits, Active
  <2>3. w.department \notin deleted /\ w.category \notin deleted
    BY <1>1, <1>11, ActiveStays, TablesApart DEF CatalogueTypeOK
  <2> QED BY <1>1, <1>11, <2>2, <2>3 DEF ItemFits, Active, There
<1>13. Written(c) = w
  BY DEF Written, w
<1>14. ~entangled => AllFit(RowsAfter(c), GoneAfter(c))
  BY <1>1, <1>10, <1>12, <1>13, ItemWriteFits
<1>15. Checked(k, i, f, FALSE)
  BY DEF UpdateItem, f
<1> QED BY <1>1, <1>10, <1>14, <1>15, CheckedInv

\* A product that is removed refers to what it referred to.
LEMMA RemoveItemInv ==
  ASSUME CatalogueInv, NEW k \in Keepers, NEW i \in CatalogueItems, RemoveItem(k, i)
  PROVE  CatalogueInv'
<1> DEFINE f == [active |-> FALSE]
           c == [row |-> i, fields |-> f, new |-> FALSE, deletes |-> FALSE]
<1>1. CatalogueTypeOK /\ There(i) /\ Checked(k, i, f, FALSE)
  BY DEF CatalogueInv, RemoveItem, Active
<1>2. f \in Changes /\ \A r \in ItemRow : Updated(r, f) \in ItemRow
  BY ItemFieldsOK
<1>3. CheckOK(c)
  BY <1>2, TablesApart DEF CheckOK, CheckRecord, RowIds
<1>4. rows[i] \in ItemRow
  BY <1>1, TablesApart DEF CatalogueTypeOK, RowIds
<1>5. /\ ~Written(c).active /\ Written(c).department = rows[i].department
      /\ Written(c).category = rows[i].category
  <2>1. "active" \in DOMAIN f /\ "department" \notin DOMAIN f /\ "category" \notin DOMAIN f
    OBVIOUS
  <2>2. f.active = FALSE /\ "tax" \notin DOMAIN f
    OBVIOUS
  <2>3. Written(c) = Updated(rows[i], f)
    BY DEF Written
  <2> HIDE DEF f
  <2> QED BY <1>4, <2>1, <2>2, <2>3, UpdatedItem
<1>6. ~entangled => ItemFits(Written(c), rows, deleted)
  BY <1>1, <1>5 DEF CatalogueInv, AllFit, ItemFits, There
<1> HIDE DEF f
<1>7. ~entangled => AllFit(RowsAfter(c), GoneAfter(c))
  BY <1>1, <1>3, <1>6, ItemWriteFits
<1> QED BY <1>1, <1>3, <1>7, CheckedInv

\* A department, category or tax that a request has checked.
LEMMA SetupCheckInv ==
  ASSUME CatalogueInv, NEW k \in Keepers, NEW x \in Departments \cup Categories \cup Taxes, NEW f,
         NEW deletes \in BOOLEAN, Checked(k, x, f, deletes),
         f \in Changes,
         ~There(x) => f \in RowsOf(x),
         \A r \in RowsOf(x) : Updated(r, f) \in RowsOf(x),
         deletes => NotInUse(x) /\ \A r \in RowsOf(x) : ~Updated(r, f).active,
         ~entangled /\ x \in Categories /\ There(x) =>
           \A i \in CatalogueItems :
             There(i) /\ rows[i].category = x => Updated(rows[x], f).department = rows[i].department
  PROVE  CatalogueInv'
<1> DEFINE c == [row |-> x, fields |-> f, new |-> ~There(x), deletes |-> deletes]
<1>1. c.row = x /\ c.fields = f /\ c.new = ~There(x) /\ c.deletes = deletes /\ x \in RowIds
  BY DEF RowIds, There
<1>2. c \in CheckRecord
  BY <1>1 DEF CheckRecord, There
<1> HIDE DEF c
<1>3. CheckOK(c)
  BY <1>1, <1>2 DEF CheckOK, NotInUse
<1>4. x \notin CatalogueItems
  BY CatalogueAssumption
<1>5. x \in Categories /\ There(x) => Written(c) = Updated(rows[x], f)
  BY <1>1 DEF Written
<1>6. ~entangled => AllFit(RowsAfter(c), GoneAfter(c))
  BY <1>1, <1>3, <1>4, <1>5, SetupWriteFits DEF NotInUse
<1> QED BY <1>3, <1>6, CheckedInv DEF c

\* A tax refers to nothing.
LEMMA TaxInv ==
  ASSUME CatalogueInv, NEW k \in Keepers, NEW t \in Taxes,
         CreateTax(k, t) \/ \E on \in BOOLEAN : UpdateTax(k, t, on)
  PROVE  CatalogueInv'
<1>1. PICK on \in BOOLEAN : Checked(k, t, [active |-> on], FALSE)
  BY DEF CreateTax, UpdateTax
<1> DEFINE f == [active |-> on]
<1>2. f \in TaxRow
  BY DEF TaxRow
<1>3. f \in Changes
  BY SomeChanges
<1>4. RowsOf(t) = TaxRow /\ t \notin Categories
  BY TablesApart
<1>5. \A r \in TaxRow : Updated(r, f) \in TaxRow
  BY UpdatedTax
<1> HIDE DEF f
<1> QED BY <1>1, <1>2, <1>3, <1>4, <1>5, SetupCheckInv DEF f

\* No product is in a department that is being created.
LEMMA CreateDepartmentInv ==
  ASSUME CatalogueInv, NEW k \in Keepers, NEW d \in Departments, NEW t \in Taxes,
         CreateDepartment(k, d, t)
  PROVE  CatalogueInv'
<1> DEFINE f == [active |-> TRUE, tax |-> t]
<1>1. Checked(k, d, f, FALSE)
  BY DEF CreateDepartment
<1>2. f \in DepartmentRow /\ "department" \notin DOMAIN f
  BY DEF DepartmentRow
<1>3. f \in Changes
  BY ItemFieldsOK
<1>4. RowsOf(d) = DepartmentRow /\ d \notin Categories
  BY TablesApart
<1>5. \A r \in DepartmentRow : Updated(r, f) \in DepartmentRow
  BY UpdatedDepartment
<1> HIDE DEF f
<1> QED BY <1>1, <1>2, <1>3, <1>4, <1>5, SetupCheckInv

\* Products keep the tax they have when their department gets another.
LEMMA UpdateDepartmentInv ==
  ASSUME CatalogueInv, NEW k \in Keepers, NEW d \in Departments, NEW fields \in DepartmentChanges,
         UpdateDepartment(k, d, fields)
  PROVE  CatalogueInv'
<1>1. Checked(k, d, fields, FALSE) /\ There(d)
  BY DEF UpdateDepartment
<1>2. /\ DOMAIN fields \subseteq {"active", "tax"}
      /\ "active" \in DOMAIN fields => fields.active \in BOOLEAN
      /\ "tax" \in DOMAIN fields => fields.tax \in Taxes
      /\ fields = [field \in DOMAIN fields |-> fields[field]]
  BY DEF DepartmentChanges
<1>3. \A field \in DOMAIN fields : fields[field] \in BOOLEAN \cup RowIds \cup {NoCategory}
  BY <1>2 DEF RowIds
<1>4. fields \in Changes
  BY <1>2, <1>3, SomeChanges
<1>5. RowsOf(d) = DepartmentRow /\ d \notin Categories
  BY TablesApart
<1>6. \A r \in DepartmentRow : Updated(r, fields) \in DepartmentRow
  BY <1>2, UpdatedDepartment
<1> QED BY <1>1, <1>4, <1>5, <1>6, SetupCheckInv

\* No product is in a category that is being created.
LEMMA CreateCategoryInv ==
  ASSUME CatalogueInv, NEW k \in Keepers, NEW cat \in Categories, NEW d \in Departments,
         CreateCategory(k, cat, d)
  PROVE  CatalogueInv'
<1> DEFINE f == [active |-> TRUE, department |-> d]
<1>1. Checked(k, cat, f, FALSE) /\ ~There(cat)
  BY DEF CreateCategory
<1>2. f \in CategoryRow
  BY DEF CategoryRow
<1>3. f \in Changes
  BY ItemFieldsOK
<1>4. RowsOf(cat) = CategoryRow
  BY TablesApart
<1>5. \A r \in CategoryRow : Updated(r, f) \in CategoryRow
  BY UpdatedCategory
<1> HIDE DEF f
<1> QED BY <1>1, <1>2, <1>3, <1>4, <1>5, SetupCheckInv

\* A category only leaves a department when its products are in the other one already.
LEMMA UpdateCategoryInv ==
  ASSUME CatalogueInv, NEW k \in Keepers, NEW cat \in Categories, NEW fields \in CategoryChanges,
         UpdateCategory(k, cat, fields)
  PROVE  CatalogueInv'
<1>1. /\ Checked(k, cat, fields, FALSE) /\ There(cat)
      /\ "department" \in DOMAIN fields => MayMove(cat, fields.department)
  BY DEF UpdateCategory
<1>2. /\ DOMAIN fields \subseteq {"active", "department"}
      /\ "active" \in DOMAIN fields => fields.active \in BOOLEAN
      /\ "department" \in DOMAIN fields => fields.department \in Departments
      /\ fields = [field \in DOMAIN fields |-> fields[field]]
  BY DEF CategoryChanges
<1>3. \A field \in DOMAIN fields : fields[field] \in BOOLEAN \cup RowIds \cup {NoCategory}
  BY <1>2 DEF RowIds
<1>4. fields \in Changes
  BY <1>2, <1>3, SomeChanges
<1>5. RowsOf(cat) = CategoryRow /\ rows[cat] \in CategoryRow
  BY <1>1, TablesApart DEF CatalogueInv, CatalogueTypeOK, RowIds
<1>6. \A r \in CategoryRow : Updated(r, fields) \in CategoryRow
  BY <1>2, UpdatedCategory
<1>7. Updated(rows[cat], fields).department =
        IF "department" \in DOMAIN fields THEN fields.department ELSE rows[cat].department
  BY <1>2, <1>5, UpdatedCategory
<1>8. ASSUME ~entangled, NEW i \in CatalogueItems, There(i), rows[i].category = cat
      PROVE  Updated(rows[cat], fields).department = rows[i].department
  <2>1. rows[cat].department = rows[i].department
    BY <1>8, TablesApart DEF CatalogueInv, AllFit, ItemFits, There, RowIds
  <2>2. "department" \in DOMAIN fields => fields.department = rows[i].department
    BY <1>1, <1>8 DEF MayMove
  <2> QED BY <1>7, <2>1, <2>2
<1> QED BY <1>1, <1>4, <1>5, <1>6, <1>8, SetupCheckInv

\* Deleting: of a tax, a department or a category.
LEMMA DeleteRowInv ==
  ASSUME CatalogueInv, NEW k \in Keepers, NEW x \in Departments \cup Categories \cup Taxes,
         DeleteRow(k, x)
  PROVE  CatalogueInv'
<1> DEFINE f == [active |-> FALSE]
<1>1. Checked(k, x, f, TRUE) /\ There(x) /\ NotInUse(x) /\ rows[x] \in RowsOf(x)
  BY DEF DeleteRow, NotInUse, CatalogueInv, CatalogueTypeOK, RowIds
<1>2. f \in Changes
  BY ItemFieldsOK
<1>3. /\ f = [field \in {"active"} |-> f[field]] /\ DOMAIN f = {"active"} /\ f.active = FALSE
  OBVIOUS
<1>4. \A r \in RowsOf(x) : Updated(r, f) \in RowsOf(x) /\ ~Updated(r, f).active
  <2>1. CASE x \in Departments
    <3>1. RowsOf(x) = DepartmentRow
      BY <2>1, TablesApart
    <3> HIDE DEF f
    <3> QED BY <1>3, <3>1, UpdatedDepartment
  <2>2. CASE x \in Categories
    <3>1. RowsOf(x) = CategoryRow
      BY <2>2, TablesApart
    <3> HIDE DEF f
    <3> QED BY <1>3, <3>1, UpdatedCategory
  <2>3. CASE x \in Taxes
    <3>1. RowsOf(x) = TaxRow
      BY <2>3, TablesApart
    <3> QED BY <3>1, UpdatedTax
  <2> QED BY <2>1, <2>2, <2>3
<1>5. ASSUME ~entangled, x \in Categories, NEW i \in CatalogueItems, There(i), rows[i].category = x
      PROVE  Updated(rows[x], f).department = rows[i].department
  <2>1. rows[x] \in CategoryRow
    BY <1>1, <1>5, TablesApart
  <2>2. rows[x].department = rows[i].department
    BY <1>5, TablesApart DEF CatalogueInv, AllFit, ItemFits, There, RowIds
  <2> HIDE DEF f
  <2> QED BY <1>3, <2>1, <2>2, UpdatedCategory
<1> HIDE DEF f
<1> QED BY <1>1, <1>2, <1>4, <1>5, SetupCheckInv

\* Every request's step keeps the invariant.
LEMMA CatalogueInvStep ==
  ASSUME CatalogueInv, [CatalogueNext]_catalogueVars
  PROVE  CatalogueInv'
<1>1. ASSUME NEW k \in Keepers, KeepItems(k) PROVE CatalogueInv'
  BY <1>1, CreateItemInv, UpdateItemInv, RemoveItemInv DEF KeepItems
<1>2. ASSUME NEW k \in Keepers, KeepSetup(k) PROVE CatalogueInv'
  BY <1>2, TaxInv, CreateDepartmentInv, UpdateDepartmentInv, CreateCategoryInv, UpdateCategoryInv,
     DeleteRowInv DEF KeepSetup, DeleteTax, DeleteDepartment, DeleteProductCategory
<1>3. CASE UNCHANGED catalogueVars
  <2>1. rows' = rows /\ check' = check /\ deleted' = deleted /\ passed' = passed /\ entangled' = entangled
    BY <1>3 DEF catalogueVars
  <2>2. CatalogueTypeOK' /\ DeletedAreInactive'
    BY <2>1 DEF CatalogueInv, CatalogueTypeOK, DeletedAreInactive, CheckOK, There
  <2>3. ~entangled' => AllFit(rows, deleted)'
    BY <2>1 DEF CatalogueInv, AllFit, ItemFits
  <2>4. ASSUME NEW k \in Keepers PROVE CheckFits(k)'
    <3>1. RowsAfter(check[k])' = RowsAfter(check[k]) /\ GoneAfter(check[k])' = GoneAfter(check[k])
      BY <2>1 DEF RowsAfter, GoneAfter, Written
    <3>2. CheckFits(k)
      BY DEF CatalogueInv
    <3> QED BY <2>1, <3>1, <3>2 DEF CheckFits, AllFit, ItemFits
  <2> QED BY <2>2, <2>3, <2>4 DEF CatalogueInv
<1> QED BY <1>1, <1>2, <1>3, SaveRowInv, DropCheckInv DEF CatalogueNext

-----------------------------------------------------------------------------
(* Catalogue: theorems *)

\* What a request has checked stays true of every row until another one is saved: saved
\* by then, it leaves products that fit (product.service.ts:2497-2603).
THEOREM CatalogueInvariant == CatalogueSpec => []CatalogueInv
<1>1. CatalogueInit => CatalogueInv
  <2> SUFFICES ASSUME CatalogueInit PROVE CatalogueInv
    OBVIOUS
  <2>1. /\ \A x \in RowIds : rows[x] = NoRow
        /\ \A k \in Keepers : check[k] = NoCheck
        /\ deleted = {}
    BY DEF CatalogueInit
  <2>2. CatalogueTypeOK
    BY <2>1 DEF CatalogueInit, CatalogueTypeOK, There
  <2>3. AllFit(rows, deleted)
    BY <2>1 DEF AllFit, RowIds
  <2> QED BY <2>1, <2>2, <2>3 DEF CatalogueInv, DeletedAreInactive, CheckFits
<1> QED BY <1>1, CatalogueInvStep, PTL DEF CatalogueSpec

\* Unless requests overlapped, a product is in a category of its own department and what
\* one in use refers to was not deleted, however each of the tables was changed.
THEOREM ProductsFitTheirRows == CatalogueSpec => []ReferencesFit
<1>1. CatalogueInv => ReferencesFit
  BY DEF CatalogueInv, AllFit, ItemFits, There, ReferencesFit
<1> QED BY <1>1, CatalogueInvariant, PTL

-----------------------------------------------------------------------------
(* The desks together *)

\* Whoever sits at a desk, every component takes steps of its own specification or
\* rests: what is proved of a component holds in the back office.
THEOREM DesksKeepTheirSpecs ==
  OfficeSpec => /\ BillingSpec /\ ShopSpec /\ AccountSpec /\ RegisterSpec
                /\ CatalogueSpec /\ NamesSpec /\ ReplacementSpec /\ PackSpec
<1>1. OfficeInit => /\ BillingInit /\ ShopInit /\ AccountInit /\ RegisterInit
                    /\ CatalogueInit /\ NamesInit /\ ReplacementInit /\ PackInit
  BY DEF OfficeInit
<1>2. [OfficeNext]_officeVars => /\ [BillingNext]_billingVars /\ [ShopNext]_shopVars
                                 /\ [AccountNext]_accountVars /\ [RegisterNext]_registerVars
                                 /\ [CatalogueNext]_catalogueVars /\ [NamesNext]_namesVars
                                 /\ [ReplacementNext]_replacementVars /\ [PackNext]_packVars
  <2>1. CASE UNCHANGED officeVars
    BY <2>1 DEF officeVars
  <2>2. ASSUME NEW d \in AllDesks, AtDesk(d)
        PROVE  /\ d # "billing" => UNCHANGED billingVars
               /\ d # "stores" => UNCHANGED shopVars
               /\ d # "accounts" => UNCHANGED accountVars
               /\ d # "registers" => UNCHANGED registerVars
               /\ d # "catalogue" => UNCHANGED catalogueVars
               /\ d # "names" => UNCHANGED namesVars
               /\ d # "records" => UNCHANGED replacementVars
               /\ d # "packs" => UNCHANGED packVars
    BY <2>2 DEF AtDesk, Rest
  <2>3. CASE OfficeNext
    BY <2>2, <2>3 DEF OfficeNext, AllDesks
  <2> QED BY <2>1, <2>3
<1> QED BY <1>1, <1>2, PTL DEF OfficeSpec, BillingSpec, ShopSpec, AccountSpec, RegisterSpec,
        CatalogueSpec, NamesSpec, ReplacementSpec, PackSpec

\* So in the back office all of this holds at once.
COROLLARY OfficeIsSafe ==
  OfficeSpec => /\ []BilledStoresAreActive /\ []NamesDiffer /\ []RecordIsComplete
                /\ []LinksWorkOnce /\ []VerifiedIsProven
                /\ []ReferencesFit
                /\ []VersionsGuardPacks /\ []ActivePacksDiffer /\ DecisionsHold
                /\ []CodeMakesOneDevice /\ []RevokedStayOut
                /\ []OneOpenSession /\ KeepsPromise
  BY DesksKeepTheirSpecs, OwnersPayForActiveStores, NamesStayApart, RecordsStayComplete,
     LinksAreUsedOnce, AddressesAreProven, ProductsFitTheirRows, PackVersionsGuard, PacksOnSaleDiffer, DecisionsStand,
     CodesMakeOneDevice, RevokedDevicesStayOut, OneSessionOpen, PromiseKept, PTL
=============================================================================

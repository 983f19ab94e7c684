------------------------- MODULE StoreFront_proofs --------------------------
(***************************************************************************)
(* What is proved of tiers, price groups and promotions, for any number of *)
(* customers' purchases, products, groups, requests, lines and offers; and *)
(* that a store's front keeps what is proved of each of its desks.         *)
(***************************************************************************)
EXTENDS StoreFront, Pricing_proofs

-----------------------------------------------------------------------------
(* Tiers: what was spent in all stores, and the highest rule reached *)

\* Spending adds up to a number.
LEMMA SpendIsANumber ==
  ASSUME NEW a \in [TierStores -> Nat] PROVE TotalSpend(a) \in Nat
<1>1. DOMAIN a = TierStores /\ \A s \in TierStores : a[s] \in Nat
  OBVIOUS
<1> QED
  BY <1>1, SumOverNat, TierAssumption DEF TotalSpend, SumFunction

\* Who spends no less anywhere has spent no less in all stores.
LEMMA SpendGrows ==
  ASSUME NEW a \in [TierStores -> Nat], NEW b \in [TierStores -> Nat], \A s \in TierStores : a[s] <= b[s]
  PROVE  TotalSpend(a) <= TotalSpend(b)
<1>1. DOMAIN a = TierStores /\ DOMAIN b = TierStores
  OBVIOUS
<1>2. \A s \in TierStores : a[s] \in Int /\ b[s] \in Int /\ a[s] <= b[s]
  OBVIOUS
<1> QED
  BY <1>1, <1>2, SumOverMonotone, TierAssumption DEF TotalSpend, SumFunction

\* findFirst with its order finds the highest minimum that is reached, and it is reached.
LEMMA HighestIsHighest ==
  ASSUME NEW R \in SUBSET TierRules, NEW amount \in Nat, Reached(R, amount) # {}
  PROVE  /\ Highest(Reached(R, amount)) \in Reached(R, amount)
         /\ \A o \in Reached(R, amount) : o.minimum <= Highest(Reached(R, amount)).minimum
<1> DEFINE Q == Reached(R, amount)
           M == {r.minimum : r \in Q}
<1>1. \A r \in Q : r.minimum \in Nat /\ r.minimum <= amount
  BY TierAssumption DEF Reached
<1> HIDE DEF Q
<1>2. M \subseteq Nat /\ M # {} /\ \A m \in M : m <= amount
  BY <1>1 DEF Q
<1> HIDE DEF M
<1>3. PICK m \in M : \A n \in M : n <= m
  BY <1>2, GreatestExists
<1>4. \E r \in Q : \A o \in Q : o.minimum <= r.minimum
  BY <1>3 DEF M
<1> QED
  BY <1>4 DEF Highest, Q

\* Whether r was reached with amounts in store s
ReachedBy(r, s, amounts) ==
  IF r.sync THEN r.minimum <= TotalSpend(amounts) ELSE r.store = s /\ r.minimum <= amounts[s]

\* What findBestTierRule answers: nothing when no rule is reached, else one that is, that
\* no other one asks more than, nor as much being of the store.
IsBest(best, R, s, amounts) ==
  IF \E r \in R : ReachedBy(r, s, amounts)
  THEN /\ best \in R /\ ReachedBy(best, s, amounts)
       /\ \A r \in R : ReachedBy(r, s, amounts) =>
            r.minimum < best.minimum \/ (r.minimum = best.minimum /\ (best.sync => r.sync))
  ELSE best = NoRule

\* findBestTierRule finds the best rule.
LEMMA BestRuleIsBest ==
  ASSUME rules \in SUBSET TierRules, NEW s \in TierStores, NEW a \in [TierStores -> Nat]
  PROVE  IsBest(BestRule(s, a), rules, s, a)
<1> DEFINE S == {r \in rules : ~r.sync /\ r.store = s}
           O == {r \in rules : r.sync}
           own == StoreRule(s, a)
           owner == OwnerRule(a)
<1>1. a[s] \in Nat /\ TotalSpend(a) \in Nat /\ S \in SUBSET TierRules /\ O \in SUBSET TierRules
  BY SpendIsANumber
<1>2. \A r \in rules : r.sync \in BOOLEAN /\ r.minimum \in Nat /\ r # NoRule
  BY TierAssumption
<1>3. own = Highest(Reached(S, a[s])) /\ owner = Highest(Reached(O, TotalSpend(a)))
  BY DEF StoreRule, OwnerRule
<1>4. /\ \A r \in S : r \in rules /\ ~r.sync /\ r.store = s
      /\ \A r \in O : r \in rules /\ r.sync
      /\ \A r \in rules : ReachedBy(r, s, a) <=> r \in Reached(S, a[s]) \/ r \in Reached(O, TotalSpend(a))
  BY <1>2 DEF Reached, ReachedBy
<1> HIDE DEF S, O
<1>5. IF Reached(S, a[s]) = {} THEN own = NoRule
      ELSE /\ own \in Reached(S, a[s])
           /\ \A o \in Reached(S, a[s]) : o.minimum <= own.minimum
  BY <1>1, <1>3, HighestIsHighest DEF Highest
<1>6. IF Reached(O, TotalSpend(a)) = {} THEN owner = NoRule
      ELSE /\ owner \in Reached(O, TotalSpend(a))
           /\ \A o \in Reached(O, TotalSpend(a)) : o.minimum <= owner.minimum
  BY <1>1, <1>3, HighestIsHighest DEF Highest
<1>7. BestRule(s, a) = IF owner # NoRule /\ (own = NoRule \/ owner.minimum > own.minimum) THEN owner ELSE own
  BY DEF BestRule
<1> HIDE DEF own, owner
<1>8. /\ \A r \in Reached(S, a[s]) : r \in S
      /\ \A r \in Reached(O, TotalSpend(a)) : r \in O
  BY DEF Reached
<1> DEFINE RS == Reached(S, a[s])
           RO == Reached(O, TotalSpend(a))
<1>9. /\ \A r \in RS : r \in rules /\ ~r.sync /\ r.minimum \in Nat /\ r # NoRule
      /\ \A r \in RO : r \in rules /\ r.sync /\ r.minimum \in Nat /\ r # NoRule
  BY <1>2, <1>4, <1>8
<1>10. \A r \in rules : ReachedBy(r, s, a) <=> r \in RS \/ r \in RO
  BY <1>4
<1> HIDE DEF RS, RO
<1>11. IF RS = {} THEN own = NoRule ELSE own \in RS /\ \A o \in RS : o.minimum <= own.minimum
  BY <1>5 DEF RS
<1>12. IF RO = {} THEN owner = NoRule ELSE owner \in RO /\ \A o \in RO : o.minimum <= owner.minimum
  BY <1>6 DEF RO
<1>13. CASE RS = {} /\ RO = {}
  BY <1>7, <1>10, <1>11, <1>12, <1>13 DEF IsBest
<1>14. CASE RS # {} /\ RO = {}
  <2>1. BestRule(s, a) = own
    BY <1>7, <1>12, <1>14
  <2> QED
    BY <2>1, <1>9, <1>10, <1>11, <1>14 DEF IsBest
<1>15. CASE RS = {} /\ RO # {}
  <2>1. BestRule(s, a) = owner
    BY <1>7, <1>9, <1>11, <1>12, <1>15
  <2> QED
    BY <2>1, <1>9, <1>10, <1>12, <1>15 DEF IsBest
<1>16. CASE RS # {} /\ RO # {}
  <2>1. BestRule(s, a) = IF owner.minimum > own.minimum THEN owner ELSE own
    BY <1>7, <1>9, <1>11, <1>12, <1>16
  <2>2. CASE owner.minimum > own.minimum
    BY <2>1, <2>2, <1>9, <1>10, <1>11, <1>12, <1>16 DEF IsBest
  <2>3. CASE ~(owner.minimum > own.minimum)
    BY <2>1, <2>3, <1>9, <1>10, <1>11, <1>12, <1>16 DEF IsBest
  <2> QED
    BY <2>2, <2>3
<1> QED
  BY <1>13, <1>14, <1>15, <1>16

-----------------------------------------------------------------------------
(* Tiers: the inductive invariant *)

Sales ==
  [store : TierStores, amount : Nat, joins : BOOLEAN, fresh : BOOLEAN, rule : TierRules \cup {NoRule}]

TierTypes ==
  /\ rules \in SUBSET TierRules
  /\ members \in SUBSET TierStores
  /\ spent \in [TierStores -> Nat]
  /\ bought \in [TierStores -> Nat]
  /\ tier \in [TierStores -> TierRules \cup {NoRule}]
  /\ sale = [t \in Tills |-> sale[t]]
  /\ \A t \in Tills : sale[t] # NoSale => sale[t] \in Sales
  /\ current \in SUBSET TierStores

EarnedBy(r, s, amounts) == r # NoRule => ReachedBy(r, s, amounts)

With(amounts, s, amount) == [amounts EXCEPT ![s] = @ + amount]

\* What is in flight was earned with the purchase it makes, and while nothing has
\* changed since it was calculated, it is the best rule.
SaleIsRight(t) ==
  LET j == sale[t] IN
  j # NoSale =>
    /\ EarnedBy(j.rule, j.store, With(bought, j.store, j.amount))
    /\ j.fresh => IsBest(j.rule, rules, j.store, With(spent, j.store, j.amount))

\* Purchases are remembered for a while but were made for ever; every tier was earned by
\* what was bought, what is in flight will be, and where nothing has changed since the
\* calculation the tier is the best one.
TierInv ==
  /\ TierTypes
  /\ \A s \in TierStores : spent[s] <= bought[s]
  /\ \A s \in TierStores : EarnedBy(tier[s], s, bought)
  /\ \A t \in Tills : SaleIsRight(t)
  /\ \A s \in current : IsBest(tier[s], rules, s, spent)

\* More purchases earn no less.
LEMMA EarnedStays ==
  ASSUME NEW r \in TierRules \cup {NoRule}, NEW s \in TierStores,
         NEW a \in [TierStores -> Nat], NEW b \in [TierStores -> Nat],
         \A o \in TierStores : a[o] <= b[o], EarnedBy(r, s, a)
  PROVE  EarnedBy(r, s, b)
<1>1. SUFFICES ASSUME r # NoRule PROVE ReachedBy(r, s, b)
  BY DEF EarnedBy
<1>2. ReachedBy(r, s, a)
  BY <1>1 DEF EarnedBy
<1>3. TotalSpend(a) \in Nat /\ TotalSpend(b) \in Nat /\ TotalSpend(a) <= TotalSpend(b)
  BY SpendIsANumber, SpendGrows
<1>4. a[s] \in Nat /\ b[s] \in Nat /\ a[s] <= b[s] /\ r.minimum \in Nat
  BY <1>1, TierAssumption
<1> QED
  BY <1>2, <1>3, <1>4 DEF ReachedBy

\* The best rule with the spending of sixty days is earned with more than that.
LEMMA BestIsEarned ==
  ASSUME rules \in SUBSET TierRules, NEW r, NEW s \in TierStores,
         NEW a \in [TierStores -> Nat], NEW b \in [TierStores -> Nat],
         \A o \in TierStores : a[o] <= b[o], IsBest(r, rules, s, a)
  PROVE  r \in TierRules \cup {NoRule} /\ EarnedBy(r, s, b)
<1>1. r \in TierRules \cup {NoRule} /\ EarnedBy(r, s, a)
  BY DEF IsBest, EarnedBy
<1> QED
  BY <1>1, EarnedStays

\* A purchase in one store raises the spending of that store only.
LEMMA WithTypes ==
  ASSUME NEW a \in [TierStores -> Nat], NEW s \in TierStores, NEW n \in Nat
  PROVE  /\ With(a, s, n) \in [TierStores -> Nat]
         /\ With(a, s, n)[s] = a[s] + n
         /\ \A o \in TierStores : a[o] <= With(a, s, n)[o]
         /\ \A b \in [TierStores -> Nat] :
              (\A o \in TierStores : a[o] <= b[o]) =>
                 \A o \in TierStores : With(a, s, n)[o] <= With(b, s, n)[o]
<1>1. \A o \in TierStores : With(a, s, n)[o] = IF o = s THEN a[o] + n ELSE a[o]
  BY DEF With
<1>2. With(a, s, n) \in [TierStores -> Nat]
  BY DEF With
<1>3. ASSUME NEW b \in [TierStores -> Nat], \A o \in TierStores : a[o] <= b[o], NEW o \in TierStores
      PROVE  With(a, s, n)[o] <= With(b, s, n)[o]
  <2>1. With(b, s, n)[o] = IF o = s THEN b[o] + n ELSE b[o]
    BY DEF With
  <2>2. a[o] \in Nat /\ b[o] \in Nat /\ a[o] <= b[o]
    BY <1>3
  <2> QED
    BY <1>1, <2>1, <2>2
<1>4. ASSUME NEW o \in TierStores PROVE a[o] <= With(a, s, n)[o]
  BY <1>1
<1> QED
  BY <1>1, <1>2, <1>3, <1>4

LEMMA TierInvInit == TierInit => TierInv
<1> SUFFICES ASSUME TierInit PROVE TierInv
  OBVIOUS
<1>1. TierTypes
  BY DEF TierInit, TierTypes
<1>2. \A s \in TierStores : spent[s] <= bought[s]
  BY DEF TierInit
<1>3. \A s \in TierStores : EarnedBy(tier[s], s, bought)
  BY DEF TierInit, EarnedBy
<1>4. \A t \in Tills : SaleIsRight(t)
  BY DEF TierInit, SaleIsRight
<1>5. \A s \in current : IsBest(tier[s], rules, s, spent)
  BY DEF TierInit
<1> QED
  BY <1>1, <1>2, <1>3, <1>4, <1>5 DEF TierInv

\* What is in flight keeps its types and is not fresh.
LEMMA OutdatedSales ==
  ASSUME NEW j, \A t \in Tills : j[t] # NoSale => j[t] \in Sales
  PROVE  /\ Outdated(j) = [t \in Tills |-> Outdated(j)[t]]
         /\ \A t \in Tills : Outdated(j)[t] # NoSale =>
              /\ j[t] # NoSale
              /\ Outdated(j)[t] \in Sales
              /\ ~Outdated(j)[t].fresh
              /\ Outdated(j)[t].store = j[t].store
              /\ Outdated(j)[t].amount = j[t].amount
              /\ Outdated(j)[t].rule = j[t].rule
<1>1. \A t \in Tills : Outdated(j)[t] = IF j[t] = NoSale THEN NoSale ELSE [j[t] EXCEPT !.fresh = FALSE]
  BY DEF Outdated
<1>2. ASSUME NEW x \in Sales
      PROVE  LET y == [x EXCEPT !.fresh = FALSE] IN
             y \in Sales /\ ~y.fresh /\ y.store = x.store /\ y.amount = x.amount /\ y.rule = x.rule
  BY DEF Sales
<1>3. Outdated(j) = [t \in Tills |-> Outdated(j)[t]]
  BY DEF Outdated
<1>4. ASSUME NEW t \in Tills, Outdated(j)[t] # NoSale
      PROVE  /\ j[t] # NoSale
             /\ Outdated(j)[t] \in Sales
             /\ ~Outdated(j)[t].fresh
             /\ Outdated(j)[t].store = j[t].store
             /\ Outdated(j)[t].amount = j[t].amount
             /\ Outdated(j)[t].rule = j[t].rule
  <2>1. j[t] # NoSale /\ j[t] \in Sales /\ Outdated(j)[t] = [j[t] EXCEPT !.fresh = FALSE]
    BY <1>1, <1>4
  <2> QED
    BY <2>1, <1>2
<1> QED
  BY <1>3, <1>4

\* Outdated sales are still earned when no less was bought.
LEMMA OutdatedAreRight ==
  ASSUME TierInv, bought' \in [TierStores -> Nat], \A s \in TierStores : bought[s] <= bought'[s],
         NEW j, \A t \in Tills : j[t] # NoSale => j[t] = sale[t], sale' = Outdated(j)
  PROVE  /\ sale' = [t \in Tills |-> sale'[t]]
         /\ \A t \in Tills : sale'[t] # NoSale => sale'[t] \in Sales
         /\ \A t \in Tills : SaleIsRight(t)'
<1>1. \A t \in Tills : j[t] # NoSale => j[t] \in Sales
  BY DEF TierInv, TierTypes
<1>2. ASSUME NEW t \in Tills, sale'[t] # NoSale
      PROVE  /\ sale'[t] \in Sales
             /\ ~sale'[t].fresh
             /\ EarnedBy(sale'[t].rule, sale'[t].store, With(bought', sale'[t].store, sale'[t].amount))
  <2>1. /\ j[t] # NoSale
        /\ sale'[t] \in Sales
        /\ ~sale'[t].fresh
        /\ sale'[t].store = sale[t].store
        /\ sale'[t].amount = sale[t].amount
        /\ sale'[t].rule = sale[t].rule
    <3>1. /\ j[t] # NoSale
          /\ sale'[t] \in Sales
          /\ ~sale'[t].fresh
          /\ sale'[t].store = j[t].store
          /\ sale'[t].amount = j[t].amount
          /\ sale'[t].rule = j[t].rule
      <4>1. Outdated(j)[t] # NoSale
        BY <1>2
      <4>2. /\ j[t] # NoSale
            /\ Outdated(j)[t] \in Sales
            /\ ~Outdated(j)[t].fresh
            /\ Outdated(j)[t].store = j[t].store
            /\ Outdated(j)[t].amount = j[t].amount
            /\ Outdated(j)[t].rule = j[t].rule
        BY <1>1, <4>1, OutdatedSales
      <4> QED
        BY <4>2
    <3>2. j[t] = sale[t]
      BY <3>1
    <3> QED
      BY <3>1, <3>2
  <2> DEFINE s == sale[t].store
             n == sale[t].amount
             r == sale[t].rule
  <2>2. sale[t] # NoSale /\ sale[t] \in Sales /\ s \in TierStores /\ n \in Nat /\ r \in TierRules \cup {NoRule}
    BY <1>1, <2>1 DEF Sales
  <2>3. EarnedBy(r, s, With(bought, s, n))
    BY <2>2 DEF TierInv, SaleIsRight
  <2>4. bought \in [TierStores -> Nat]
    BY DEF TierInv, TierTypes
  <2> HIDE DEF s, n, r
  <2>5. /\ With(bought, s, n) \in [TierStores -> Nat] /\ With(bought', s, n) \in [TierStores -> Nat]
        /\ \A o \in TierStores : With(bought, s, n)[o] <= With(bought', s, n)[o]
    BY <2>2, <2>4, WithTypes
  <2>6. EarnedBy(r, s, With(bought', s, n))
    BY <2>2, <2>3, <2>5, EarnedStays
  <2> QED
    BY <2>1, <2>6 DEF s, n, r
<1>3. \A t \in Tills : SaleIsRight(t)'
  BY <1>2 DEF SaleIsRight
<1>4. sale' = [t \in Tills |-> sale'[t]]
  BY DEF Outdated
<1> QED
  BY <1>2, <1>3, <1>4

-----------------------------------------------------------------------------
(* Tiers: the steps *)

LEMMA CreateRuleStep ==
  ASSUME TierInv, NEW r \in TierRules, CreateRule(r) PROVE TierInv'
<1> USE DEF CreateRule
<1>1. \A t \in Tills : sale[t] # NoSale => sale[t] = sale[t]
  OBVIOUS
<1>2. bought' \in [TierStores -> Nat] /\ \A s \in TierStores : bought[s] <= bought'[s]
  BY DEF TierInv, TierTypes
<1>3. /\ sale' = [t \in Tills |-> sale'[t]]
      /\ \A t \in Tills : sale'[t] # NoSale => sale'[t] \in Sales
      /\ \A t \in Tills : SaleIsRight(t)'
  BY <1>1, <1>2, OutdatedAreRight
<1>4. TierTypes'
  BY <1>3 DEF TierInv, TierTypes
<1>5. \A s \in TierStores : spent'[s] <= bought'[s] /\ EarnedBy(tier'[s], s, bought')
  BY DEF TierInv
<1>6. current' = {}
  OBVIOUS
<1> QED
  BY <1>3, <1>4, <1>5, <1>6 DEF TierInv

LEMMA AgeStep ==
  ASSUME TierInv, NEW s \in TierStores, Age(s) PROVE TierInv'
<1> USE DEF Age
<1>1. \A t \in Tills : sale[t] # NoSale => sale[t] = sale[t]
  OBVIOUS
<1>2. bought' \in [TierStores -> Nat] /\ \A o \in TierStores : bought[o] <= bought'[o]
  BY DEF TierInv, TierTypes
<1>3. /\ sale' = [t \in Tills |-> sale'[t]]
      /\ \A t \in Tills : sale'[t] # NoSale => sale'[t] \in Sales
      /\ \A t \in Tills : SaleIsRight(t)'
  BY <1>1, <1>2, OutdatedAreRight
<1>4. spent' \in [TierStores -> Nat] /\ \A o \in TierStores : spent'[o] <= bought'[o]
  BY DEF TierInv, TierTypes
<1>5. TierTypes'
  BY <1>3, <1>4 DEF TierInv, TierTypes
<1>6. \A o \in TierStores : EarnedBy(tier'[o], o, bought')
  BY DEF TierInv
<1>7. current' = {}
  OBVIOUS
<1> QED
  BY <1>3, <1>4, <1>5, <1>6, <1>7 DEF TierInv

LEMMA CalculateTierStep ==
  ASSUME TierInv, NEW t \in Tills, NEW s \in TierStores, NEW amount \in 0 .. MaxSpend,
         CalculateTier(t, s, amount)
  PROVE  TierInv'
<1> DEFINE a == With(spent, s, amount)
           j == [store |-> s, amount |-> amount, joins |-> s \notin members, fresh |-> TRUE,
                 rule |-> BestRule(s, a)]
<1>1. /\ rules \in SUBSET TierRules
      /\ spent \in [TierStores -> Nat] /\ bought \in [TierStores -> Nat]
      /\ sale = [o \in Tills |-> sale[o]]
      /\ \A o \in TierStores : spent[o] <= bought[o]
  BY DEF TierInv, TierTypes
<1>2. amount \in Nat
  BY TierAssumption
<1>3. UNCHANGED <<rules, members, spent, tier, bought, current>>
  BY DEF CalculateTier
<1>4. sale' = [sale EXCEPT ![t] = j]
  BY DEF CalculateTier, With
<1>5. a \in [TierStores -> Nat]
  BY <1>1, <1>2, WithTypes
<1>6. IsBest(BestRule(s, a), rules, s, a)
  <2> HIDE DEF a
  <2> QED
    BY <1>1, <1>5, BestRuleIsBest
<1>7. /\ With(bought, s, amount) \in [TierStores -> Nat]
      /\ \A o \in TierStores : a[o] <= With(bought, s, amount)[o]
  BY <1>1, <1>2, WithTypes
<1>8. BestRule(s, a) \in TierRules \cup {NoRule} /\ EarnedBy(BestRule(s, a), s, With(bought, s, amount))
  <2> HIDE DEF a
  <2> QED
    BY <1>1, <1>5, <1>6, <1>7, BestIsEarned
<1> DEFINE b == BestRule(s, a)
<1>9. j \in Sales
  BY <1>2, <1>8 DEF Sales
<1>10. /\ sale'[t] = j
       /\ \A o \in Tills : o # t => sale'[o] = sale[o]
       /\ sale' = [o \in Tills |-> sale'[o]]
  BY <1>1, <1>4
<1>11. j.store = s /\ j.amount = amount /\ j.rule = b
  OBVIOUS
<1> HIDE DEF j
<1>12. TierTypes'
  BY <1>3, <1>9, <1>10 DEF TierInv, TierTypes
<1>13. SaleIsRight(t)'
  BY <1>3, <1>6, <1>8, <1>10, <1>11 DEF SaleIsRight
<1>14. ASSUME NEW o \in Tills, o # t PROVE SaleIsRight(o)'
  BY <1>3, <1>10, <1>14 DEF TierInv, SaleIsRight
<1>15. /\ \A o \in TierStores : spent'[o] <= bought'[o]
       /\ \A o \in TierStores : EarnedBy(tier'[o], o, bought')
       /\ \A o \in current' : IsBest(tier'[o], rules', o, spent')
  BY <1>3 DEF TierInv
<1> QED
  BY <1>12, <1>13, <1>14, <1>15 DEF TierInv

LEMMA AssignStep ==
  ASSUME TierInv, NEW t \in Tills, Assign(t) PROVE TierInv'
<1> DEFINE s == sale[t].store
           n == sale[t].amount
           r == sale[t].rule
           left == [sale EXCEPT ![t] = NoSale]
<1>1. /\ rules \in SUBSET TierRules /\ members \in SUBSET TierStores
      /\ spent \in [TierStores -> Nat] /\ bought \in [TierStores -> Nat]
      /\ tier \in [TierStores -> TierRules \cup {NoRule}]
      /\ sale = [o \in Tills |-> sale[o]]
      /\ \A o \in TierStores : spent[o] <= bought[o]
      /\ \A o \in TierStores : EarnedBy(tier[o], o, bought)
  BY DEF TierInv, TierTypes
<1>2. sale[t] # NoSale /\ sale[t] \in Sales
  BY DEF Assign, TierInv, TierTypes
<1>3. s \in TierStores /\ n \in Nat /\ r \in TierRules \cup {NoRule} /\ sale[t].fresh \in BOOLEAN
  BY <1>2 DEF Sales
<1>4. /\ EarnedBy(r, s, With(bought, s, n))
      /\ sale[t].fresh => IsBest(r, rules, s, With(spent, s, n))
  BY <1>2 DEF TierInv, SaleIsRight
<1>5. /\ members' = members \cup {s} /\ rules' = rules
      /\ spent' = With(spent, s, n) /\ bought' = With(bought, s, n)
      /\ tier' = Assigned(s, r)
      /\ current' = (IF sale[t].fresh THEN {s} ELSE {})
      /\ sale' = Outdated(left)
  BY DEF Assign, With
<1>6. \A o \in Tills : left[o] # NoSale => left[o] = sale[o]
  BY <1>1
<1> HIDE DEF s, n, r, left
<1>7. /\ spent' \in [TierStores -> Nat] /\ bought' \in [TierStores -> Nat]
      /\ \A o \in TierStores : bought[o] <= bought'[o]
      /\ \A o \in TierStores : spent'[o] <= bought'[o]
  BY <1>1, <1>3, <1>5, WithTypes
<1>8. /\ sale' = [o \in Tills |-> sale'[o]]
      /\ \A o \in Tills : sale'[o] # NoSale => sale'[o] \in Sales
      /\ \A o \in Tills : SaleIsRight(o)'
  BY <1>5, <1>6, <1>7, OutdatedAreRight
<1>9. /\ tier' \in [TierStores -> TierRules \cup {NoRule}]
      /\ tier'[s] = r
      /\ \A o \in TierStores : o # s =>
           tier'[o] = IF r # NoRule /\ r.sync /\ o \in members THEN r ELSE tier[o]
  BY <1>1, <1>3, <1>5 DEF Assigned
<1>10. TierTypes'
  BY <1>1, <1>3, <1>5, <1>7, <1>8, <1>9 DEF TierTypes
<1>11. ASSUME NEW o \in TierStores PROVE EarnedBy(tier'[o], o, bought')
  <2>1. CASE o = s
    BY <2>1, <1>4, <1>5, <1>9
  <2>2. CASE o # s /\ tier'[o] = tier[o]
    BY <2>2, <1>1, <1>7, EarnedStays
  <2>3. CASE o # s /\ r # NoRule /\ r.sync /\ tier'[o] = r
    BY <2>3, <1>4, <1>5 DEF EarnedBy, ReachedBy
  <2> QED
    BY <1>9, <2>1, <2>2, <2>3
<1>12. ASSUME NEW o \in current' PROVE IsBest(tier'[o], rules', o, spent')
  <2>1. o = s /\ sale[t].fresh
    BY <1>5
  <2> QED
    BY <2>1, <1>4, <1>5, <1>9
<1> QED
  BY <1>7, <1>8, <1>10, <1>11, <1>12 DEF TierInv

LEMMA AbortStep ==
  ASSUME TierInv, NEW t \in Tills, Abort(t) PROVE TierInv'
<1>1. UNCHANGED <<rules, members, spent, tier, bought, current>> /\ sale' = [sale EXCEPT ![t] = NoSale]
  BY DEF Abort
<1>2. sale = [o \in Tills |-> sale[o]]
  BY DEF TierInv, TierTypes
<1>3. /\ sale'[t] = NoSale
      /\ \A o \in Tills : o # t => sale'[o] = sale[o]
      /\ sale' = [o \in Tills |-> sale'[o]]
  BY <1>1, <1>2
<1>4. TierTypes'
  BY <1>1, <1>3 DEF TierInv, TierTypes
<1>5. \A o \in Tills : SaleIsRight(o)'
  BY <1>1, <1>3 DEF TierInv, SaleIsRight
<1> QED
  BY <1>1, <1>4, <1>5 DEF TierInv

\* Every step keeps the invariant.
LEMMA TierInvStep == TierInv /\ [TierNext]_tierVars => TierInv'
<1> SUFFICES ASSUME TierInv, [TierNext]_tierVars PROVE TierInv'
  OBVIOUS
<1>1. CASE \E r \in TierRules : CreateRule(r)
  BY <1>1, CreateRuleStep
<1>2. CASE \E s \in TierStores : Age(s)
  BY <1>2, AgeStep
<1>3. CASE \E t \in Tills, s \in TierStores, amount \in 0 .. MaxSpend : CalculateTier(t, s, amount)
  BY <1>3, CalculateTierStep
<1>4. CASE \E t \in Tills : Assign(t)
  BY <1>4, AssignStep
<1>5. CASE \E t \in Tills : Abort(t)
  BY <1>5, AbortStep
<1>6. CASE UNCHANGED tierVars
  BY <1>6 DEF TierInv, TierTypes, SaleIsRight, tierVars
<1> QED
  BY <1>1, <1>2, <1>3, <1>4, <1>5, <1>6 DEF TierNext

-----------------------------------------------------------------------------
(* Tiers: theorems *)

\* The inductive invariant of tiers, for any number of sales and recalculations at once, any
\* number of stores and rules, and purchases of any amount.
THEOREM TierInvariant == TierSpec => []TierInv
  BY TierInvInit, TierInvStep, PTL DEF TierSpec

LEMMA TierInvImplies == TierInv => TierIsRight
<1> SUFFICES ASSUME TierInv PROVE TierIsRight
  OBVIOUS
<1>1. ASSUME NEW s \in TierStores PROVE Earned(s)
  BY DEF TierInv, EarnedBy, ReachedBy, Earned
<1>2. ASSUME NEW s \in current PROVE Best(s)
  <2>1. IsBest(tier[s], rules, s, spent)
    BY <1>2 DEF TierInv
  <2>2. \A r : r \in Applicable(s) <=> r \in rules /\ ReachedBy(r, s, spent)
    BY DEF Applicable, ReachedBy
  <2>3. Applicable(s) = {} <=> ~\E r \in rules : ReachedBy(r, s, spent)
    BY <2>2
  <2> QED
    BY <2>1, <2>2, <2>3 DEF Best, IsBest
<1> QED
  BY <1>1, <1>2 DEF TierIsRight

\* Whatever overlaps, the tier of a customer was earned by purchases, and where nothing has
\* changed since it was calculated it is the best one (findBestTierRule,
\* recalculateCustomerTierForStore).
THEOREM TiersAreRight == TierSpec => []TierIsRight
  BY TierInvariant, TierInvImplies, PTL

-----------------------------------------------------------------------------
(* Price groups: the inductive invariant *)

GroupIds == Groups \cup {NoGroup}
EveryPrice == Prices \cup {FirstPrice}

GroupRow == [active : BOOLEAN, price : EveryPrice, mismatches : Nat]

\* The fields of what is in flight, by its step
JobTyped(j) ==
  /\ j.step \in {"change", "remove", "create"} => j.item \in Goods
  /\ j.step \in {"change", "remove"} => j.old \in GroupIds
  /\ j.step = "change" => j.dto \in GoodsDtos
  /\ j.step = "create" => j.row \in GoodsRow
  /\ j.step \in {"group", "count", "store"} => j.group \in Groups
  /\ j.step = "group" => j.price \in EveryPrice /\ j.active \in BOOLEAN /\ j.recount \in SUBSET Groups
  /\ j.step \in {"recount", "count", "store"} => j.todo \in SUBSET Groups
  /\ j.step = "count" => j.price \in EveryPrice
  /\ j.step = "store" => j.count \in Nat

GroupTypes ==
  /\ goods \in [Goods -> GoodsRow \cup {NoGoods}]
  /\ groups \in [Groups -> GroupRow]
  /\ job = [w \in Workers |-> job[w]]
  /\ \A w \in Workers : job[w] # NoJob => JobTyped(job[w])
  /\ failures \in Nat
  /\ crossed \in BOOLEAN

\* The products of g that have another price, in a table of products
Differing(items, price, g) ==
  Cardinality({i \in Goods : items[i] # NoGoods /\ items[i].group = g /\ items[i].price # price})

\* The groups that will be recounted
Pending(j) ==
  IF j = NoJob THEN {}
  ELSE IF j.step = "recount" THEN j.todo
  ELSE IF j.step \in {"count", "store"} THEN j.todo \cup {j.group}
  ELSE {}

\* What was read is still so.
ReadIsTrue(j, items, rows) ==
  /\ j.step \in {"change", "remove"} => items[j.item] # NoGoods /\ j.old = items[j.item].group
  /\ j.step = "group" => j.recount = IF j.price # rows[j.group].price THEN {j.group} ELSE {}
  /\ j.step = "count" => j.price = rows[j.group].price
  /\ j.step = "store" => j.count = Differing(items, rows[j.group].price, j.group)

CountIsRight(g, items, rows) == rows[g].mismatches = Differing(items, rows[g].price, g)

\* No product vanishes, so that what is to be changed is still there.
ItemsExist ==
  \A w \in Workers : job[w] # NoJob /\ job[w].step \in {"change", "remove"} => goods[job[w].item] # NoGoods

Undisturbed == ~crossed /\ failures = 0

OneAtATime == \A w, o \in Workers : job[w] # NoJob /\ job[o] # NoJob => w = o

CountsAreRight ==
  \A g \in Groups :
    (\A w \in Workers : g \notin Pending(job[w])) => CountIsRight(g, goods, groups)

\* Undisturbed, requests come one after the other, and the number of every group that is
\* not about to be recounted is right; what the one at work has read is still so.
GroupInv ==
  /\ GroupTypes
  /\ ItemsExist
  /\ Undisturbed =>
       /\ OneAtATime
       /\ CountsAreRight
       /\ \A w \in Workers : job[w] # NoJob => ReadIsTrue(job[w], goods, groups)

\* Products can be counted.
LEMMA DifferingIsNat == ASSUME NEW items, NEW price, NEW g PROVE Differing(items, price, g) \in Nat
<1>1. IsFiniteSet(Goods)
  BY PriceGroupAssumption
<1>2. IsFiniteSet({i \in Goods : items[i] # NoGoods /\ items[i].group = g /\ items[i].price # price})
  BY <1>1, FS_Subset
<1> QED
  BY <1>2, FS_CardinalityType DEF Differing

\* A product that neither was nor is in the group does not move its number.
LEMMA DifferingStays ==
  ASSUME NEW items, NEW next, NEW price, NEW g,
         \A i \in Goods : \/ next[i] = items[i]
                          \/ /\ items[i] = NoGoods \/ items[i].group # g
                             /\ next[i] = NoGoods \/ next[i].group # g
                          \/ /\ items[i] # NoGoods /\ next[i] # NoGoods
                             /\ next[i].group = items[i].group /\ next[i].price = items[i].price
  PROVE  Differing(next, price, g) = Differing(items, price, g)
<1>1. {i \in Goods : items[i] # NoGoods /\ items[i].group = g /\ items[i].price # price}
        = {i \in Goods : next[i] # NoGoods /\ next[i].group = g /\ next[i].price # price}
  OBVIOUS
<1> QED
  BY <1>1 DEF Differing

LEMMA GroupInvInit == GroupInit => GroupInv
<1> SUFFICES ASSUME GroupInit PROVE GroupInv
  OBVIOUS
<1>1. goods \in [Goods -> GoodsRow \cup {NoGoods}]
  BY PriceGroupAssumption DEF GroupInit
<1>2. \A g \in Groups : groups[g] = [active |-> TRUE, price |-> FirstPrice, mismatches |-> 0]
  BY DEF GroupInit
<1>3. GroupTypes
  BY <1>1 DEF GroupInit, GroupTypes, GroupRow, EveryPrice
<1>4. ASSUME NEW g \in Groups PROVE CountIsRight(g, goods, groups)
  <2>1. \A i \in Goods : goods[i] # NoGoods /\ goods[i].group = g => goods[i].price = FirstPrice
    BY PriceGroupAssumption DEF GroupInit
  <2>2. {i \in Goods : goods[i] # NoGoods /\ goods[i].group = g /\ goods[i].price # FirstPrice} = {}
    BY <2>1
  <2>3. Differing(goods, FirstPrice, g) = 0
    BY <2>2, FS_EmptySet DEF Differing
  <2> QED
    BY <1>2, <2>3 DEF CountIsRight
<1>5. OneAtATime /\ \A w \in Workers : job[w] = NoJob
  BY DEF GroupInit, OneAtATime
<1> QED
  BY <1>3, <1>4, <1>5 DEF GroupInv, CountsAreRight, ItemsExist

\* While one is at work, the others are not.
LEMMA OthersRest ==
  ASSUME GroupInv, Undisturbed, NEW w \in Workers, job[w] # NoJob
  PROVE  /\ \A o \in Workers : o # w => job[o] = NoJob
         /\ \A g \in Groups \ Pending(job[w]) : CountIsRight(g, goods, groups)
<1>1. \A o \in Workers : o # w => job[o] = NoJob
  BY DEF GroupInv, OneAtATime
<1>2. ASSUME NEW g \in Groups \ Pending(job[w]) PROVE CountIsRight(g, goods, groups)
  <2>1. \A o \in Workers : g \notin Pending(job[o])
    BY <1>1, <1>2 DEF Pending
  <2> QED
    BY <2>1 DEF GroupInv, CountsAreRight
<1> QED
  BY <1>1, <1>2

\* Beginning something
LEMMA TakeStep ==
  ASSUME GroupInv, NEW w \in Workers, Take(w, job'[w]),
         job'[w] # NoJob => JobTyped(job'[w]) /\ ReadIsTrue(job'[w], goods, groups)
  PROVE  GroupInv'
<1>1. /\ job[w] = NoJob
      /\ job' = [job EXCEPT ![w] = job'[w]]
      /\ crossed' = (crossed \/ \E o \in Workers \ {w} : job[o] # NoJob)
      /\ UNCHANGED <<goods, groups, changes, failures>>
  BY Zenon DEF Take
<1>2. job = [o \in Workers |-> job[o]]
  BY DEF GroupInv, GroupTypes
<1>3. \A o \in Workers : o # w => job'[o] = job[o]
  BY <1>1, <1>2
<1>4. job' = [o \in Workers |-> job'[o]]
  BY <1>1, <1>2
<1>5. GroupTypes'
  BY <1>1, <1>3, <1>4 DEF GroupInv, GroupTypes
<1>6. ASSUME Undisturbed'
      PROVE  /\ OneAtATime'
             /\ CountsAreRight'
             /\ \A o \in Workers : job'[o] # NoJob => ReadIsTrue(job'[o], goods', groups')
  <2>1. Undisturbed /\ \A o \in Workers : job[o] = NoJob
    BY <1>1, <1>6 DEF Undisturbed
  <2>2. \A o \in Workers : o # w => job'[o] = NoJob
    BY <1>3, <2>1
  <2>3. OneAtATime'
    BY <2>2 DEF OneAtATime
  <2>4. \A g \in Groups : CountIsRight(g, goods, groups)
    BY <2>1 DEF GroupInv, CountsAreRight, Pending
  <2>5. CountsAreRight'
    BY <1>1, <2>4 DEF CountsAreRight
  <2> QED
    BY <1>1, <2>2, <2>3, <2>5
<1>7. ItemsExist'
  BY <1>1, <1>3 DEF GroupInv, ItemsExist, ReadIsTrue
<1> QED
  BY <1>5, <1>6, <1>7 DEF GroupInv

\* Going on with it, also to its end
LEMMA ProceedStep ==
  ASSUME GroupInv, NEW w \in Workers, job[w] # NoJob,
         job' = [job EXCEPT ![w] = job'[w]],
         UNCHANGED <<failures, crossed>>,
         goods' \in [Goods -> GoodsRow \cup {NoGoods}], groups' \in [Groups -> GroupRow],
         \A i \in Goods : goods[i] # NoGoods => goods'[i] # NoGoods,
         job'[w] # NoJob => JobTyped(job'[w]) /\ job'[w].step \notin {"change", "remove"},
         Undisturbed =>
           /\ \A g \in Groups \ Pending(job'[w]) : CountIsRight(g, goods', groups')
           /\ job'[w] # NoJob => ReadIsTrue(job'[w], goods', groups')
  PROVE  GroupInv'
<1>1. job = [o \in Workers |-> job[o]]
  BY DEF GroupInv, GroupTypes
<1>2. \A o \in Workers : o # w => job'[o] = job[o]
  BY <1>1
<1>3. job' = [o \in Workers |-> job'[o]]
  BY <1>1
<1>4. GroupTypes'
  BY <1>2, <1>3 DEF GroupInv, GroupTypes
<1>5. ASSUME Undisturbed'
      PROVE  /\ OneAtATime'
             /\ CountsAreRight'
             /\ \A o \in Workers : job'[o] # NoJob => ReadIsTrue(job'[o], goods', groups')
  <2>1. Undisturbed
    BY <1>5 DEF Undisturbed
  <2>2. \A o \in Workers : o # w => job'[o] = NoJob
    BY <1>2, <2>1, OthersRest
  <2>3. OneAtATime'
    BY <2>2 DEF OneAtATime
  <2>4. CountsAreRight'
    BY <2>1 DEF CountsAreRight
  <2> QED
    BY <2>1, <2>2, <2>3, <2>4
<1>6. ItemsExist'
  BY <1>2 DEF GroupInv, GroupTypes, JobTyped, ItemsExist
<1> QED
  BY <1>4, <1>5, <1>6 DEF GroupInv

\* A failure or a restart, after which nothing is promised
LEMMA InterruptedStep ==
  ASSUME GroupInv, Interrupted, job' = [w \in Workers |-> job'[w]],
         \A w \in Workers : job'[w] # NoJob =>
           JobTyped(job'[w]) /\ (job'[w] = job[w] \/ job'[w].step \notin {"change", "remove"})
  PROVE  GroupInv'
<1>1. failures \in Nat /\ failures' = failures + 1 /\ UNCHANGED <<goods, groups, changes, crossed>>
  BY DEF GroupInv, GroupTypes, Interrupted
<1>2. GroupTypes'
  BY <1>1 DEF GroupInv, GroupTypes
<1>3. ~Undisturbed'
  BY <1>1 DEF Undisturbed
<1>4. ItemsExist'
  BY <1>1 DEF GroupInv, ItemsExist
<1> QED
  BY <1>2, <1>3, <1>4 DEF GroupInv

-----------------------------------------------------------------------------
(* Price groups: requests are asked for *)

\* A product that is updated is a product.
LEMMA UpdatedRow ==
  ASSUME NEW row \in GoodsRow, NEW dto \in GoodsDtos
  PROVE  Updated(row, dto) \in GoodsRow
<1> DEFINE u == Updated(row, dto)
<1>1. row.group \in GroupIds /\ row.price \in EveryPrice /\ row.active \in BOOLEAN
      /\ DOMAIN row = {"group", "price", "active"}
  BY DEF GoodsRow, GroupIds, EveryPrice
<1>2. /\ "group" \in DOMAIN dto => dto["group"] \in GroupIds
      /\ "price" \in DOMAIN dto => dto["price"] \in EveryPrice
      /\ "active" \notin DOMAIN dto
  BY PriceGroupAssumption DEF GroupIds, EveryPrice
<1>3. /\ u = [field \in {"group", "price", "active"} |-> u[field]]
      /\ u["group"] \in GroupIds /\ u["price"] \in EveryPrice /\ u["active"] \in BOOLEAN
  BY <1>1, <1>2 DEF Updated
<1> QED
  BY <1>3 DEF GoodsRow, GroupIds, EveryPrice

\* What is left to recount, or nothing
LEMMA ToRecountTypes ==
  ASSUME NEW todo \in SUBSET Groups, NEW items, NEW rows
  PROVE  /\ ToRecount(todo) # NoJob => /\ JobTyped(ToRecount(todo))
                                        /\ ReadIsTrue(ToRecount(todo), items, rows)
                                        /\ ToRecount(todo).step = "recount"
         /\ Pending(ToRecount(todo)) = todo
<1>1. CASE todo = {}
  BY <1>1 DEF ToRecount, Pending
<1>2. CASE todo # {}
  <2> DEFINE j == [step |-> "recount", todo |-> todo]
  <2>1. ToRecount(todo) = j /\ j.step = "recount" /\ j.todo = todo
    BY <1>2 DEF ToRecount
  <2>2. j # NoJob
    BY PriceGroupAssumption DEF Recounting
  <2> HIDE DEF j
  <2> QED
    BY <2>1, <2>2 DEF Pending, JobTyped, ReadIsTrue
<1> QED
  BY <1>1, <1>2

\* The types, for the steps below
LEMMA GroupFacts ==
  ASSUME GroupInv
  PROVE  /\ goods \in [Goods -> GoodsRow \cup {NoGoods}]
         /\ groups \in [Groups -> GroupRow]
         /\ job = [w \in Workers |-> job[w]]
         /\ \A w \in Workers : job[w] # NoJob => JobTyped(job[w])
  BY DEF GroupInv, GroupTypes

LEMMA AskChangeStep ==
  ASSUME GroupInv, NEW w \in Workers, NEW i \in Goods, NEW dto \in GoodsDtos, AskChange(w, i, dto)
  PROVE  GroupInv'
<1> DEFINE j == [step |-> "change", item |-> i, dto |-> dto, old |-> goods[i].group]
<1>1. goods[i] # NoGoods /\ Take(w, j)
  BY DEF AskChange
<1>2. job'[w] = j
  BY <1>1, GroupFacts DEF Take
<1>3. goods[i].group \in GroupIds
  BY <1>1, GroupFacts DEF GoodsRow, GroupIds
<1>4. JobTyped(j) /\ ReadIsTrue(j, goods, groups)
  BY <1>1, <1>3 DEF JobTyped, ReadIsTrue
<1> HIDE DEF j
<1>5. Take(w, job'[w])
  BY <1>1, <1>2
<1> QED
  BY <1>2, <1>4, <1>5, TakeStep

LEMMA AskRemovalStep ==
  ASSUME GroupInv, NEW w \in Workers, NEW i \in Goods, AskRemoval(w, i)
  PROVE  GroupInv'
<1> DEFINE j == [step |-> "remove", item |-> i, old |-> goods[i].group]
<1>1. goods[i] # NoGoods /\ Take(w, j)
  BY DEF AskRemoval
<1>2. job'[w] = j
  BY <1>1, GroupFacts DEF Take
<1>3. goods[i].group \in GroupIds
  BY <1>1, GroupFacts DEF GoodsRow, GroupIds
<1>4. JobTyped(j) /\ ReadIsTrue(j, goods, groups)
  BY <1>1, <1>3 DEF JobTyped, ReadIsTrue
<1> HIDE DEF j
<1>5. Take(w, job'[w])
  BY <1>1, <1>2
<1> QED
  BY <1>2, <1>4, <1>5, TakeStep

LEMMA AskCreateStep ==
  ASSUME GroupInv, NEW w \in Workers, NEW i \in Goods, NEW row \in GoodsRow, AskCreate(w, i, row)
  PROVE  GroupInv'
<1> DEFINE j == [step |-> "create", item |-> i, row |-> row]
<1>1. Take(w, j)
  BY DEF AskCreate
<1>2. job'[w] = j
  BY <1>1, GroupFacts DEF Take
<1>3. JobTyped(j) /\ ReadIsTrue(j, goods, groups)
  BY DEF JobTyped, ReadIsTrue
<1> HIDE DEF j
<1>4. Take(w, job'[w])
  BY <1>1, <1>2
<1> QED
  BY <1>2, <1>3, <1>4, TakeStep

LEMMA AskGroupChangeStep ==
  ASSUME GroupInv, NEW w \in Workers, NEW g \in Groups, NEW price \in Prices, NEW active \in BOOLEAN,
         AskGroupChange(w, g, price, active)
  PROVE  GroupInv'
<1> DEFINE j == [step |-> "group", group |-> g, price |-> price, active |-> active,
                 recount |-> IF price # groups[g].price THEN {g} ELSE {}]
<1>1. Take(w, j)
  BY DEF AskGroupChange
<1>2. job'[w] = j
  BY <1>1, GroupFacts DEF Take
<1>3. JobTyped(j) /\ ReadIsTrue(j, goods, groups)
  BY DEF JobTyped, ReadIsTrue, EveryPrice
<1> HIDE DEF j
<1>4. Take(w, job'[w])
  BY <1>1, <1>2
<1> QED
  BY <1>2, <1>3, <1>4, TakeStep

LEMMA RefreshStep ==
  ASSUME GroupInv, Refresh PROVE GroupInv'
<1> DEFINE j == ToRecount(RefreshedGroups)
<1>1. Timer \in Workers /\ RefreshedGroups \in SUBSET Groups
  BY DEF Workers, RefreshedGroups
<1>2. Take(Timer, j)
  BY DEF Refresh
<1>3. job'[Timer] = j
  BY <1>1, <1>2, GroupFacts DEF Take
<1>4. j # NoJob => JobTyped(j) /\ ReadIsTrue(j, goods, groups)
  BY <1>1, ToRecountTypes
<1> HIDE DEF j
<1>5. Take(Timer, job'[Timer])
  BY <1>2, <1>3
<1> QED
  BY <1>1, <1>3, <1>4, <1>5, TakeStep

\* A group that is deactivated, whoever is at work
LEMMA DeletePriceGroupStep ==
  ASSUME GroupInv, NEW w \in Workers, NEW g \in Groups, DeletePriceGroup(w, g)
  PROVE  GroupInv'
<1>1. /\ job[w] = NoJob
      /\ groups' = [groups EXCEPT ![g].active = FALSE]
      /\ job' = [job EXCEPT ![w] = ToRecount({})]
      /\ UNCHANGED <<goods, failures, crossed>>
  BY DEF DeletePriceGroup, Changed
<1>2. job' = job
  <2>1. ToRecount({}) = NoJob
    BY DEF ToRecount
  <2>2. \A o \in Workers : job'[o] = job[o]
    BY <1>1, <2>1, GroupFacts
  <2>3. job' = [o \in Workers |-> job'[o]] /\ job = [o \in Workers |-> job[o]]
    BY <1>1, GroupFacts
  <2> QED
    BY <2>2, <2>3
<1>3. \A h \in Groups : /\ groups'[h] \in GroupRow
                        /\ groups'[h].price = groups[h].price
                        /\ groups'[h].mismatches = groups[h].mismatches
  BY <1>1, GroupFacts DEF GroupRow
<1>4. groups' \in [Groups -> GroupRow]
  BY <1>1, <1>3, GroupFacts
<1>5. GroupTypes'
  BY <1>1, <1>2, <1>4 DEF GroupInv, GroupTypes
<1>6. ASSUME Undisturbed'
      PROVE  /\ OneAtATime'
             /\ CountsAreRight'
             /\ \A o \in Workers : job'[o] # NoJob => ReadIsTrue(job'[o], goods', groups')
  <2>1. Undisturbed /\ OneAtATime' /\ CountsAreRight
    BY <1>1, <1>2, <1>6 DEF Undisturbed, GroupInv, OneAtATime
  <2>2. ASSUME NEW h \in Groups, CountIsRight(h, goods, groups) PROVE CountIsRight(h, goods', groups')
    BY <1>1, <1>3, <2>2 DEF CountIsRight
  <2>3. CountsAreRight'
    BY <1>2, <2>1, <2>2 DEF CountsAreRight
  <2>4. ASSUME NEW o \in Workers, job'[o] # NoJob PROVE ReadIsTrue(job'[o], goods', groups')
    <3>1. JobTyped(job[o]) /\ ReadIsTrue(job[o], goods, groups)
      BY <1>2, <2>1, <2>4, GroupFacts DEF GroupInv
    <3> QED
      BY <1>1, <1>2, <1>3, <3>1 DEF ReadIsTrue, JobTyped
  <2> QED
    BY <2>1, <2>3, <2>4
<1>7. ItemsExist'
  BY <1>1, <1>2 DEF GroupInv, ItemsExist
<1> QED
  BY <1>5, <1>6, <1>7 DEF GroupInv

-----------------------------------------------------------------------------
(* Price groups: products and groups are written *)

\* A product is written: the groups it was in and is in now are recounted.
LEMMA WrittenStep ==
  ASSUME GroupInv, NEW w \in Workers, job[w] # NoJob, Pending(job[w]) = {},
         NEW i \in Goods, NEW row \in GoodsRow, NEW todo \in SUBSET Groups,
         goods' = [goods EXCEPT ![i] = row], UNCHANGED groups, Changed(w, todo),
         Undisturbed => \/ GroupsToRecount(goods[i].group, row.group) \cap Groups \subseteq todo
                        \/ goods[i] = NoGoods /\ {row.group} \cap Groups \subseteq todo
                        \/ /\ goods[i] # NoGoods
                           /\ row.group = goods[i].group /\ row.price = goods[i].price
  PROVE  GroupInv'
<1>1. /\ job' = [job EXCEPT ![w] = ToRecount(todo)]
      /\ UNCHANGED <<failures, crossed>>
  BY DEF Changed
<1>2. job'[w] = ToRecount(todo)
  BY <1>1, GroupFacts
<1>3. goods' \in [Goods -> GoodsRow \cup {NoGoods}] /\ groups' \in [Groups -> GroupRow]
  BY GroupFacts
<1>4. /\ job'[w] # NoJob => JobTyped(job'[w]) /\ ReadIsTrue(job'[w], goods', groups') /\ job'[w].step = "recount"
      /\ Pending(job'[w]) = todo
  BY <1>2, ToRecountTypes
<1>5. ASSUME Undisturbed, NEW g \in Groups \ todo PROVE CountIsRight(g, goods', groups')
  <2>1. CountIsRight(g, goods, groups)
    BY <1>5, OthersRest
  <2>2. \A o \in Goods : o # i => goods'[o] = goods[o]
    BY GroupFacts
  <2>3. goods'[i] = row
    BY GroupFacts
  <2> DEFINE items == goods
             next == goods'
             price == groups[g].price
  <2>4. \A o \in Goods : \/ next[o] = items[o]
                         \/ /\ items[o] = NoGoods \/ items[o].group # g
                            /\ next[o] = NoGoods \/ next[o].group # g
                         \/ /\ items[o] # NoGoods /\ next[o] # NoGoods
                            /\ next[o].group = items[o].group /\ next[o].price = items[o].price
    BY <1>5, <2>2, <2>3, PriceGroupAssumption DEF GroupsToRecount
  <2>5. Differing(next, price, g) = Differing(items, price, g)
    <3> HIDE DEF items, next, price
    <3> QED
      BY <2>4, DifferingStays
  <2> QED
    BY <2>1, <2>5 DEF CountIsRight
<1>6. job' = [job EXCEPT ![w] = job'[w]]
  BY <1>1, <1>2
<1>7. \A o \in Goods : goods[o] # NoGoods => goods'[o] # NoGoods
  BY GroupFacts, PriceGroupAssumption
<1> QED
  BY <1>1, <1>3, <1>4, <1>5, <1>6, <1>7, ProceedStep

LEMMA ChangeProductStep ==
  ASSUME GroupInv, NEW w \in Workers, ChangeProduct(w) PROVE GroupInv'
<1> DEFINE i == job[w].item
           row == Updated(goods[i], job[w].dto)
           todo == GroupsToRecount(job[w].old, row.group)
<1>1. /\ job[w] # NoJob /\ job[w].step = "change"
      /\ goods' = [goods EXCEPT ![i] = row] /\ UNCHANGED groups /\ Changed(w, todo)
  BY DEF ChangeProduct, Doing
<1>2. i \in Goods /\ job[w].dto \in GoodsDtos /\ job[w].old \in GroupIds /\ Pending(job[w]) = {}
  BY <1>1, GroupFacts DEF JobTyped, Pending
<1>3. Undisturbed => goods[i] # NoGoods /\ job[w].old = goods[i].group
  BY <1>1 DEF GroupInv, ReadIsTrue
<1>4. goods[i] # NoGoods
  BY <1>1 DEF GroupInv, ItemsExist
<1>5. row \in GoodsRow
  BY <1>2, <1>4, GroupFacts, UpdatedRow
<1>6. row.group \in GroupIds
  BY <1>5 DEF GoodsRow, GroupIds
<1>7. todo \in SUBSET Groups
  BY <1>2, <1>6 DEF GroupsToRecount, GroupIds
<1>8. Undisturbed => GroupsToRecount(goods[i].group, row.group) \cap Groups \subseteq todo
  BY <1>3
<1> HIDE DEF row, todo, i
<1> QED
  BY <1>1, <1>2, <1>5, <1>7, <1>8, WrittenStep

LEMMA RemoveProductStep ==
  ASSUME GroupInv, NEW w \in Workers, RemoveProduct(w) PROVE GroupInv'
<1> DEFINE i == job[w].item
           row == [goods[i] EXCEPT !.active = FALSE]
           todo == {job[w].old} \ {NoGroup}
<1>1. /\ job[w] # NoJob /\ job[w].step = "remove"
      /\ goods' = [goods EXCEPT ![i] = row] /\ UNCHANGED groups /\ Changed(w, todo)
  BY DEF RemoveProduct, Doing
<1>2. i \in Goods /\ job[w].old \in GroupIds /\ Pending(job[w]) = {}
  BY <1>1, GroupFacts DEF JobTyped, Pending
<1>3. goods[i] # NoGoods
  BY <1>1 DEF GroupInv, ItemsExist
<1>4. row \in GoodsRow /\ row.group = goods[i].group /\ row.price = goods[i].price
  BY <1>2, <1>3, GroupFacts DEF GoodsRow
<1>5. todo \in SUBSET Groups
  BY <1>2 DEF GroupIds
<1> HIDE DEF row, todo, i
<1> QED
  BY <1>1, <1>2, <1>3, <1>4, <1>5, WrittenStep

LEMMA CreateProductStep ==
  ASSUME GroupInv, NEW w \in Workers, CreateProduct(w) PROVE GroupInv'
<1> DEFINE i == job[w].item
           row == job[w].row
           todo == {row.group} \ {NoGroup}
<1>1. /\ job[w] # NoJob /\ job[w].step = "create" /\ goods[i] = NoGoods
      /\ goods' = [goods EXCEPT ![i] = row] /\ UNCHANGED groups /\ Changed(w, todo)
  BY DEF CreateProduct, Doing
<1>2. i \in Goods /\ row \in GoodsRow /\ Pending(job[w]) = {}
  BY <1>1, GroupFacts DEF JobTyped, Pending
<1>3. todo \in SUBSET Groups
  BY <1>2 DEF GoodsRow
<1>4. {row.group} \cap Groups \subseteq todo
  BY PriceGroupAssumption
<1> HIDE DEF row, todo, i
<1> QED
  BY <1>1, <1>2, <1>3, <1>4, WrittenStep

LEMMA ChangeGroupStep ==
  ASSUME GroupInv, NEW w \in Workers, ChangeGroup(w) PROVE GroupInv'
<1> DEFINE g == job[w].group
           todo == job[w].recount
<1>1. /\ job[w] # NoJob /\ job[w].step = "group"
      /\ groups' = [groups EXCEPT ![g].price = job[w].price, ![g].active = job[w].active]
      /\ UNCHANGED <<goods, failures, crossed>>
      /\ job' = [job EXCEPT ![w] = ToRecount(todo)]
  BY DEF ChangeGroup, Doing, Changed
<1>2. /\ g \in Groups /\ todo \in SUBSET Groups /\ Pending(job[w]) = {}
      /\ job[w].price \in EveryPrice /\ job[w].active \in BOOLEAN
  BY <1>1, GroupFacts DEF JobTyped, Pending
<1>3. Undisturbed => todo = IF job[w].price # groups[g].price THEN {g} ELSE {}
  BY <1>1 DEF GroupInv, ReadIsTrue
<1>4. job'[w] = ToRecount(todo)
  BY <1>1, GroupFacts
<1>5. /\ job'[w] # NoJob => JobTyped(job'[w]) /\ ReadIsTrue(job'[w], goods', groups') /\ job'[w].step = "recount"
      /\ Pending(job'[w]) = todo
  BY <1>2, <1>4, ToRecountTypes
<1>6. \A h \in Groups : /\ groups'[h] \in GroupRow
                        /\ groups'[h].price = IF h = g THEN job[w].price ELSE groups[h].price
                        /\ groups'[h].mismatches = groups[h].mismatches
  BY <1>1, <1>2, GroupFacts DEF GroupRow
<1>7. groups' \in [Groups -> GroupRow]
  BY <1>1, <1>6, GroupFacts
<1>8. ASSUME Undisturbed, NEW h \in Groups \ todo PROVE CountIsRight(h, goods', groups')
  <2>1. CountIsRight(h, goods, groups)
    BY <1>1, <1>2, <1>8, OthersRest
  <2>2. groups'[h].price = groups[h].price
    BY <1>3, <1>6, <1>8
  <2> QED
    BY <1>1, <1>6, <2>1, <2>2 DEF CountIsRight
<1>9. job' = [job EXCEPT ![w] = job'[w]]
  BY <1>1, <1>4
<1>10. goods' \in [Goods -> GoodsRow \cup {NoGoods}]
  BY <1>1, GroupFacts
<1> HIDE DEF todo, g
<1> QED
  BY <1>1, <1>5, <1>7, <1>8, <1>9, <1>10, ProceedStep

-----------------------------------------------------------------------------
(* Price groups: groups are recounted *)

LEMMA ReadDefaultStep ==
  ASSUME GroupInv, NEW w \in Workers, ReadDefault(w) PROVE GroupInv'
<1>1. PICK g \in job[w].todo :
        job' = [job EXCEPT ![w] =
          [step |-> "count", group |-> g, price |-> groups[g].price, todo |-> job[w].todo \ {g}]]
  BY DEF ReadDefault, Step
<1> DEFINE j == [step |-> "count", group |-> g, price |-> groups[g].price, todo |-> job[w].todo \ {g}]
<1>2. /\ job[w] # NoJob /\ job[w].step = "recount"
      /\ UNCHANGED <<goods, groups, failures, crossed>>
  BY DEF ReadDefault, Doing, Step
<1>3. job[w].todo \in SUBSET Groups /\ g \in Groups
  BY <1>2, GroupFacts DEF JobTyped
<1>4. job'[w] = j
  BY <1>1, GroupFacts
<1>5. groups[g].price \in EveryPrice
  BY <1>3, GroupFacts DEF GroupRow
<1>6. JobTyped(j) /\ ReadIsTrue(j, goods, groups) /\ j.step = "count"
  BY <1>3, <1>5 DEF JobTyped, ReadIsTrue
<1>7. Pending(job[w]) = job[w].todo
  BY <1>2 DEF Pending
<1>8. j # NoJob
  BY <1>3, <1>5, PriceGroupAssumption DEF Recounting, EveryPrice
<1>9. Pending(j) = job[w].todo
  BY <1>8 DEF Pending
<1>10. Undisturbed => \A h \in Groups \ Pending(j) : CountIsRight(h, goods', groups')
  BY <1>2, <1>7, <1>9, OthersRest
<1>11. job' = [job EXCEPT ![w] = job'[w]]
  BY <1>1, <1>4
<1>12. goods' \in [Goods -> GoodsRow \cup {NoGoods}] /\ groups' \in [Groups -> GroupRow]
  BY <1>2, GroupFacts
<1> HIDE DEF j
<1> QED
  BY <1>2, <1>4, <1>6, <1>10, <1>11, <1>12, ProceedStep

LEMMA CountProductsStep ==
  ASSUME GroupInv, NEW w \in Workers, CountProducts(w) PROVE GroupInv'
<1> DEFINE count == Differing(goods, job[w].price, job[w].group)
           j == [step |-> "store", group |-> job[w].group, todo |-> job[w].todo, count |-> count]
<1>1. job' = [job EXCEPT ![w] = j]
  BY DEF CountProducts, Step, Differing
<1>2. /\ job[w] # NoJob /\ job[w].step = "count"
      /\ UNCHANGED <<goods, groups, failures, crossed>>
  BY DEF CountProducts, Doing, Step
<1>3. job[w].todo \in SUBSET Groups /\ job[w].group \in Groups
  BY <1>2, GroupFacts DEF JobTyped
<1>4. job'[w] = j
  BY <1>1, GroupFacts
<1>5. count \in Nat
  BY DifferingIsNat
<1>6. Undisturbed => job[w].price = groups[job[w].group].price
  BY <1>2 DEF GroupInv, ReadIsTrue
<1>7. j \in Recounting
  <2> HIDE DEF count
  <2> QED
    BY <1>3, <1>5 DEF Recounting
<1>8. j # NoJob
  BY <1>7, PriceGroupAssumption
<1>9. j.step = "store" /\ j.group = job[w].group /\ j.todo = job[w].todo /\ j.count = count
  OBVIOUS
<1> HIDE DEF j
<1>10. JobTyped(j)
  BY <1>3, <1>5, <1>9 DEF JobTyped
<1>11. Undisturbed => ReadIsTrue(j, goods, groups)
  BY <1>6, <1>9 DEF ReadIsTrue
<1>12. Pending(j) = Pending(job[w])
  BY <1>2, <1>8, <1>9 DEF Pending
<1>13. Undisturbed => \A h \in Groups \ Pending(j) : CountIsRight(h, goods', groups')
  BY <1>2, <1>12, OthersRest
<1>14. job' = [job EXCEPT ![w] = job'[w]]
  BY <1>1, <1>4
<1>15. goods' \in [Goods -> GoodsRow \cup {NoGoods}] /\ groups' \in [Groups -> GroupRow]
  BY <1>2, GroupFacts
<1> QED
  BY <1>2, <1>4, <1>9, <1>10, <1>11, <1>13, <1>14, <1>15, ProceedStep

LEMMA StoreCountStep ==
  ASSUME GroupInv, NEW w \in Workers, StoreCount(w) PROVE GroupInv'
<1> DEFINE g == job[w].group
           todo == job[w].todo
           count == job[w].count
<1>1. /\ job[w] # NoJob /\ job[w].step = "store"
      /\ groups' = [groups EXCEPT ![g].mismatches = count]
      /\ UNCHANGED <<goods, failures, crossed>>
      /\ job' = [job EXCEPT ![w] = ToRecount(todo)]
  BY DEF StoreCount, Doing, Step
<1>2. g \in Groups /\ todo \in SUBSET Groups /\ count \in Nat
  BY <1>1, GroupFacts DEF JobTyped
<1>3. Undisturbed => count = Differing(goods, groups[g].price, g)
  BY <1>1 DEF GroupInv, ReadIsTrue
<1>4. job'[w] = ToRecount(todo)
  BY <1>1, GroupFacts
<1>5. /\ job'[w] # NoJob => JobTyped(job'[w]) /\ ReadIsTrue(job'[w], goods', groups') /\ job'[w].step = "recount"
      /\ Pending(job'[w]) = todo
  BY <1>2, <1>4, ToRecountTypes
<1>6. Pending(job[w]) = todo \cup {g}
  BY <1>1 DEF Pending
<1>7. \A h \in Groups : /\ groups'[h] \in GroupRow
                        /\ groups'[h].price = groups[h].price
                        /\ groups'[h].mismatches = IF h = g THEN count ELSE groups[h].mismatches
  BY <1>1, <1>2, GroupFacts DEF GroupRow
<1>8. groups' \in [Groups -> GroupRow]
  BY <1>1, <1>7, GroupFacts
<1>9. ASSUME Undisturbed, NEW h \in Groups \ todo PROVE CountIsRight(h, goods', groups')
  <2>1. CASE h = g
    BY <1>1, <1>2, <1>3, <1>7, <1>9, <2>1 DEF CountIsRight
  <2>2. CASE h # g
    <3>1. CountIsRight(h, goods, groups)
      BY <1>1, <1>6, <1>9, <2>2, OthersRest
    <3> QED
      BY <1>1, <1>7, <2>2, <3>1 DEF CountIsRight
  <2> QED
    BY <2>1, <2>2
<1>10. job' = [job EXCEPT ![w] = job'[w]]
  BY <1>1, <1>4
<1>11. goods' \in [Goods -> GoodsRow \cup {NoGoods}]
  BY <1>1, GroupFacts
<1> HIDE DEF todo, g, count
<1> QED
  BY <1>1, <1>5, <1>8, <1>9, <1>10, <1>11, ProceedStep

\* What is refused has changed nothing, so nothing is left to recount.
LEMMA RefuseStep ==
  ASSUME GroupInv, NEW w \in Workers, Refuse(w) PROVE GroupInv'
<1>1. /\ job[w] # NoJob /\ job[w].step \notin {"recount", "count", "store"}
      /\ job' = [job EXCEPT ![w] = NoJob]
      /\ UNCHANGED <<goods, groups, failures, crossed>>
  BY DEF Refuse, Doing
<1>2. job'[w] = NoJob
  BY <1>1, GroupFacts
<1>3. Pending(job[w]) = {} /\ Pending(job'[w]) = {}
  BY <1>1, <1>2 DEF Pending
<1>4. Undisturbed => \A h \in Groups : CountIsRight(h, goods', groups')
  BY <1>1, <1>3, OthersRest
<1>5. goods' \in [Goods -> GoodsRow \cup {NoGoods}] /\ groups' \in [Groups -> GroupRow]
  BY <1>1, GroupFacts
<1>6. job' = [job EXCEPT ![w] = job'[w]]
  BY <1>1, <1>2
<1> QED
  BY <1>1, <1>2, <1>4, <1>5, <1>6, ProceedStep

LEMMA SkipRecountStep ==
  ASSUME GroupInv, NEW w \in Workers, SkipRecount(w) PROVE GroupInv'
<1>1. /\ job[w] # NoJob /\ job[w].step \in {"count", "store"} /\ Interrupted
      /\ job' = [job EXCEPT ![w] = ToRecount(job[w].todo)]
  BY DEF SkipRecount, Doing
<1>2. job[w].todo \in SUBSET Groups
  BY <1>1, GroupFacts DEF JobTyped
<1>3. job' = [o \in Workers |-> job'[o]]
  BY <1>1, GroupFacts
<1>4. \A o \in Workers : job'[o] = IF o = w THEN ToRecount(job[w].todo) ELSE job[o]
  BY <1>1, GroupFacts
<1>5. ToRecount(job[w].todo) # NoJob =>
        JobTyped(ToRecount(job[w].todo)) /\ ToRecount(job[w].todo).step \notin {"change", "remove"}
  BY <1>2, ToRecountTypes
<1>6. ASSUME NEW o \in Workers, job'[o] # NoJob
      PROVE  JobTyped(job'[o]) /\ (job'[o] = job[o] \/ job'[o].step \notin {"change", "remove"})
  BY <1>4, <1>5, <1>6, GroupFacts
<1> QED
  BY <1>1, <1>3, <1>6, InterruptedStep

LEMMA RestartStep == ASSUME GroupInv, Restart PROVE GroupInv'
<1>1. Interrupted /\ job' = [w \in Workers |-> NoJob]
  BY DEF Restart
<1>2. job' = [w \in Workers |-> job'[w]] /\ \A w \in Workers : job'[w] = NoJob
  BY <1>1
<1> QED
  BY <1>1, <1>2, InterruptedStep

-----------------------------------------------------------------------------
(* Price groups: theorems *)

LEMMA AskGroupsStep ==
  ASSUME GroupInv, NEW w \in Workers, AskGroups(w) PROVE GroupInv'
<1>1. ASSUME NEW i \in Goods, NEW dto \in GoodsDtos, AskChange(w, i, dto) PROVE GroupInv'
  BY <1>1, AskChangeStep
<1>2. ASSUME NEW i \in Goods, AskRemoval(w, i) PROVE GroupInv'
  BY <1>2, AskRemovalStep
<1>3. ASSUME NEW i \in Goods, NEW g \in Groups \cup {NoGroup}, NEW p \in Prices,
             AskCreate(w, i, [group |-> g, price |-> p, active |-> TRUE])
      PROVE  GroupInv'
  <2>1. [group |-> g, price |-> p, active |-> TRUE] \in GoodsRow
    BY DEF GoodsRow
  <2> QED
    BY <1>3, <2>1, AskCreateStep
<1>4. ASSUME NEW g \in Groups, NEW p \in Prices, NEW active \in BOOLEAN, AskGroupChange(w, g, p, active)
      PROVE  GroupInv'
  BY <1>4, AskGroupChangeStep
<1>5. ASSUME NEW g \in Groups, DeletePriceGroup(w, g) PROVE GroupInv'
  BY <1>5, DeletePriceGroupStep
<1> QED
  BY <1>1, <1>2, <1>3, <1>4, <1>5 DEF AskGroups

LEMMA CarryStep ==
  ASSUME GroupInv, NEW w \in Workers, Carry(w) PROVE GroupInv'
  BY ChangeProductStep, RemoveProductStep, CreateProductStep, ChangeGroupStep,
     ReadDefaultStep, CountProductsStep, StoreCountStep, RefuseStep DEF Carry

\* Every step keeps the invariant: requests, recounts, failures, the timer and restarts.
LEMMA GroupInvStep == GroupInv /\ [GroupNext]_groupVars => GroupInv'
<1> SUFFICES ASSUME GroupInv, [GroupNext]_groupVars PROVE GroupInv'
  OBVIOUS
<1>1. ASSUME NEW w \in Pricers, AskGroups(w) PROVE GroupInv'
  BY <1>1, AskGroupsStep DEF Workers
<1>2. ASSUME NEW w \in Workers, Carry(w) PROVE GroupInv'
  BY <1>2, CarryStep
<1>3. ASSUME NEW w \in Workers, SkipRecount(w) PROVE GroupInv'
  BY <1>3, SkipRecountStep
<1>4. CASE Refresh
  BY <1>4, RefreshStep
<1>5. CASE Restart
  BY <1>5, RestartStep
<1>6. CASE UNCHANGED groupVars
  <2>1. UNCHANGED <<goods, groups, job, failures, crossed>>
    BY <1>6 DEF groupVars
  <2>2. GroupTypes' /\ ItemsExist' /\ (Undisturbed' <=> Undisturbed)
    BY <2>1 DEF GroupInv, GroupTypes, ItemsExist, Undisturbed
  <2>3. (OneAtATime' <=> OneAtATime) /\ (CountsAreRight' <=> CountsAreRight)
    BY <2>1 DEF OneAtATime, CountsAreRight
  <2> QED
    BY <2>1, <2>2, <2>3 DEF GroupInv
<1> QED
  BY <1>1, <1>2, <1>3, <1>4, <1>5, <1>6 DEF GroupNext

\* The inductive invariant of price groups, for any number of requests, products, groups
\* and prices, with failures and restarts at any point.
THEOREM GroupInvariant == GroupSpec => []GroupInv
  BY GroupInvInit, GroupInvStep, PTL DEF GroupSpec

\* Nobody at work, nothing is to be recounted.
LEMMA CountsAtRest == GroupInv => CountFollowsChanges
<1> SUFFICES ASSUME GroupInv, AtRest, ~crossed, failures = 0, NEW g \in Groups
             PROVE  groups[g].mismatches = Mismatches(g)
  BY DEF CountFollowsChanges
<1>1. \A w \in Workers : g \notin Pending(job[w])
  BY DEF AtRest, Pending
<1>2. CountIsRight(g, goods, groups)
  BY <1>1 DEF GroupInv, Undisturbed, CountsAreRight
<1> QED
  BY <1>2 DEF CountIsRight, Differing, Mismatches

\* When requests came one after the other and nothing failed, the number of mismatches a
\* group shows is right after each of them, also for the group a product has left
\* (update, remove and create with safeRecountPriceGroups).
THEOREM CountsFollowChanges == GroupSpec => []CountFollowsChanges
  BY GroupInvariant, CountsAtRest, PTL

-----------------------------------------------------------------------------
(* Sums of sums, and over other names of the same things *)

RowSums(row, A, S, T) == \A i \in S : row[i] = SumFunctionOnSet(A[i], T)
ColumnSums(col, A, S, T) == \A j \in T : col[j] = SumFunctionOnSet([i \in S |-> A[i][j]], S)

\* Rows first or columns first, a table adds up to the same.
LEMMA SumsExchange ==
  ASSUME NEW S, NEW T, IsFiniteSet(S), IsFiniteSet(T), NEW A, NEW row, NEW col,
         \A i \in S, j \in T : A[i][j] \in Int,
         RowSums(row, A, S, T), ColumnSums(col, A, S, T)
  PROVE  SumFunctionOnSet(row, S) = SumFunctionOnSet(col, T)
<1> DEFINE c(j) == [i \in S |-> A[i][j]]
           colOf(s) == [j \in T |-> SumFunctionOnSet(c(j), s)]
           F == {s \in SUBSET S : SumFunctionOnSet(row, s) = SumFunctionOnSet(colOf(s), T)}
<1> USE DEF RowSums, ColumnSums
<1>1. \A i \in S : row[i] \in Int
  BY SumOverInt
<1>2. {} \in F
  <2>1. \A j \in T : colOf({})[j] = 0
    BY SumOverEmpty
  <2> DEFINE z == colOf({})
  <2>2. SumFunctionOnSet(z, T) = 0 * Cardinality(T)
    <3>1. \A j \in T : z[j] = 0
      BY <2>1
    <3> HIDE DEF z
    <3> QED
      BY <3>1, SumOverConstant
  <2>3. Cardinality(T) \in Nat
    BY FS_CardinalityType
  <2>4. SumFunctionOnSet(z, T) = 0
    BY <2>2, <2>3
  <2> QED
    BY <2>4, SumOverEmpty
<1>3. ASSUME NEW s \in SUBSET S, s # {}, NEW x \in s, s \ {x} \in F PROVE s \in F
  <2> DEFINE t == s \ {x}
             cs == colOf(s)
             ct == colOf(t)
             ax == A[x]
  <2>1. IsFiniteSet(s) /\ IsFiniteSet(t) /\ t \in SUBSET S
    BY FS_Subset
  <2>2. SumFunctionOnSet(row, s) = row[x] + SumFunctionOnSet(row, t)
    BY <1>1, <2>1, SumOverElement
  <2>3. SumFunctionOnSet(row, t) = SumFunctionOnSet(ct, T)
    BY <1>3
  <2>4. \A j \in T : ax[j] \in Int /\ ct[j] \in Int /\ cs[j] = ax[j] + ct[j]
    <3>1. SUFFICES ASSUME NEW j \in T PROVE ax[j] \in Int /\ ct[j] \in Int /\ cs[j] = ax[j] + ct[j]
      OBVIOUS
    <3> DEFINE cj == c(j)
    <3>2. \A i \in S : cj[i] = A[i][j] /\ cj[i] \in Int
      OBVIOUS
    <3>3. cs[j] = SumFunctionOnSet(cj, s) /\ ct[j] = SumFunctionOnSet(cj, t)
      OBVIOUS
    <3> HIDE DEF cj, c, colOf, cs, ct
    <3>4. SumFunctionOnSet(cj, s) = cj[x] + SumFunctionOnSet(cj, t)
      BY <2>1, <3>2, SumOverElement
    <3>5. SumFunctionOnSet(cj, t) \in Int
      BY <2>1, <3>2, SumOverInt
    <3> QED
      BY <3>2, <3>3, <3>4, <3>5
  <2> HIDE DEF cs, ct, t, c, colOf
  <2>5. SumFunctionOnSet(cs, T) = SumFunctionOnSet(ax, T) + SumFunctionOnSet(ct, T)
    <3> HIDE DEF ax
    <3> QED
      BY <2>4, SumOverAdded
  <2>6. SumFunctionOnSet(row, s) = SumFunctionOnSet(cs, T)
    BY <2>2, <2>3, <2>5
  <2> QED
    BY <2>6 DEF cs
<1>4. S \in F
  <2> HIDE DEF F, c, colOf
  <2>1. \A s \in SUBSET S : s # {} => \E x \in s : s \ {x} \in F => s \in F
    BY <1>3
  <2> QED
    BY <1>2, <2>1, AllSubsets
<1>5. SumFunctionOnSet(row, S) = SumFunctionOnSet(colOf(S), T)
  BY <1>4
<1> DEFINE all == colOf(S)
<1>6. \A j \in T : all[j] = col[j]
  OBVIOUS
<1> HIDE DEF all
<1>7. SumFunctionOnSet(all, T) = SumFunctionOnSet(col, T)
  BY <1>6, SumOverSame
<1> QED
  BY <1>5, <1>7 DEF all

\* A sum does not depend on what its terms are called.
LEMMA SumRenamed ==
  ASSUME NEW S, IsFiniteSet(S), NEW T, IsFiniteSet(T), NEW p \in Injection(S, T),
         NEW f, \A t \in T : f[t] \in Int, NEW g, \A i \in S : g[i] = f[p[i]],
         \A t \in T : \E i \in S : p[i] = t
  PROVE  SumFunctionOnSet(g, S) = SumFunctionOnSet(f, T)
<1> DEFINE Im(s) == {t \in T : \E i \in s : p[i] = t}
           F == {s \in SUBSET S : SumFunctionOnSet(g, s) = SumFunctionOnSet(f, Im(s))}
<1>1. p \in [S -> T] /\ \A i, j \in S : p[i] = p[j] => i = j
  BY DEF Injection, IsInjective
<1>2. \A i \in S : g[i] \in Int
  BY <1>1
<1>3. {} \in F
  <2>1. Im({}) = {}
    OBVIOUS
  <2> QED
    BY <2>1, SumOverEmpty
<1>4. ASSUME NEW s \in SUBSET S, s # {}, NEW x \in s, s \ {x} \in F PROVE s \in F
  <2> DEFINE t == s \ {x}
  <2>1. IsFiniteSet(s) /\ IsFiniteSet(Im(s)) /\ Im(s) \subseteq T
    BY FS_Subset
  <2>2. p[x] \in Im(s) /\ Im(s) \ {p[x]} = Im(t)
    BY <1>1
  <2>3. SumFunctionOnSet(g, s) = g[x] + SumFunctionOnSet(g, t)
    BY <1>2, <2>1, SumOverElement
  <2> HIDE DEF Im
  <2>4. \A u \in Im(s) : f[u] \in Int
    BY <2>1
  <2>5. SumFunctionOnSet(f, Im(s)) = f[p[x]] + SumFunctionOnSet(f, Im(s) \ {p[x]})
    BY <2>1, <2>2, <2>4, SumOverElement
  <2>6. SumFunctionOnSet(g, t) = SumFunctionOnSet(f, Im(t))
    BY <1>4
  <2> QED
    BY <2>2, <2>3, <2>5, <2>6
<1>5. S \in F
  <2> HIDE DEF F
  <2>1. \A s \in SUBSET S : s # {} => \E x \in s : s \ {x} \in F => s \in F
    BY <1>4
  <2> QED
    BY <1>3, <2>1, AllSubsets
<1>6. Im(S) = T
  OBVIOUS
<1> QED
  BY <1>5, <1>6

-----------------------------------------------------------------------------
(* Promotions: what a candidate is *)

\* The lines of a cart can be counted.
LEMMA LinesFinite ==
  ASSUME lines \in Seq(CartLine)
  PROVE  /\ DOMAIN lines = 1 .. Len(lines) /\ IsFiniteSet(DOMAIN lines)
         /\ Cardinality(DOMAIN lines) = Len(lines) /\ Len(lines) \in Nat
         /\ \A i \in DOMAIN lines : lines[i] \in CartLine
<1>1. DOMAIN lines = 1 .. Len(lines) /\ Len(lines) \in Nat /\ \A i \in DOMAIN lines : lines[i] \in CartLine
  OBVIOUS
<1>2. IsFiniteSet(1 .. Len(lines)) /\ Cardinality(1 .. Len(lines)) = Len(lines)
  BY <1>1, FS_Interval
<1> QED
  BY <1>1, <1>2

\* Some lines have some units.
LEMMA QuantityNat ==
  ASSUME lines \in Seq(CartLine), NEW s \in SUBSET DOMAIN lines
  PROVE  Quantity(s) \in Nat /\ (s # {} => Quantity(s) > 0)
<1> DEFINE f == [i \in s |-> lines[i].quantity]
<1>1. IsFiniteSet(s) /\ DOMAIN f = s
  BY LinesFinite, FS_Subset
<1>2. \A i \in s : f[i] \in Nat /\ f[i] > 0 /\ f[i] \in Int
  BY LinesFinite DEF CartLine
<1>3. Quantity(s) = SumFunctionOnSet(f, s)
  BY DEF Quantity, SumFunction
<1> HIDE DEF f
<1>4. SumFunctionOnSet(f, s) \in Nat
  BY <1>1, <1>2, SumOverNat
<1>5. ASSUME s # {} PROVE SumFunctionOnSet(f, s) > 0
  <2>1. PICK x \in s : TRUE
    BY <1>5
  <2>2. SumFunctionOnSet(f, s) = f[x] + SumFunctionOnSet(f, s \ {x})
    BY <1>1, <1>2, SumOverElement
  <2>3. SumFunctionOnSet(f, s \ {x}) \in Nat
    <3>1. IsFiniteSet(s \ {x}) /\ \A i \in s \ {x} : f[i] \in Nat
      BY <1>1, <1>2, FS_Subset
    <3> QED
      BY <3>1, SumOverNat
  <2>4. f[x] \in Nat /\ f[x] > 0
    BY <1>2
  <2> QED
    BY <2>2, <2>3, <2>4
<1> QED
  BY <1>3, <1>4, <1>5

LEMMA WorthNat == ASSUME NEW l \in CartLine PROVE Worth(l) \in Nat
<1>1. l.quantity \in Nat /\ l.price \in Nat
  BY DEF CartLine
<1> QED
  BY <1>1 DEF Worth

\* No lines, no spending
LEMMA SpendNat ==
  ASSUME lines \in Seq(CartLine), NEW s \in SUBSET DOMAIN lines
  PROVE  Spend(s) \in Nat /\ (s = {} => Spend(s) = 0)
<1> DEFINE f == [i \in s |-> Worth(lines[i])]
<1>1. IsFiniteSet(s) /\ DOMAIN f = s
  BY LinesFinite, FS_Subset
<1>2. \A i \in s : f[i] \in Nat
  BY LinesFinite, WorthNat
<1>3. Spend(s) = SumFunctionOnSet(f, s)
  BY DEF Spend, SumFunction
<1> HIDE DEF f
<1> QED
  BY <1>1, <1>2, <1>3, SumOverNat, SumOverEmpty

\* The first of some places is one of them.
LEMMA FirstIsThere ==
  ASSUME NEW s \in SUBSET Nat, s # {}
  PROVE  First(s) \in s /\ \A j \in s : First(s) <= j
<1>1. IsWellFoundedOn(OpToRel(<, Nat), Nat)
  BY NatLessThanWellFounded
<1>2. PICK x \in s : \A y \in s : ~ (<<y, x>> \in OpToRel(<, Nat))
  BY <1>1, WFMin
<1>3. \A y \in s : ~ (y < x)
  BY <1>2 DEF OpToRel
<1>4. \A y \in s : x <= y
  BY <1>3
<1> QED
  BY <1>4 DEF First

\* What is taken off some of the lines
OffLines(f) == DOMAIN f \subseteq DOMAIN lines /\ \A i \in DOMAIN f : f[i] \in Int

\* Nothing is taken off no line.
LEMMA NothingOff == OffLines(<<>>)
<1>1. DOMAIN <<>> = {}
  OBVIOUS
<1> QED
  BY <1>1 DEF OffLines

\* An amount off the first qualifying line, when there is one
LEMMA FirstOff ==
  ASSUME lines \in Seq(CartLine), NEW o, Qualifying(o) # {}, NEW amount \in Int
  PROVE  OffLines(OnFirst(o, amount))
<1>1. Qualifying(o) \subseteq DOMAIN lines /\ Qualifying(o) \in SUBSET Nat
  BY LinesFinite DEF Qualifying
<1>2. First(Qualifying(o)) \in DOMAIN lines
  BY <1>1, FirstIsThere
<1> QED
  BY <1>2 DEF OffLines, OnFirst

-----------------------------------------------------------------------------
(* Promotions: what each kind takes off *)

\* Lines that qualify or are rewarded are lines of the cart.
LEMMA QualifyingLines ==
  ASSUME lines \in Seq(CartLine), NEW o
  PROVE  /\ Qualifying(o) \in SUBSET DOMAIN lines
         /\ Rewarded(o) \in SUBSET DOMAIN lines
BY DEF Qualifying, Rewarded

\* BUY_X_GET_Y: the number of units is not divided by nothing.
LEMMA BuyAndGetOff ==
  ASSUME lines \in Seq(CartLine), NEW o \in Promotion, o.type = "BUY_X_GET_Y"
  PROVE  OffLines(BuyAndGet(o))
<1>1. o.buy \in Nat /\ o.buy > 0 /\ o.get \in Nat /\ o.percent \in Nat /\ o.limit \in Nat /\ o.multiples \in BOOLEAN
  BY DEF Promotion
<1>2. Quantity(Qualifying(o)) \in Nat
  BY QualifyingLines, QuantityNat
<1> DEFINE group == IF o.rewards = {} THEN o.buy + o.get ELSE o.buy
           units == Applications(o, group) * o.get
<1>3. group \in Nat /\ group > 0
  BY <1>1
<1> HIDE DEF group
<1>4. Quantity(Qualifying(o)) \div group \in Int
  BY <1>2, <1>3
<1>5. Applications(o, group) \in Int
  BY <1>1, <1>4 DEF Applications, Least
<1>6. units \in Int
  BY <1>1, <1>5
<1> HIDE DEF units
<1>7. OffLines(UnitsOff(o, units))
  <2>1. DOMAIN UnitsOff(o, units) = Rewarded(o)
    BY DEF UnitsOff
  <2>2. ASSUME NEW i \in Rewarded(o) PROVE UnitsOff(o, units)[i] \in Int
    <3> DEFINE a == Least(Above(units, Quantity(CheaperThan(o, i))), lines[i].quantity)
               b == lines[i].price
    <3>1. CheaperThan(o, i) \in SUBSET DOMAIN lines /\ i \in DOMAIN lines
      BY <2>2, QualifyingLines DEF CheaperThan
    <3>2. Quantity(CheaperThan(o, i)) \in Nat
      BY <3>1, QuantityNat
    <3>3. lines[i].quantity \in Nat /\ b \in Nat
      BY <3>1, LinesFinite DEF CartLine
    <3>4. Above(units, Quantity(CheaperThan(o, i))) \in Int
      BY <1>6, <3>2 DEF Above
    <3>5. a \in Int
      BY <3>3, <3>4 DEF Least
    <3>6. UnitsOff(o, units)[i] = a * b * o.percent
      BY <2>2 DEF UnitsOff
    <3> HIDE DEF a, b
    <3> QED
      BY <1>1, <3>3, <3>5, <3>6
  <2> QED
    BY <2>1, <2>2, QualifyingLines DEF OffLines
<1>8. BuyAndGet(o) = IF Quantity(Qualifying(o)) < o.buy THEN <<>> ELSE UnitsOff(o, units)
  BY DEF BuyAndGet, units, group
<1> QED
  BY <1>7, <1>8, NothingOff

\* QUANTITY_BUNDLE_PRICE: without a qualifying line it applies no time, so that the average
\* price of a unit is never taken of no units.
LEMMA BundleOff ==
  ASSUME lines \in Seq(CartLine), NEW o \in Promotion, o.type = "QUANTITY_BUNDLE_PRICE", ~Fails(o)
  PROVE  OffLines(Bundle(o))
<1> DEFINE q == Qualifying(o)
           times == Applications(o, o.buy)
<1>1. o.buy \in Nat /\ o.buy > 0 /\ o.amount \in Nat /\ o.limit \in Nat /\ o.multiples \in BOOLEAN
  BY DEF Promotion
<1>2. Quantity(q) \in Nat /\ Spend(q) \in Nat /\ (q # {} => Quantity(q) > 0)
  BY QualifyingLines, QuantityNat, SpendNat
<1>3. times \in Int
  <2>1. Quantity(q) \div o.buy \in Int
    BY <1>1, <1>2
  <2> QED
    BY <1>1, <2>1 DEF Applications, Least
<1>4. ASSUME q = {} PROVE times = 0
  <2>1. o.multiples
    BY <1>4 DEF Fails
  <2>2. Quantity(q) = 0
    <3> DEFINE f == [i \in {} |-> lines[i].quantity]
    <3>1. Quantity(q) = SumFunctionOnSet(f, {})
      BY <1>4 DEF Quantity, SumFunction
    <3> HIDE DEF f
    <3> QED
      BY <3>1, SumOverEmpty
  <2>3. 0 \div o.buy = 0
    BY <1>1
  <2> HIDE DEF q
  <2>4. times = Least(o.limit, 0)
    BY <2>1, <2>2, <2>3 DEF Applications, q
  <2> QED
    BY <1>1, <2>4 DEF Least
<1>5. ASSUME times # 0 PROVE OffLines(Bundle(o))
  <2> DEFINE a == (times * o.buy * Spend(q)) \div Quantity(q)
             b == times * o.amount * 100
  <2>1. q # {}
    BY <1>4, <1>5
  <2>2. times * o.buy * Spend(q) \in Int
    <3> HIDE DEF times, q
    <3> QED
      BY <1>1, <1>2, <1>3
  <2>3. a \in Int
    BY <1>2, <2>1, <2>2
  <2>4. b \in Int
    <3> HIDE DEF times
    <3> QED
      BY <1>1, <1>3
  <2> HIDE DEF a, b
  <2>5. Above(a, b) \in Int
    BY <2>3, <2>4 DEF Above
  <2>6. Bundle(o) = OnFirst(o, Above(a, b))
    BY <1>5 DEF Bundle, a, b
  <2> QED
    BY <2>1, <2>5, <2>6, FirstOff
<1>6. ASSUME times = 0 PROVE Bundle(o) = <<>>
  BY <1>6 DEF Bundle
<1> HIDE DEF times
<1> QED
  BY <1>5, <1>6, NothingOff

\* SPEND_THRESHOLD: who has spent enough has a qualifying line.
LEMMA ThresholdOff ==
  ASSUME lines \in Seq(CartLine), NEW o \in Promotion, ~Fails(o), NEW amount \in Int,
         o.type \in {"SPEND_THRESHOLD_FIXED_OFF", "SPEND_THRESHOLD_PERCENT_OFF"}
  PROVE  OffLines(Threshold(o, amount))
<1> DEFINE q == Qualifying(o)
<1>1. o.minimum \in Nat
  BY DEF Promotion
<1>2. Spend(q) \in Nat /\ (q = {} => Spend(q) = 0)
  BY QualifyingLines, SpendNat
<1>3. CASE q = {}
  <2>1. o.minimum # 0
    BY <1>3 DEF Fails
  <2>2. Spend(q) < o.minimum * 100
    BY <1>1, <1>2, <1>3, <2>1
  <2> QED
    BY <2>2, NothingOff DEF Threshold
<1>4. CASE q # {}
  BY <1>4, FirstOff, NothingOff DEF Threshold
<1> QED
  BY <1>3, <1>4

\* What a promotion that does not fail takes off is a number for each of some lines of the
\* cart: no sum is divided by no units, no first line is taken of none.
LEMMA PartsAreOff ==
  ASSUME lines \in Seq(CartLine), NEW o \in Promotion, ~Fails(o)
  PROVE  OffLines(Parts(o))
<1>1. /\ o.percent \in Nat /\ o.amount \in Nat /\ o.minimum \in Nat
  BY DEF Promotion
<1>2. \A i \in Qualifying(o) : /\ i \in DOMAIN lines
                               /\ lines[i].quantity \in Nat /\ lines[i].price \in Nat
  BY LinesFinite DEF Qualifying, CartLine
<1>3. CASE o.type = "BUY_X_GET_Y"
  BY <1>3, BuyAndGetOff DEF Parts
<1>4. CASE o.type = "QUANTITY_BUNDLE_PRICE"
  BY <1>4, BundleOff DEF Parts
<1>5. CASE o.type = "PERCENT_OFF_ITEM"
  <2>1. Parts(o) = [i \in Qualifying(o) |-> lines[i].quantity * lines[i].price * o.percent]
    BY <1>5 DEF Parts, PerLine
  <2>2. \A i \in Qualifying(o) : lines[i].quantity * lines[i].price * o.percent \in Int
    BY <1>1, <1>2
  <2> QED
    BY <1>2, <2>1, <2>2 DEF OffLines
<1>6. CASE o.type = "FIXED_AMOUNT_OFF_ITEM"
  <2>1. Parts(o) = [i \in Qualifying(o) |-> lines[i].quantity * o.amount * 100]
    BY <1>6 DEF Parts, PerLine
  <2>2. \A i \in Qualifying(o) : lines[i].quantity * o.amount * 100 \in Int
    BY <1>1, <1>2
  <2> QED
    BY <1>2, <2>1, <2>2 DEF OffLines
<1>7. CASE o.type = "CUSTOM_PRICE"
  <2>1. Parts(o) = [i \in Qualifying(o) |-> lines[i].quantity * Above(lines[i].price, o.amount) * 100]
    BY <1>7 DEF Parts, PerLine
  <2>2. \A i \in Qualifying(o) : Above(lines[i].price, o.amount) \in Int
    BY <1>1, <1>2 DEF Above
  <2>3. \A i \in Qualifying(o) : lines[i].quantity * Above(lines[i].price, o.amount) * 100 \in Int
    BY <1>2, <2>2
  <2> QED
    BY <1>2, <2>1, <2>3 DEF OffLines
<1>8. CASE o.type = "SPEND_THRESHOLD_FIXED_OFF"
  <2>1. o.amount * 100 \in Int
    BY <1>1
  <2> QED
    BY <1>8, <2>1, ThresholdOff DEF Parts
<1>9. CASE o.type = "SPEND_THRESHOLD_PERCENT_OFF"
  <2> DEFINE a == (Spend(Qualifying(o)) * o.percent) \div 100
             b == o.amount * 100
  <2>1. Spend(Qualifying(o)) \in Nat
    BY QualifyingLines, SpendNat
  <2>2. Spend(Qualifying(o)) * o.percent \in Int
    BY <1>1, <2>1
  <2>3. a \in Int /\ b \in Int
    BY <1>1, <2>2
  <2> HIDE DEF a, b
  <2>4. Least(a, b) \in Int
    BY <2>3 DEF Least
  <2>5. Parts(o) = Threshold(o, Least(a, b))
    BY <1>9 DEF Parts, a, b
  <2> QED
    BY <1>9, <2>4, <2>5, ThresholdOff
<1>10. CASE o.type \notin {"BUY_X_GET_Y", "QUANTITY_BUNDLE_PRICE", "PERCENT_OFF_ITEM", "FIXED_AMOUNT_OFF_ITEM",
                           "CUSTOM_PRICE", "SPEND_THRESHOLD_FIXED_OFF", "SPEND_THRESHOLD_PERCENT_OFF"}
  <2>1. Parts(o) = <<>>
    BY <1>10 DEF Parts
  <2> QED
    BY <2>1, NothingOff
<1> QED
  BY <1>3, <1>4, <1>5, <1>6, <1>7, <1>8, <1>9, <1>10

-----------------------------------------------------------------------------
(* Promotions: candidates *)

\* A candidate names a number for each product, and their sum in whole cents.
RightCandidate ==
  {c \in [offer : Promotion, at : Nat, off : [Products -> Int], total : Int] :
     c.total = Rounded(SumFunction(c.off))}

\* The products of a cart can be counted.
LEMMA ProductsFinite ==
  ASSUME lines \in Seq(CartLine)
  PROVE  /\ IsFiniteSet(Products) /\ Cardinality(Products) <= Len(lines)
         /\ \A i \in DOMAIN lines : lines[i].product \in Products
<1> DEFINE p == [i \in DOMAIN lines |-> lines[i].product]
<1>1. p \in Surjection(DOMAIN lines, Products)
  BY DEF Products, Surjection
<1> HIDE DEF p
<1>2. IsFiniteSet(Products) /\ Cardinality(Products) <= Cardinality(DOMAIN lines)
  BY <1>1, LinesFinite, FS_Surjection
<1> QED
  BY <1>2, LinesFinite DEF Products

\* What a product is given is a number.
LEMMA PartIsNumber ==
  ASSUME lines \in Seq(CartLine), NEW parts, OffLines(parts), NEW p
  PROVE  PartOf(parts, p) \in Int
<1> DEFINE s == {i \in DOMAIN parts : lines[i].product = p}
           f == [i \in s |-> Least(Worth(lines[i]), parts[i])]
<1>1. s \in SUBSET DOMAIN lines /\ IsFiniteSet(s) /\ DOMAIN f = s
  BY LinesFinite, FS_Subset DEF OffLines
<1>2. \A i \in s : f[i] \in Int
  <2>1. SUFFICES ASSUME NEW i \in s PROVE f[i] \in Int
    OBVIOUS
  <2>2. Worth(lines[i]) \in Nat /\ parts[i] \in Int
    BY <1>1, LinesFinite, WorthNat DEF OffLines
  <2>3. Least(Worth(lines[i]), parts[i]) \in Int
    BY <2>2 DEF Least
  <2> QED
    BY <2>3
<1>3. PartOf(parts, p) = SumFunctionOnSet(f, s)
  BY DEF PartOf, SumFunction
<1> HIDE DEF f, s
<1> QED
  BY <1>1, <1>2, <1>3, SumOverInt

\* To whole cents, half a cent off at most
LEMMA RoundedCents ==
  ASSUME NEW a \in Int
  PROVE  Rounded(a) \in Int /\ a - 49 <= 100 * Rounded(a) /\ 100 * Rounded(a) <= a + 50
<1> DEFINE h == 100
           b == a + 50
<1>1. b \in Int /\ h \in Nat \ {0} /\ h = 100
  OBVIOUS
<1>2. Rounded(a) = b \div h
  BY DEF Rounded
<1> HIDE DEF h
<1>3. b \div h \in Int /\ h * (b \div h) <= b /\ b < h * (b \div h) + h
  <2> HIDE DEF b
  <2> QED
    BY <1>1, DivBounds
<1> QED
  BY <1>1, <1>2, <1>3

\* Each promotion that does not fail makes a candidate whose total is that of its parts.
LEMMA CandidateIsRight ==
  ASSUME lines \in Seq(CartLine), offers \in Seq(Promotion), NEW i \in DOMAIN offers, ~Fails(offers[i])
  PROVE  Candidate(i) \in RightCandidate
<1> DEFINE off == [p \in Products |-> PartOf(Parts(offers[i]), p)]
<1>1. offers[i] \in Promotion /\ i \in Nat
  OBVIOUS
<1>2. OffLines(Parts(offers[i]))
  BY <1>1, PartsAreOff
<1>3. off \in [Products -> Int] /\ DOMAIN off = Products /\ \A p \in Products : off[p] \in Int
  BY <1>2, PartIsNumber
<1>4. Candidate(i) = [offer |-> offers[i], at |-> i, off |-> off, total |-> Rounded(SumFunction(off))]
  BY DEF Candidate
<1> HIDE DEF off
<1>5. SumFunction(off) \in Int
  BY <1>3, ProductsFinite, SumOverInt DEF SumFunction
<1>6. Rounded(SumFunction(off)) \in Int
  BY <1>5, RoundedCents
<1> QED
  BY <1>1, <1>3, <1>4, <1>6 DEF RightCandidate

\* Evaluation begins with such candidates.
LEMMA CandidatesAreRight ==
  lines \in Seq(CartLine) /\ offers \in Seq(Promotion) /\ (\A i \in DOMAIN offers : ~Fails(offers[i]))
    => Candidates \subseteq RightCandidate
BY CandidateIsRight DEF Candidates

-----------------------------------------------------------------------------
\* The discount of a line
TakenOff(i) == Least(lines[i].quantity * lines[i].price, Rounded(Off(lines[i].product)))

\* Who competes and who has a place is a candidate of these lines, whatever was replaced;
\* the answer is what the winners give.
PromotionInv ==
  /\ lines \in Seq(CartLine)
  /\ rivals \subseteq RightCandidate
  /\ winners \in Seq(RightCandidate)
  /\ stage \in {"asked", "answered"} => rivals = {}
  /\ stage = "asked" => winners = <<>>
  /\ stage = "answered" =>
       DOMAIN answer = DOMAIN lines /\ \A i \in DOMAIN lines : answer[i] = TakenOff(i)

-----------------------------------------------------------------------------
(* Promotions: the steps *)

LEMMA PromotionsStart == PromotionInit => PromotionInv
<1> SUFFICES ASSUME PromotionInit PROVE PromotionInv
  OBVIOUS
<1>1. <<>> \in Seq(CartLine) /\ <<>> \in Seq(RightCandidate)
  OBVIOUS
<1> QED
  BY <1>1 DEF PromotionInit, PromotionInv

LEMMA CalculateKeeps == PromotionInv /\ Calculate => PromotionInv'
<1> SUFFICES ASSUME PromotionInv, Calculate PROVE PromotionInv'
  OBVIOUS
<1>1. lines' \in Seq(CartLine) /\ offers' \in Seq(Promotion)
  BY PromotionAssumption DEF Calculate
<1>2. winners' = <<>> /\ stage' # "asked" /\ stage' # "answered"
  BY DEF Calculate, PromotionInv
<1>3. rivals' \subseteq RightCandidate'
  <2>1. CASE \E i \in DOMAIN offers' : Fails(offers[i])'
    BY <2>1 DEF Calculate, PromotionInv
  <2>2. CASE \A i \in DOMAIN offers' : ~Fails(offers[i])'
    <3>1. rivals' = Candidates'
      BY <2>2 DEF Calculate
    <3>2. (lines \in Seq(CartLine) /\ offers \in Seq(Promotion) /\ (\A i \in DOMAIN offers : ~Fails(offers[i]))
             => Candidates \subseteq RightCandidate)'
      BY CandidatesAreRight, PTL
    <3> QED
      BY <1>1, <2>2, <3>1, <3>2
  <2> QED
    BY <2>1, <2>2
<1>4. winners' \in Seq(RightCandidate)'
  BY <1>2
<1> QED
  BY <1>1, <1>2, <1>3, <1>4 DEF PromotionInv

LEMMA CompeteKeeps == PromotionInv /\ Compete => PromotionInv'
<1> SUFFICES ASSUME PromotionInv, Compete PROVE PromotionInv'
  OBVIOUS
<1>1. PICK c \in rivals :
        /\ winners' = IF Conflicts(c) = {} THEN Append(winners, c) ELSE Replaced(c, First(Conflicts(c)))
        /\ rivals' = rivals \ {c}
        /\ UNCHANGED <<lines, offers, stage, answer>>
  BY DEF Compete
<1>2. stage # "asked" /\ stage # "answered" /\ c \in RightCandidate
  BY <1>1 DEF PromotionInv
<1>3. RightCandidate' = RightCandidate
  BY <1>1 DEF RightCandidate, Products
<1>4. winners' \in Seq(RightCandidate)
  <2> DEFINE i == First(Conflicts(c))
  <2>1. winners \in Seq(RightCandidate)
    BY DEF PromotionInv
  <2>2. Append(winners, c) \in Seq(RightCandidate)
    BY <1>2, <2>1
  <2>3. [winners EXCEPT ![i] = c] \in Seq(RightCandidate)
    <3> HIDE DEF i
    <3>1. winners \in [1 .. Len(winners) -> RightCandidate] /\ Len(winners) \in Nat
      BY <2>1
    <3>2. [winners EXCEPT ![i] = c] \in [1 .. Len(winners) -> RightCandidate]
      BY <1>2, <3>1
    <3> QED
      BY <3>1, <3>2, SeqDef
  <2>4. Replaced(c, i) \in Seq(RightCandidate)
    BY <2>1, <2>3 DEF Replaced
  <2> QED
    BY <1>1, <2>2, <2>4 DEF i
<1>5. lines' \in Seq(CartLine) /\ rivals' \subseteq RightCandidate /\ stage' = stage
  BY <1>1 DEF PromotionInv
<1> QED
  BY <1>2, <1>3, <1>4, <1>5 DEF PromotionInv

LEMMA AnswerKeeps == PromotionInv /\ Answer => PromotionInv'
<1> SUFFICES ASSUME PromotionInv, Answer PROVE PromotionInv'
  OBVIOUS
<1>1. RightCandidate' = RightCandidate
  BY DEF RightCandidate, Products, Answer
<1>2. stage' = "answered" /\ UNCHANGED <<lines, rivals, winners>> /\ rivals = {}
  BY DEF Answer
<1>3. DOMAIN answer' = DOMAIN lines /\ \A i \in DOMAIN lines : answer'[i] = TakenOff(i)
  BY DEF Answer, TakenOff
<1>4. \A i : TakenOff(i)' = TakenOff(i)
  BY <1>2 DEF TakenOff, Off
<1> QED
  BY <1>1, <1>2, <1>3, <1>4 DEF PromotionInv

LEMMA PromotionsUnchanged == PromotionInv /\ UNCHANGED promotionVars => PromotionInv'
<1> SUFFICES ASSUME PromotionInv, UNCHANGED promotionVars PROVE PromotionInv'
  OBVIOUS
<1>1. RightCandidate' = RightCandidate /\ \A i : TakenOff(i)' = TakenOff(i)
  BY DEF RightCandidate, Products, promotionVars, TakenOff, Off
<1> QED
  BY <1>1 DEF PromotionInv, promotionVars

\* The inductive invariant of the evaluation, for any lines and any promotions.
THEOREM PromotionInvariant == PromotionSpec => []PromotionInv
<1>1. PromotionInv /\ [PromotionNext]_promotionVars => PromotionInv'
  BY CalculateKeeps, CompeteKeeps, AnswerKeeps, PromotionsUnchanged DEF PromotionNext
<1> QED
  BY <1>1, PromotionsStart, PTL DEF PromotionSpec

-----------------------------------------------------------------------------
(* Promotions: what the discounts add up to *)

TermsNear(a, f, b, g, k, S) == \A i \in S : f[i] \in Int /\ g[i] \in Int /\ a * f[i] <= b * g[i] + k

\* What is bounded term by term is bounded in sum.
LEMMA SumsNear ==
  ASSUME NEW S, IsFiniteSet(S), NEW a \in Int, NEW b \in Int, NEW k \in Int, NEW f, NEW g,
         TermsNear(a, f, b, g, k, S)
  PROVE  a * SumFunctionOnSet(f, S) <= b * SumFunctionOnSet(g, S) + k * Cardinality(S)
<1> DEFINE af == [i \in S |-> a * f[i]]
           bg == [i \in S |-> b * g[i]]
           ks == [i \in S |-> k]
           t == [i \in S |-> b * g[i] + k]
<1>1. \A i \in S : /\ af[i] = a * f[i] /\ bg[i] = b * g[i] /\ ks[i] = k /\ t[i] = bg[i] + ks[i]
                   /\ af[i] \in Int /\ bg[i] \in Int /\ ks[i] \in Int /\ t[i] \in Int /\ af[i] <= t[i]
                   /\ f[i] \in Int /\ g[i] \in Int
  BY DEF TermsNear
<1> HIDE DEF af, bg, ks, t
<1>2. SumFunctionOnSet(af, S) = a * SumFunctionOnSet(f, S)
  BY <1>1, SumOverScaled
<1>3. SumFunctionOnSet(bg, S) = b * SumFunctionOnSet(g, S)
  BY <1>1, SumOverScaled
<1>4. SumFunctionOnSet(ks, S) = k * Cardinality(S)
  BY <1>1, SumOverConstant
<1>5. SumFunctionOnSet(t, S) = SumFunctionOnSet(bg, S) + SumFunctionOnSet(ks, S)
  BY <1>1, SumOverAdded
<1>6. SumFunctionOnSet(af, S) <= SumFunctionOnSet(t, S)
  BY <1>1, SumOverMonotone
<1> QED
  BY <1>2, <1>3, <1>4, <1>5, <1>6

Offs == [i \in DOMAIN lines |-> Off(lines[i].product)]
Rows == [w \in DOMAIN winners |-> SumFunction(winners[w].off)]
Totals == [w \in DOMAIN winners |-> winners[w].total]

\* The winners and what they name
LEMMA WinnersAre ==
  ASSUME PromotionInv
  PROVE  /\ IsFiniteSet(DOMAIN winners) /\ Cardinality(DOMAIN winners) = Len(winners) /\ Len(winners) \in Nat
         /\ \A w \in DOMAIN winners :
              /\ DOMAIN winners[w].off = Products
              /\ \A p \in Products : winners[w].off[p] \in Int
              /\ winners[w].total = Rounded(SumFunction(winners[w].off))
<1>1. winners \in Seq(RightCandidate)
  BY DEF PromotionInv
<1>2. DOMAIN winners = 1 .. Len(winners) /\ Len(winners) \in Nat /\ \A w \in DOMAIN winners : winners[w] \in RightCandidate
  BY <1>1
<1>3. IsFiniteSet(1 .. Len(winners)) /\ Cardinality(1 .. Len(winners)) = Len(winners)
  BY <1>2, FS_Interval
<1>4. ASSUME NEW w \in DOMAIN winners
      PROVE  /\ winners[w].off \in [Products -> Int]
             /\ winners[w].total = Rounded(SumFunction(winners[w].off))
  BY <1>2 DEF RightCandidate
<1> QED
  BY <1>2, <1>3, <1>4

\* The total of a winner is what it takes off, to half a cent.
LEMMA RowsAre ==
  ASSUME PromotionInv
  PROVE  \A w \in DOMAIN winners : /\ Rows[w] = SumFunctionOnSet(winners[w].off, Products)
                                   /\ Rows[w] \in Int /\ Totals[w] \in Int
                                   /\ Rows[w] - 49 <= 100 * Totals[w]
                                   /\ 100 * Totals[w] <= Rows[w] + 50
<1> SUFFICES ASSUME NEW w \in DOMAIN winners
             PROVE  /\ Rows[w] = SumFunctionOnSet(winners[w].off, Products)
                    /\ Rows[w] \in Int /\ Totals[w] \in Int
                    /\ Rows[w] - 49 <= 100 * Totals[w]
                    /\ 100 * Totals[w] <= Rows[w] + 50
  OBVIOUS
<1>1. IsFiniteSet(Products)
  BY ProductsFinite DEF PromotionInv
<1>2. Rows[w] = SumFunctionOnSet(winners[w].off, Products) /\ Totals[w] = Rounded(Rows[w])
  BY WinnersAre DEF Rows, Totals, SumFunction
<1>3. \A p \in Products : winners[w].off[p] \in Int
  BY WinnersAre
<1>4. SumFunctionOnSet(winners[w].off, Products) \in Int
  BY <1>1, <1>3, SumOverInt
<1> QED
  BY <1>2, <1>4, RoundedCents

\* What is taken off a product is the sum over the winners.
LEMMA OffIs ==
  ASSUME PromotionInv, NEW p \in Products
  PROVE  /\ Off(p) = SumFunctionOnSet([w \in DOMAIN winners |-> winners[w].off[p]], DOMAIN winners)
         /\ Off(p) \in Int
<1> DEFINE f == [w \in DOMAIN winners |-> winners[w].off[p]]
<1>1. Off(p) = SumFunctionOnSet(f, DOMAIN winners)
  BY DEF Off, SumFunction
<1>2. \A w \in DOMAIN winners : f[w] \in Int
  BY WinnersAre
<1>3. SumFunctionOnSet(f, DOMAIN winners) \in Int
  <2> HIDE DEF f
  <2> QED
    BY <1>2, WinnersAre, SumOverInt
<1> QED
  BY <1>1, <1>3

\* With every product on one line, what is taken off line by line is what the winners take
\* off product by product.
LEMMA OffsAreRows ==
  ASSUME PromotionInv, Cardinality(Products) = Len(lines)
  PROVE  SumFunctionOnSet(Offs, DOMAIN lines) = SumFunctionOnSet(Rows, DOMAIN winners)
<1> DEFINE A == [w \in DOMAIN winners |-> winners[w].off]
           col == [p \in Products |-> Off(p)]
           name == [i \in DOMAIN lines |-> lines[i].product]
<1>1. /\ IsFiniteSet(DOMAIN lines) /\ Cardinality(DOMAIN lines) = Len(lines)
      /\ IsFiniteSet(Products) /\ \A i \in DOMAIN lines : lines[i].product \in Products
  BY LinesFinite, ProductsFinite DEF PromotionInv
<1>2. name \in Surjection(DOMAIN lines, Products)
  BY DEF Products, Surjection
<1>3. \A i \in DOMAIN lines : Offs[i] = col[name[i]]
  BY <1>1 DEF Offs
<1>4. \A p \in Products : col[p] \in Int
  BY OffIs
<1>5. SumFunctionOnSet(Offs, DOMAIN lines) = SumFunctionOnSet(col, Products)
  <2> HIDE DEF name, col
  <2>1. name \in Injection(DOMAIN lines, Products)
    BY <1>1, <1>2, FS_SurjSameCardinalityImpliesInj
  <2>2. \A p \in Products : \E i \in DOMAIN lines : name[i] = p
    BY <1>2 DEF Surjection
  <2> QED
    BY <1>1, <1>3, <1>4, <2>1, <2>2, SumRenamed
<1>6. SumFunctionOnSet(Rows, DOMAIN winners) = SumFunctionOnSet(col, Products)
  <2>1. \A w \in DOMAIN winners, p \in Products : A[w][p] \in Int
    BY WinnersAre
  <2>2. RowSums(Rows, A, DOMAIN winners, Products)
    BY RowsAre DEF RowSums
  <2>3. ColumnSums(col, A, DOMAIN winners, Products)
    <3> USE DEF ColumnSums
    <3> SUFFICES ASSUME NEW p \in Products
                 PROVE  col[p] = SumFunctionOnSet([w \in DOMAIN winners |-> A[w][p]], DOMAIN winners)
      OBVIOUS
    <3>1. [w \in DOMAIN winners |-> A[w][p]] = [w \in DOMAIN winners |-> winners[w].off[p]]
      OBVIOUS
    <3>2. col[p] = Off(p)
      OBVIOUS
    <3> HIDE DEF A, col
    <3> QED
      BY <3>1, <3>2, OffIs
  <2>4. IsFiniteSet(DOMAIN winners)
    BY WinnersAre
  <2> HIDE DEF A, col
  <2> QED
    BY <1>1, <2>1, <2>2, <2>3, <2>4, SumsExchange
<1> QED
  BY <1>5, <1>6

\* Half a cent for each line and each winner is all that rounding can lose or gain.
LEMMA AddedUp ==
  ASSUME PromotionInv, stage = "answered", Cardinality(Products) = Len(lines)
  PROVE  DiscountsAddUp
<1> DEFINE L == DOMAIN lines
           W == DOMAIN winners
           n == Len(lines)
           m == Len(winners)
           given == SumFunctionOnSet(answer, L)
           named == SumFunctionOnSet(Totals, W)
           off == SumFunctionOnSet(Offs, L)
<1>1. /\ IsFiniteSet(L) /\ Cardinality(L) = n /\ n \in Nat
      /\ IsFiniteSet(W) /\ Cardinality(W) = m /\ m \in Nat
  BY LinesFinite, WinnersAre DEF PromotionInv
<1>2. DOMAIN answer = L /\ \A i \in L : answer[i] = TakenOff(i)
  BY DEF PromotionInv
<1>3. SumFunction(answer) = given /\ SumFunction([w \in W |-> winners[w].total]) = named
  BY <1>2 DEF Totals, SumFunction
<1>4. \A i \in L : /\ answer[i] \in Int /\ Offs[i] \in Int
                   /\ 100 * answer[i] <= 1 * Offs[i] + 50
                   /\ answer[i] < lines[i].quantity * lines[i].price => 1 * Offs[i] <= 100 * answer[i] + 49
  <2> SUFFICES ASSUME NEW i \in L
               PROVE  /\ answer[i] \in Int /\ Offs[i] \in Int
                      /\ 100 * answer[i] <= 1 * Offs[i] + 50
                      /\ answer[i] < lines[i].quantity * lines[i].price => 1 * Offs[i] <= 100 * answer[i] + 49
    OBVIOUS
  <2> DEFINE cost == lines[i].quantity * lines[i].price
             r == Rounded(Offs[i])
  <2>1. lines[i].product \in Products
    BY ProductsFinite DEF PromotionInv
  <2>2. Offs[i] \in Int
    BY <2>1, OffIs DEF Offs
  <2>3. r \in Int /\ Offs[i] - 49 <= 100 * r /\ 100 * r <= Offs[i] + 50
    BY <2>2, RoundedCents
  <2>4. cost \in Int
    <3>1. lines[i].quantity \in Nat /\ lines[i].price \in Nat
      BY LinesFinite DEF PromotionInv, CartLine
    <3> QED
      BY <3>1
  <2>5. answer[i] = IF cost < r THEN cost ELSE r
    BY <1>2 DEF TakenOff, Least, Offs
  <2> HIDE DEF cost, r
  <2>6. answer[i] \in Int /\ 100 * answer[i] <= 1 * Offs[i] + 50
    BY <2>2, <2>3, <2>4, <2>5
  <2>7. answer[i] < cost => 1 * Offs[i] <= 100 * answer[i] + 49
    BY <2>2, <2>3, <2>4, <2>5
  <2> QED
    BY <2>2, <2>6, <2>7 DEF cost
<1>5. \A w \in W : /\ Rows[w] \in Int /\ Totals[w] \in Int
                   /\ 1 * Rows[w] <= 100 * Totals[w] + 49
                   /\ 100 * Totals[w] <= 1 * Rows[w] + 50
  BY RowsAre
<1> HIDE DEF L, W, n, m
<1>6. off = SumFunctionOnSet(Rows, W)
  BY OffsAreRows DEF L, W
<1>7. given \in Int /\ named \in Int /\ off \in Int
  BY <1>1, <1>4, <1>5, SumOverInt
<1>8. 100 * given <= 1 * off + 50 * n
  <2>1. TermsNear(100, answer, 1, Offs, 50, L)
    BY <1>4 DEF TermsNear
  <2> QED
    BY <1>1, <2>1, SumsNear
<1>9. 1 * off <= 100 * named + 49 * m /\ 100 * named <= 1 * off + 50 * m
  <2>1. TermsNear(1, Rows, 100, Totals, 49, W) /\ TermsNear(100, Totals, 1, Rows, 50, W)
    BY <1>5 DEF TermsNear
  <2> QED
    BY <1>1, <1>6, <2>1, SumsNear
<1>10. (\A i \in L : answer[i] < lines[i].quantity * lines[i].price) => 1 * off <= 100 * given + 49 * n
  <2> SUFFICES ASSUME \A i \in L : answer[i] < lines[i].quantity * lines[i].price
               PROVE  1 * off <= 100 * given + 49 * n
    OBVIOUS
  <2>1. TermsNear(1, Offs, 100, answer, 49, L)
    BY <1>4 DEF TermsNear
  <2> QED
    BY <1>1, <2>1, SumsNear
<1>11. 2 * given <= 2 * named + (n + m)
  <2> HIDE DEF given, named, off
  <2> QED
    BY <1>1, <1>7, <1>8, <1>9
<1>12. (\A i \in L : answer[i] < lines[i].quantity * lines[i].price) => 2 * named <= 2 * given + (n + m)
  <2> HIDE DEF given, named, off
  <2> QED
    BY <1>1, <1>7, <1>9, <1>10
<1> HIDE DEF given, named
<1> QED
  BY <1>3, <1>11, <1>12 DEF DiscountsAddUp, L, W, n, m

\* For any cart of distinct products and any running promotions, whoever wins: the discounts
\* of the lines add up to what the promotions named beside them give, to half a cent for
\* each of them, unless a line costs less (evaluate, calculate in
\* promotion-evaluation.service.ts).
THEOREM DiscountsAlwaysAddUp == PromotionSpec => []DiscountsAddUp
<1>1. PromotionInv => DiscountsAddUp
  <2>1. CASE stage = "answered" /\ Cardinality(Products) = Len(lines)
    BY <2>1, AddedUp
  <2>2. CASE ~(stage = "answered" /\ Cardinality(Products) = Len(lines))
    BY <2>2 DEF DiscountsAddUp
  <2> QED
    BY <2>1, <2>2
<1> QED
  BY <1>1, PromotionInvariant, PTL

-----------------------------------------------------------------------------
(* The desks together *)

\* Whoever sits at a desk of the front, every component takes steps of its own or rests.
\* (The fairness of price groups is promised at their desk only.)
THEOREM FrontKeepsItsSpecs ==
  FrontSpec => /\ PromotionSpec /\ PricingSpec /\ TierSpec
               /\ GroupInit /\ [][GroupNext]_groupVars
<1>1. FrontInit => PromotionInit /\ PricingInit /\ TierInit /\ GroupInit
  BY DEF FrontInit
<1>2. [FrontNext]_frontVars => /\ [PromotionNext]_promotionVars /\ [PricingNext]_pricingVars
                               /\ [TierNext]_tierVars /\ [GroupNext]_groupVars
  BY DEF FrontNext, AtGroups, AtPromotions, AtPricing, AtTiers, frontVars
<1> QED
  BY <1>1, <1>2, PTL DEF FrontSpec, PromotionSpec, PricingSpec, TierSpec

\* So what a store sells at, what it charges and the tier that is earned by it are right
\* together: the four invariants hold of the front as a whole.
COROLLARY FrontIsSafe ==
  FrontSpec => []CountFollowsChanges /\ []DiscountsAddUp /\ []AmountsAgree /\ []TierIsRight
<1>1. GroupInit /\ [][GroupNext]_groupVars => []CountFollowsChanges
  BY GroupInvInit, GroupInvStep, CountsAtRest, PTL
<1> QED
  BY <1>1, FrontKeepsItsSpecs, DiscountsAlwaysAddUp, AmountsAlwaysAgree, TiersAreRight, PTL
=============================================================================

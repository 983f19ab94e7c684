-------------------------------- MODULE Tiers --------------------------------
(***************************************************************************)
(* The tier of one customer in the stores of one owner.  A sale records    *)
(* what was spent and recalculates the tier in its transaction; staff may  *)
(* recalculate it too.  Both read the spending of the last sixty days and  *)
(* the rules in statements of their own and then write the tier, of the    *)
(* store or of all stores of the owner.                                    *)
(***************************************************************************)
EXTENDS Integers, FiniteSets, Functions

CONSTANTS
  Tills,       \* sales and recalculations in flight
  TierStores,  \* the stores of the owner
  TierRules,   \* rules that may be created: [store, minimum, sync]
  MaxSpend,    \* bound: purchases remembered per store
  NoRule,      \* no tier
  NoSale       \* nothing in flight

VARIABLES
  rules,     \* CustomerTierRule rows; nobody deactivates one
  members,   \* the stores with a CustomerStore row
  spent,     \* purchases of the last sixty days, per store
  tier,      \* the current tier rule per store
  sale,      \* what is in flight
  bought,    \* purchases ever made, per store
  current    \* the stores where nothing has changed since the tier was calculated

ASSUME TierAssumption ==
  /\ IsFiniteSet(TierStores)
  /\ TierRules \subseteq [store : TierStores, minimum : Nat, sync : BOOLEAN]
  /\ MaxSpend \in Nat
  /\ NoRule \notin TierRules

tierVars == <<rules, members, spent, tier, sale, bought, current>>

-----------------------------------------------------------------------------
TotalSpend(amounts) == SumFunction(amounts)

\* findFirst ... where minimumSpend <= spent, orderBy minimumSpend desc
Reached(candidates, amount) == {r \in candidates : r.minimum <= amount}
Highest(reached) ==
  IF reached = {} THEN NoRule ELSE CHOOSE r \in reached : \A o \in reached : o.minimum <= r.minimum

StoreRule(s, amounts) == Highest(Reached({r \in rules : ~r.sync /\ r.store = s}, amounts[s]))

OwnerRule(amounts) == Highest(Reached({r \in rules : r.sync}, TotalSpend(amounts)))

\* Mutant: a rule of the store always wins.
StoreFirst(s, amounts) ==
  IF StoreRule(s, amounts) # NoRule THEN StoreRule(s, amounts) ELSE OwnerRule(amounts)

\* findBestTierRule, and the same lines of recalculateCustomerTierForStore
BestRule(s, amounts) ==
  LET own == StoreRule(s, amounts)
      owner == OwnerRule(amounts)
  IN IF owner # NoRule /\ (own = NoRule \/ owner.minimum > own.minimum) THEN owner ELSE own

-----------------------------------------------------------------------------
\* What was calculated before is out of date.
Outdated(s) == [t \in Tills |-> IF s[t] = NoSale THEN NoSale ELSE [s[t] EXCEPT !.fresh = FALSE]]

CreateRule(r) ==
  /\ r \notin rules
  /\ rules' = rules \cup {r}
  /\ sale' = Outdated(sale)
  /\ current' = {}
  /\ UNCHANGED <<members, spent, tier, bought>>

\* A purchase is sixty days old.
Age(s) ==
  /\ spent[s] > 0
  /\ spent' = [spent EXCEPT ![s] = @ - 1]
  /\ sale' = Outdated(sale)
  /\ current' = {}
  /\ UNCHANGED <<rules, members, tier, bought>>

\* The purchase is inserted (amount > 0) and the spending is read: what others have
\* not committed yet does not count.  A checkout makes the customer a member.
CalculateTier(t, s, amount) ==
  /\ sale[t] = NoSale
  /\ bought[s] + amount <= MaxSpend
  /\ amount = 0 => s \in members
  /\ sale' = [sale EXCEPT ![t] =
                [store |-> s, amount |-> amount, joins |-> s \notin members, fresh |-> TRUE,
                 rule |-> BestRule(s, [spent EXCEPT ![s] = @ + amount])]]
  /\ UNCHANGED <<rules, members, spent, tier, bought, current>>

\* A rule of the owner is written to all stores the customer is a member of.
Assigned(s, r) ==
  [o \in TierStores |->
     IF o = s \/ (r # NoRule /\ r.sync /\ o \in members) THEN r ELSE tier[o]]

\* COMMIT of checkout, or of recalculateCustomerTier (amount = 0).
Assign(t) ==
  LET s == sale[t].store IN
  /\ sale[t] # NoSale
  /\ bought[s] + sale[t].amount <= MaxSpend
  /\ sale[t].joins => s \notin members
  /\ members' = members \cup {s}
  /\ spent' = [spent EXCEPT ![s] = @ + sale[t].amount]
  /\ bought' = [bought EXCEPT ![s] = @ + sale[t].amount]
  /\ tier' = Assigned(s, sale[t].rule)
  /\ current' = IF sale[t].fresh THEN {s} ELSE {}
  /\ sale' = Outdated([sale EXCEPT ![t] = NoSale])
  /\ UNCHANGED rules

Abort(t) ==
  /\ sale[t] # NoSale
  /\ sale' = [sale EXCEPT ![t] = NoSale]
  /\ UNCHANGED <<rules, members, spent, tier, bought, current>>

-----------------------------------------------------------------------------
TierInit ==
  /\ rules = {}
  /\ members = {}
  /\ spent = [s \in TierStores |-> 0]
  /\ bought = [s \in TierStores |-> 0]
  /\ tier = [s \in TierStores |-> NoRule]
  /\ sale = [t \in Tills |-> NoSale]
  /\ current = {}

TierNext ==
  \/ \E r \in TierRules : CreateRule(r)
  \/ \E s \in TierStores : Age(s)
  \/ \E t \in Tills :
       \/ \E s \in TierStores, amount \in 0 .. MaxSpend : CalculateTier(t, s, amount)
       \/ Assign(t) \/ Abort(t)

TierSpec == TierInit /\ [][TierNext]_tierVars

-----------------------------------------------------------------------------
(* Properties *)

\* No tier that the purchases, in the store or in all of them, never reached
Earned(s) ==
  tier[s] # NoRule =>
    IF tier[s].sync THEN tier[s].minimum <= TotalSpend(bought)
                    ELSE tier[s].store = s /\ tier[s].minimum <= bought[s]

Applicable(s) ==
  {r \in rules : IF r.sync THEN r.minimum <= TotalSpend(spent)
                           ELSE r.store = s /\ r.minimum <= spent[s]}

\* No rule that applies asks for more, and one of the store goes before an equal one
\* of the owner.
Best(s) ==
  IF Applicable(s) = {} THEN tier[s] = NoRule
  ELSE /\ tier[s] \in Applicable(s)
       /\ \A r \in Applicable(s) :
            r.minimum < tier[s].minimum \/ (r.minimum = tier[s].minimum /\ (tier[s].sync => r.sync))

\* However sales and recalculations in several stores overlap, the tier of a customer
\* was earned; and where it was calculated and nothing happened since the
\* calculation began, it is the best one.
TierIsRight == (\A s \in TierStores : Earned(s)) /\ (\A s \in current : Best(s))
=============================================================================

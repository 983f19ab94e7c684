------------------------------ MODULE Promotions ------------------------------
(***************************************************************************)
(* What the running promotions give for the lines of a cart: each is       *)
(* calculated on its own, then they compete in the order of their          *)
(* priority, and what those that are left give is taken off the lines.     *)
(*                                                                         *)
(* Prices are in cents and discounts in hundredths of a cent, so that a    *)
(* percentage of a price is a number.                                      *)
(***************************************************************************)
EXTENDS Integers, Sequences, FiniteSets, Functions

CONSTANTS
  LineLists,   \* bound: the lines that are evaluated: product, quantity, price, override
  OfferLists,  \* bound: the running promotions, as the query returns them
  NoLimit      \* maxApplicationsPerTransaction is null: more than any cart has units

CartLine == [product : STRING, quantity : Nat \ {0}, price : Nat, override : BOOLEAN]

\* A number of products to buy is at least one.
Promotion ==
  {o \in [type : STRING, buy : Nat, get : Nat, percent : Nat, amount : Nat, minimum : Nat,
          multiples : BOOLEAN, limit : Nat, products : SUBSET STRING, rewards : SUBSET STRING,
          excludesOverrides : BOOLEAN, priority : Nat, stackable : BOOLEAN, strategy : STRING] :
     o.type \in {"BUY_X_GET_Y", "QUANTITY_BUNDLE_PRICE"} => o.buy > 0}

ASSUME PromotionAssumption ==
  /\ LineLists \subseteq Seq(CartLine)
  /\ OfferLists \subseteq Seq(Promotion)

VARIABLES
  lines,   \* the lines of the request
  offers,  \* the promotions that were found
  rivals,  \* the candidates that have not competed yet
  winners, \* applied: the candidates that hold their place
  stage,   \* "asked", "competing", "answered" or "failed"
  answer   \* the discount of each line, when answered

promotionVars == <<lines, offers, rivals, winners, stage, answer>>

-----------------------------------------------------------------------------
Least(a, b) == IF a < b THEN a ELSE b
Above(a, b) == IF a > b THEN a - b ELSE 0

\* To whole cents, halves up.
Rounded(amount) == (amount + 50) \div 100

(* Lines are named by their places. *)

Worth(l) == l.quantity * l.price * 100
Quantity(s) == SumFunction([i \in s |-> lines[i].quantity])
Spend(s) == SumFunction([i \in s |-> Worth(lines[i])])
First(s) == CHOOSE i \in s : \A j \in s : i <= j

Qualifying(o) ==
  {i \in DOMAIN lines : /\ lines[i].product \in o.products
                        /\ ~(o.excludesOverrides /\ lines[i].override)}

\* Overridden prices are not excluded among the products of a reward of its own.
Rewarded(o) ==
  IF o.rewards = {} THEN Qualifying(o) ELSE {i \in DOMAIN lines : lines[i].product \in o.rewards}

-----------------------------------------------------------------------------
(* calculate: what a promotion takes off each of some lines *)

\* With allowMultiples off the promotion applies once, however few units there are.
Applications(o, group) ==
  Least(o.limit, IF o.multiples THEN Quantity(Qualifying(o)) \div group ELSE 1)

\* The lines whose units come before those of a line: cheaper, or as cheap and earlier
CheaperThan(o, i) ==
  {j \in Rewarded(o) : \/ lines[j].price < lines[i].price
                       \/ lines[j].price = lines[i].price /\ j < i}

\* The units of a reward are the cheapest ones.
UnitsOff(o, units) ==
  [i \in Rewarded(o) |->
     Least(Above(units, Quantity(CheaperThan(o, i))), lines[i].quantity) * lines[i].price * o.percent]

BuyAndGet(o) ==
  IF Quantity(Qualifying(o)) < o.buy THEN <<>>
  ELSE UnitsOff(o, Applications(o, IF o.rewards = {} THEN o.buy + o.get ELSE o.buy) * o.get)

PerLine(o, F(_)) == [i \in Qualifying(o) |-> F(lines[i])]

OnFirst(o, amount) == [i \in {First(Qualifying(o))} |-> amount]

\* The whole bundle is taken off the first line, at the average price of a unit.
Bundle(o) ==
  LET q == Qualifying(o)
      times == Applications(o, o.buy)
  IN IF times = 0 THEN <<>>
     ELSE OnFirst(o, Above((times * o.buy * Spend(q)) \div Quantity(q), times * o.amount * 100))

Threshold(o, amount) == IF Spend(Qualifying(o)) < o.minimum * 100 THEN <<>> ELSE OnFirst(o, amount)

\* Kinds of promotions that evaluation does not know give nothing.
Parts(o) ==
  CASE o.type = "BUY_X_GET_Y" -> BuyAndGet(o)
    [] o.type = "QUANTITY_BUNDLE_PRICE" -> Bundle(o)
    [] o.type = "PERCENT_OFF_ITEM" -> PerLine(o, LAMBDA l : l.quantity * l.price * o.percent)
    [] o.type = "FIXED_AMOUNT_OFF_ITEM" -> PerLine(o, LAMBDA l : l.quantity * o.amount * 100)
    [] o.type = "SPEND_THRESHOLD_FIXED_OFF" -> Threshold(o, o.amount * 100)
    [] o.type = "SPEND_THRESHOLD_PERCENT_OFF" ->
         Threshold(o, Least((Spend(Qualifying(o)) * o.percent) \div 100, o.amount * 100))
    [] o.type = "CUSTOM_PRICE" -> PerLine(o, LAMBDA l : l.quantity * Above(l.price, o.amount) * 100)
    [] OTHER -> <<>>

\* Without a qualifying line there is no first line: the request fails.
Fails(o) ==
  /\ Qualifying(o) = {}
  /\ \/ o.type = "QUANTITY_BUNDLE_PRICE" /\ ~o.multiples
     \/ o.type \in {"SPEND_THRESHOLD_FIXED_OFF", "SPEND_THRESHOLD_PERCENT_OFF"} /\ o.minimum = 0

\* add: per product, of each line no more than it costs
PartOf(parts, p) ==
  SumFunction([i \in {i \in DOMAIN parts : lines[i].product = p} |-> Least(Worth(lines[i]), parts[i])])

Products == {lines[i].product : i \in DOMAIN lines}

Candidate(i) ==
  LET off == [p \in Products |-> PartOf(Parts(offers[i]), p)]
  IN [offer |-> offers[i], at |-> i, off |-> off,
      total |-> Rounded(SumFunction(off))]

-----------------------------------------------------------------------------
(* evaluate *)

\* Higher priorities first, and in the order of the query among equals.
GoesBefore(c, d) ==
  \/ c.offer.priority > d.offer.priority
  \/ c.offer.priority = d.offer.priority /\ c.at < d.at

Candidates == {c \in {Candidate(i) : i \in DOMAIN offers} : c.total > 0}

Calculate ==
  /\ stage = "asked"
  /\ \E s \in LineLists, o \in OfferLists : lines' = s /\ offers' = o
  /\ IF \E i \in DOMAIN offers' : Fails(offers[i])'
     THEN stage' = "failed" /\ UNCHANGED rivals
     ELSE stage' = "competing" /\ rivals' = Candidates'
  /\ UNCHANGED <<winners, answer>>

\* The places of those that the candidate may not be combined with
Conflicts(c) ==
  {i \in DOMAIN winners : ~winners[i].offer.stackable \/ ~c.offer.stackable}

Beats(c, w) ==
  CASE c.offer.strategy = "BEST_CUSTOMER_DISCOUNT" -> c.total > w.total
    [] c.offer.strategy = "BEST_STORE_MARGIN" -> c.total < w.total
    [] OTHER -> c.offer.priority > w.offer.priority

\* The candidate takes the place of the first in conflict, and of no other one.
Replaced(c, i) == IF Beats(c, winners[i]) THEN [winners EXCEPT ![i] = c] ELSE winners

Compete ==
  \E c \in rivals :
    /\ \A d \in rivals \ {c} : GoesBefore(c, d)
    /\ winners' = IF Conflicts(c) = {} THEN Append(winners, c) ELSE Replaced(c, First(Conflicts(c)))
    /\ rivals' = rivals \ {c}
    /\ UNCHANGED <<lines, offers, stage, answer>>

\* Mutant: of several promotions for a product the last one counts.
LastOff(p) == IF winners = <<>> THEN 0 ELSE winners[Len(winners)].off[p]

Off(p) == SumFunction([i \in DOMAIN winners |-> winners[i].off[p]])

\* Every line of a product gets the discount of the product.
Answer ==
  /\ stage = "competing" /\ rivals = {}
  /\ stage' = "answered"
  /\ answer' = [i \in DOMAIN lines |-> Least(lines[i].quantity * lines[i].price, Rounded(Off(lines[i].product)))]
  /\ UNCHANGED <<lines, offers, rivals, winners>>

PromotionInit ==
  /\ lines = <<>> /\ offers = <<>> /\ rivals = {} /\ winners = <<>> /\ answer = <<>>
  /\ stage = "asked"

PromotionNext == Calculate \/ Compete \/ Answer

PromotionSpec == PromotionInit /\ [][PromotionNext]_promotionVars

-----------------------------------------------------------------------------
(* Properties *)

\* The test "combines promotions only when both are stackable" says so of promotions
\* of one priority; it must hold whichever compete.
StackableOnly ==
  \A i, j \in DOMAIN winners :
    i # j => winners[i].offer.stackable /\ winners[j].offer.stackable

\* The discounts of the lines are those of the promotions named beside them, to half a
\* cent each, unless a line costs less than they take off or a product is on two lines.
DiscountsAddUp ==
  stage = "answered" /\ Cardinality(Products) = Len(lines) =>
    LET given == SumFunction(answer)
        named == SumFunction([i \in DOMAIN winners |-> winners[i].total])
        slack == Len(lines) + Len(winners)
    IN /\ 2 * given <= 2 * named + slack
       /\ (\A i \in DOMAIN lines : answer[i] < lines[i].quantity * lines[i].price) =>
            2 * named <= 2 * given + slack
=============================================================================

-------------------------------- MODULE Pricing --------------------------------
(***************************************************************************)
(* The amounts of a sale, which three pieces of code calculate: the cart   *)
(* shows them, the checkout charges them, and a client may ask for them    *)
(* line by line without a cart.                                            *)
(*                                                                         *)
(* The discount of the customer's tier is shared out to the lines one by   *)
(* one, the last line gets what is left; then each line is taxed and       *)
(* everything is added up.  Taxes and the tier may change after the cart   *)
(* was shown; prices do not, the cart has its own.                         *)
(*                                                                         *)
(* Prices, taxes and rounded amounts are in cents, discounts in hundredths *)
(* of a cent, so that a percentage of a price is a number.                 *)
(***************************************************************************)
EXTENDS Integers, Sequences, Functions

CONSTANTS
  BilledLines,  \* bound: the lines of carts: quantity, unit (price), original (price
                \* before an override), rate (percent), surcharge, preDiscount (tax style)
  Discounts,    \* bound: discounts of tiers: model, value
  Rates,        \* bound: the rate a tax may change to
  NoBill        \* nothing is calculated yet

BilledLine ==
  [quantity : Nat, unit : Nat, original : Nat, rate : Nat, surcharge : Nat, preDiscount : BOOLEAN]

Bill == [lines : Seq(BilledLine) \ {<<>>}, model : STRING, value : Nat]

ASSUME PricingAssumption ==
  /\ BilledLines \subseteq Seq(BilledLine) \ {<<>>}
  /\ Discounts \subseteq [model : STRING, value : Nat]
  /\ Rates \subseteq Nat
  /\ NoBill \notin Bill

VARIABLES
  bill,     \* the cart: lines, model, value
  shares,   \* loyaltyDiscount of the lines that have theirs
  receipt,  \* the amounts of the transaction
  shown,    \* the amounts the cart showed
  changed,  \* a tax or the tier changed since the cart was shown
  quote     \* the amounts a client was told for the same lines and discounts

pricingVars == <<bill, shares, receipt, shown, changed, quote>>

-----------------------------------------------------------------------------
Added(s) == SumFunction(s)
Smaller(a, b) == IF a < b THEN a ELSE b
Larger(a, b) == IF a > b THEN a ELSE b

\* The nearest number to a / b, away from zero in the middle: ROUND_HALF_UP.
RoundedDiv(a, b) ==
  IF a >= 0 THEN (2 * a + b) \div (2 * b) ELSE -((b - 2 * a) \div (2 * b))

RoundMoney(amount) == RoundedDiv(amount, 100)

LineSubtotal(l) == l.unit * l.quantity
ItemDiscount(l) == Larger((l.original - l.unit) * l.quantity, 0)

Subtotal == Added([i \in DOMAIN bill.lines |-> LineSubtotal(bill.lines[i])])

\* Of a line by itself, for the models that look at lines
OwnDiscount(l) ==
  Smaller(LineSubtotal(l) * 100,
          IF bill.model = "ITEM_PERCENTAGE" THEN LineSubtotal(l) * bill.value
                                            ELSE bill.value * l.quantity * 100)

\* applyCartLoyaltyDiscounts, before it is rounded; a customer without a tier has none
LoyaltyDiscount ==
  CASE bill.model = "ORDER_PERCENTAGE" -> Subtotal * bill.value
    [] bill.model = "ORDER_FLAT_RATE" -> Smaller(bill.value, Subtotal) * 100
    [] bill.model = "NONE" -> 0
    [] OTHER -> Added([i \in DOMAIN bill.lines |-> OwnDiscount(bill.lines[i])])

OrderModel == bill.model \in {"ORDER_PERCENTAGE", "ORDER_FLAT_RATE"}

-----------------------------------------------------------------------------
OpenBill(ls, d) ==
  /\ bill = NoBill
  /\ bill' = [lines |-> ls, model |-> d.model, value |-> d.value]
  /\ UNCHANGED <<shares, receipt, shown, changed, quote>>

Remaining(before) == Smaller(LoyaltyDiscount, Subtotal * 100) - Added(before)

\* distributeCartLoyaltyDiscount: the share of a line in whole cents, and for the last
\* line what remains, which may be less than nothing.
OrderShare(l, before) ==
  IF Subtotal = 0 THEN 0
  ELSE Smaller(LineSubtotal(l) * 100,
               IF Len(before) + 1 = Len(bill.lines) THEN Remaining(before)
               ELSE 100 * RoundedDiv(LoyaltyDiscount * LineSubtotal(l), Subtotal * 100))

\* The shares of the lines before and that of the next line
WithShareOf(before, l) ==
  Append(before, IF OrderModel THEN OrderShare(l, before)
                 ELSE IF bill.model = "NONE" THEN 0 ELSE OwnDiscount(l))

ShareDiscount ==
  /\ bill # NoBill
  /\ Len(shares) < Len(bill.lines)
  /\ shares' = WithShareOf(shares, bill.lines[Len(shares) + 1])
  /\ UNCHANGED <<bill, receipt, shown, changed, quote>>

-----------------------------------------------------------------------------
(* Adding up *)

LineLoyalty(share) == RoundMoney(share)

\* calculateLineTax
Tax(taxable, l) == RoundMoney(taxable * l.rate + l.surcharge * 100)

\* The style of the product says what is taxed.
LineTax(l, share) ==
  Tax(IF l.preDiscount THEN LineSubtotal(l) ELSE Larger(LineSubtotal(l) - LineLoyalty(share), 0), l)

LineTotal(l, share) == Larger(LineSubtotal(l) - LineLoyalty(share) + LineTax(l, share), 0)

LoyaltyTotal == RoundMoney(Smaller(LoyaltyDiscount, Subtotal * 100))

\* What validateCheckoutCart returns
Amounts(given) ==
  LET ls == bill.lines
      tax == Added([i \in DOMAIN ls |-> LineTax(ls[i], given[i])])
  IN [lines |-> [i \in DOMAIN ls |->
                   [discount |-> ItemDiscount(ls[i]) + LineLoyalty(given[i]),
                    tax |-> LineTax(ls[i], given[i]), total |-> LineTotal(ls[i], given[i])]],
      discount |-> LoyaltyTotal + Added([i \in DOMAIN ls |-> ItemDiscount(ls[i])]),
      tax |-> tax,
      total |-> Larger(Subtotal - LoyaltyTotal + tax, 0)]

Total ==
  /\ bill # NoBill
  /\ receipt = <<>>
  /\ Len(shares) = Len(bill.lines)
  /\ receipt' = Amounts(shares)
  /\ UNCHANGED <<bill, shares, shown, changed, quote>>

-----------------------------------------------------------------------------
(* The cart and the client *)

\* applyLoyaltyDiscounts of the cart: of a line by itself, and of all of them
CartItemLoyalty(l) ==
  Smaller(LineSubtotal(l) * 100,
          IF bill.model = "ITEM_PERCENTAGE" THEN LineSubtotal(l) * bill.value
                                            ELSE bill.value * l.quantity * 100)

CartLoyalty ==
  CASE bill.model = "ORDER_PERCENTAGE" -> Subtotal * bill.value
    [] bill.model = "ORDER_FLAT_RATE" -> Smaller(bill.value, Subtotal) * 100
    [] bill.model = "NONE" -> 0
    [] OTHER -> Added([i \in DOMAIN bill.lines |-> CartItemLoyalty(bill.lines[i])])

\* Mutant: the last line of the cart is rounded like the others.
RoundedLast(before, l) ==
  IF OrderModel
  THEN IF Subtotal = 0 THEN 0
       ELSE Smaller(LineSubtotal(l) * 100, 100 * RoundedDiv(CartLoyalty * LineSubtotal(l), Subtotal * 100))
  ELSE IF bill.model = "NONE" THEN 0 ELSE CartItemLoyalty(l)

\* distributeLoyaltyDiscount of the cart
CartShare(before, l) ==
  IF OrderModel
  THEN IF Subtotal = 0 THEN 0
       ELSE Smaller(LineSubtotal(l) * 100,
                    IF Len(before) + 1 = Len(bill.lines)
                    THEN Smaller(CartLoyalty, Subtotal * 100) - Added(before)
                    ELSE 100 * RoundedDiv(CartLoyalty * LineSubtotal(l), Subtotal * 100))
  ELSE IF bill.model = "NONE" THEN 0 ELSE CartItemLoyalty(l)

CartShares ==
  LET upTo[k \in 0 .. Len(bill.lines)] ==
        IF k = 0 THEN <<>> ELSE Append(upTo[k - 1], CartShare(upTo[k - 1], bill.lines[k]))
  IN upTo[Len(bill.lines)]

CartItem(l, share) ==
  LET paid == LineSubtotal(l) - RoundMoney(share)
      tax == Tax(IF l.preDiscount THEN LineSubtotal(l) ELSE Larger(paid, 0), l)
  IN [tax |-> tax, total |-> Larger(paid + tax, 0)]

\* What calculateCart returns
CartAmounts(given) ==
  LET ls == bill.lines
      loyalty == RoundMoney(Smaller(CartLoyalty, Subtotal * 100))
      tax == Added([i \in DOMAIN ls |-> CartItem(ls[i], given[i]).tax])
  IN [items |-> [i \in DOMAIN ls |-> CartItem(ls[i], given[i])],
      itemDiscount |-> Added([i \in DOMAIN ls |-> ItemDiscount(ls[i])]),
      loyaltyDiscount |-> loyalty,
      tax |-> tax,
      total |-> Larger(Subtotal - loyalty + tax, 0)]

ShowCart ==
  /\ bill # NoBill
  /\ shown = <<>> /\ shares = <<>>
  /\ shown' = CartAmounts(CartShares)
  /\ UNCHANGED <<bill, shares, receipt, changed, quote>>

\* The checkout has read the cart and its tier, and reads products with their taxes.
ChangeTax(i, rate) ==
  /\ shown # <<>> /\ receipt = <<>> /\ ~changed
  /\ bill' = [bill EXCEPT !.lines[i].rate = rate]
  /\ changed' = TRUE
  /\ UNCHANGED <<shares, receipt, shown, quote>>

ChangeTier(d) ==
  /\ shown # <<>> /\ shares = <<>> /\ ~changed
  /\ bill' = [bill EXCEPT !.model = d.model, !.value = d.value]
  /\ changed' = TRUE
  /\ UNCHANGED <<shares, receipt, shown, quote>>

\* A line of validateCartForStore: the price is the product's, the discount the
\* client's.
Quoted(l, discount) ==
  LET price == l.original * l.quantity
      tax == Tax(IF l.preDiscount THEN price ELSE price - discount, l)
  IN [tax |-> tax, total |-> price - discount + tax]

\* validateCartForStore, asked for the lines and the discounts of the receipt; a
\* discount must not be negative nor exceed its line.
Quote ==
  /\ receipt # <<>> /\ quote = <<>>
  /\ \A i \in DOMAIN bill.lines :
       receipt.lines[i].discount \in 0 .. bill.lines[i].original * bill.lines[i].quantity
  /\ quote' = [i \in DOMAIN bill.lines |-> Quoted(bill.lines[i], receipt.lines[i].discount)]
  /\ UNCHANGED <<bill, shares, receipt, shown, changed>>

PricingInit ==
  /\ bill = NoBill /\ shares = <<>> /\ receipt = <<>>
  /\ shown = <<>> /\ changed = FALSE /\ quote = <<>>

PricingNext ==
  \/ \E ls \in BilledLines, d \in Discounts : OpenBill(ls, d)
  \/ ShareDiscount \/ Total \/ ShowCart \/ Quote
  \/ bill # NoBill /\ \E i \in DOMAIN bill.lines, rate \in Rates : ChangeTax(i, rate)
  \/ \E d \in Discounts : ChangeTier(d)

PricingSpec == PricingInit /\ [][PricingNext]_pricingVars

-----------------------------------------------------------------------------
(* Properties *)

Near(a, b, n) == 2 * (a - b) <= n /\ 2 * (b - a) <= n

\* The totals and the discounts of a receipt's lines add up to its total and its
\* discount, to half a cent a line, whichever tax styles and overridden prices meet in
\* it and however the discount is shared out; and what was taken off and what is
\* to be paid make up the original prices and the tax.
AddsUp ==
  receipt # <<>> =>
    LET n == Len(bill.lines) IN
    /\ Near(Added([i \in 1 .. n |-> receipt.lines[i].total]), receipt.total, n)
    /\ Near(Added([i \in 1 .. n |-> receipt.lines[i].discount]), receipt.discount, n)
    /\ (\A i \in 1 .. n : bill.lines[i].unit <= bill.lines[i].original) =>
         receipt.total + receipt.discount =
           receipt.tax + Added([i \in 1 .. n |-> bill.lines[i].original * bill.lines[i].quantity])

\* A receipt has the taxes and the totals of the cart, line by line and altogether, and
\* its discount is that of the lines and that of the tier.
SameAmounts(charged, cart) ==
  /\ \A i \in DOMAIN charged.lines :
       charged.lines[i].tax = cart.items[i].tax /\ charged.lines[i].total = cart.items[i].total
  /\ charged.discount = cart.loyaltyDiscount + cart.itemDiscount
  /\ charged.tax = cart.tax /\ charged.total = cart.total

\* The customer pays what the cart showed, unless a tax or the tier changed.
ShownIsCharged == receipt # <<>> /\ shown # <<>> /\ ~changed => SameAmounts(receipt, shown)

\* A client is told the taxes of the receipt, and its total to half a cent a line,
\* when it asks for the lines of a receipt without overridden prices.
QuoteIsCharged ==
  quote # <<>> /\ (\A i \in DOMAIN bill.lines : bill.lines[i].unit = bill.lines[i].original) =>
    LET n == Len(bill.lines) IN
    /\ \A i \in 1 .. n : quote[i].tax = receipt.lines[i].tax
    /\ Near(Added([i \in 1 .. n |-> quote[i].total]), receipt.total, n)

\* The three calculations agree, and each adds up.
AmountsAgree == AddsUp /\ ShownIsCharged /\ QuoteIsCharged
=============================================================================

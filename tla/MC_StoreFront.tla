----------------------------- MODULE MC_StoreFront -----------------------------
EXTENDS StoreFront, TLC

CONSTANTS u1, u2, g1, i1

-----------------------------------------------------------------------------
(* Price groups *)

Row == [group |-> g1, price |-> 1, active |-> TRUE]
ARowOrNone == {NoGoods, Row}
ChangesOfGoods == {[price |-> 2], [group |-> NoGroup], [group |-> g1]}

-----------------------------------------------------------------------------
(* Tiers: a store's own, the owner's at less and at more *)

Rule(store, minimum, sync) == [store |-> store, minimum |-> minimum, sync |-> sync]
SomeRules == {Rule("r1", 2, FALSE), Rule("r2", 1, TRUE), Rule("r1", 3, TRUE)}

-----------------------------------------------------------------------------
(* Pricing: overridden upwards and downwards, free, taxed before and after discounts *)

Plain(quantity, unit, rate) ==
  [quantity |-> quantity, unit |-> unit, original |-> 3, rate |-> rate, surcharge |-> 0, preDiscount |-> TRUE]
FewLines ==
  {Plain(2, 3, 10),
   [quantity |-> 1, unit |-> 5, original |-> 4, rate |-> 15, surcharge |-> 2, preDiscount |-> FALSE],
   [quantity |-> 1, unit |-> 1, original |-> 1, rate |-> 50, surcharge |-> 0, preDiscount |-> FALSE]}
MoreLines ==
  FewLines \cup {Plain(2, 0, 10), Plain(1, 1, 10), Plain(1, 0, 0), Plain(2, 1, 0), Plain(1, 3, 0)}
Bills ==
  {<<a>> : a \in MoreLines} \cup {<<a, b>> : a, b \in MoreLines} \cup {<<a, b, c>> : a, b, c \in FewLines}
TierDiscounts ==
  [model : {"ORDER_PERCENTAGE", "ITEM_PERCENTAGE"}, value : {10, 50}] \cup
  [model : {"ORDER_FLAT_RATE", "ITEM_FLAT_RATE"}, value : {1, 2}] \cup {[model |-> "NONE", value |-> 0]}

-----------------------------------------------------------------------------
(* Promotions of every kind that evaluation knows, alone and against each other *)

AB == {"a", "b"}
L(product, quantity, price, override) ==
  [product |-> product, quantity |-> quantity, price |-> price, override |-> override]
Baskets ==
  {<<L("a", 2, 10, FALSE)>>, <<L("a", 1, 10, FALSE), L("b", 3, 5, FALSE)>>,
   <<L("a", 2, 9, FALSE), L("a", 1, 7, TRUE)>>, <<L("b", 1, 3, TRUE)>>}
Offer == [type |-> "BUY_X_GET_Y", buy |-> 0, get |-> 0, percent |-> 0, amount |-> 0, minimum |-> 0,
          multiples |-> TRUE, limit |-> NoLimit, products |-> AB, rewards |-> {}, excludesOverrides |-> TRUE]
Kinds ==
  {[Offer EXCEPT !.buy = 1, !.get = 1, !.percent = 100],
   [Offer EXCEPT !.buy = 2, !.get = 1, !.percent = 50, !.multiples = FALSE, !.limit = 1, !.rewards = {"b"}],
   [Offer EXCEPT !.type = "QUANTITY_BUNDLE_PRICE", !.buy = 2, !.amount = 15, !.multiples = FALSE],
   [Offer EXCEPT !.type = "PERCENT_OFF_ITEM", !.percent = 15],
   [Offer EXCEPT !.type = "FIXED_AMOUNT_OFF_ITEM", !.amount = 2],
   [Offer EXCEPT !.type = "SPEND_THRESHOLD_FIXED_OFF", !.amount = 6, !.minimum = 10],
   [Offer EXCEPT !.type = "SPEND_THRESHOLD_PERCENT_OFF", !.percent = 10, !.amount = 3],
   [Offer EXCEPT !.type = "CUSTOM_PRICE", !.amount = 8],
   [Offer EXCEPT !.type = "MIX_AND_MATCH_BUNDLE", !.buy = 2, !.amount = 15]}
Terms(priority, stackable, strategy) ==
  [priority |-> priority, stackable |-> stackable, strategy |-> strategy]
Rivals ==
  {o @@ t : o \in Kinds,
            t \in {Terms(1, TRUE, "PRIORITY"), Terms(1, FALSE, "BEST_CUSTOMER_DISCOUNT"),
                   Terms(2, FALSE, "BEST_STORE_MARGIN")}}
Small == [Offer EXCEPT !.type = "FIXED_AMOUNT_OFF_ITEM", !.amount = 1] @@ Terms(1, TRUE, "PRIORITY")
Tenth == [Offer EXCEPT !.type = "PERCENT_OFF_ITEM", !.percent = 10] @@ Terms(1, TRUE, "PRIORITY")
Running == {<<o>> : o \in Rivals} \cup {<<o, p>> : o, p \in Rivals} \cup {<<Small, Tenth, o>> : o \in Rivals}
=============================================================================

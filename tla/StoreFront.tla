------------------------------ MODULE StoreFront ------------------------------
(***************************************************************************)
(* What a store sells at (price groups, promotions and the amounts of a    *)
(* sale) and the tier that a customer earns by it.  These components share *)
(* no rows in what they are modelled with, so that all that their          *)
(* interleavings could show is shown by each at a desk of its own: a       *)
(* behaviour stays at the desk it begins at.                               *)
(***************************************************************************)
EXTENDS PriceGroups, Promotions, Pricing, Tiers

CONSTANT FrontDesks  \* the components that may act

ASSUME FrontDeskAssumption == FrontDesks \subseteq {"groups", "promotions", "pricing", "tiers"}

VARIABLE desk        \* the component that acts

frontVars == <<desk, groupVars, promotionVars, pricingVars, tierVars>>

-----------------------------------------------------------------------------
FrontInit ==
  /\ desk \in FrontDesks
  /\ GroupInit /\ PromotionInit /\ PricingInit /\ TierInit
  /\ desk # "groups" => goods = [i \in Goods |-> NoGoods]

AtGroups == desk = "groups" /\ GroupNext /\ UNCHANGED <<promotionVars, pricingVars, tierVars>>
AtPromotions == desk = "promotions" /\ PromotionNext /\ UNCHANGED <<groupVars, pricingVars, tierVars>>
AtPricing == desk = "pricing" /\ PricingNext /\ UNCHANGED <<groupVars, promotionVars, tierVars>>
AtTiers == desk = "tiers" /\ TierNext /\ UNCHANGED <<groupVars, promotionVars, pricingVars>>

FrontNext == (AtGroups \/ AtPromotions \/ AtPricing \/ AtTiers) /\ UNCHANGED desk

\* The fairness of PriceGroups, at its desk
FrontFairness == desk = "groups" => GroupFairness

FrontSpec == FrontInit /\ [][FrontNext]_frontVars /\ FrontFairness
=============================================================================

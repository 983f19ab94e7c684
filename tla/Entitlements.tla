---------------------------- MODULE Entitlements ----------------------------
(***************************************************************************)
(* What billing promises of the paid features of a store: they change only *)
(* when an event of Stripe that was not used before tells a state the      *)
(* subscription really was in, or when the owner gives one up.             *)
(***************************************************************************)
CONSTANTS Events, Snapshots, Features

VARIABLES
  features,  \* the paid features the store has
  seen,      \* the events that were used
  past       \* the states the store's subscriptions have been in

entitlementVars == <<features, seen, past>>

\* What a subscription pays for.
Entitled(s) ==
  (IF s.usable /\ s.loyalty THEN {"loyalty"} ELSE {}) \cup
  (IF s.usable /\ s.plan = "advanced" THEN {"vendor_orders"} ELSE {})

\* A new store, or one whose first subscription is settled.
EntitlementInit ==
  \/ seen = {} /\ past = {} /\ features = {}
  \/ \E s \in Snapshots : seen \subseteq Events /\ past = {s} /\ features = Entitled(s)

SubscriptionChanges ==
  /\ \E s \in Snapshots : past' = past \cup {s}
  /\ UNCHANGED <<features, seen>>

EventArrives ==
  /\ \E e \in Events \ seen : seen' = seen \cup {e}
  /\ features' = features \/ \E s \in past : features' = Entitled(s)
  /\ UNCHANGED past

GiveUp ==
  /\ \E f \in features : features' = features \ {f}
  /\ UNCHANGED <<seen, past>>

EntitlementNext == SubscriptionChanges \/ EventArrives \/ GiveUp

EntitlementSpec == EntitlementInit /\ [][EntitlementNext]_entitlementVars
=============================================================================

------------------------------- MODULE Billing -------------------------------
(***************************************************************************)
(* The subscription of one store: its owner opens Stripe's checkout and    *)
(* adds or removes the loyalty service; Stripe tells what became of it by  *)
(* webhooks, which come late, repeated and in any order.  Requests call    *)
(* Stripe between statements, and the server may stop in between.          *)
(***************************************************************************)
EXTENDS Naturals, Sequences, FiniteSets

CONSTANTS
  Calls,        \* requests of the owner and webhooks in flight
  Plans,        \* a subset of {"plus", "advanced"}
  MaxSessions,  \* bound: checkout sessions opened
  MaxEvents,    \* bound: events of Stripe
  NoCall,       \* nothing in flight
  NoPlan,       \* there is no StoreSubscription row
  NoSnapshot    \* the session is not paid, the event tells no state

ASSUME BillingAssumption == MaxSessions \in Nat /\ MaxEvents \in Nat /\ MaxEvents >= 2
ASSUME NothingAssumption == NoPlan \notin Plans /\ NoCall \notin [step : {"store"}, session : Nat]

VARIABLES
  subscription, \* the StoreSubscription row: status, plan, session, attempt, stripe
                \* (the session whose subscription it names)
  active,       \* the store is active
  features,     \* StoreFeature rows of source "subscription" that are enabled
  service,      \* the loyalty StoreServiceSubscription row: status, item (the session
                \* whose subscription has it)
  seen,         \* StripeWebhookEvent rows
  sessions,     \* Stripe: checkout sessions, and the subscription each has become
  past,         \* Stripe: the states those subscriptions have been in
  events,       \* Stripe: the events, oldest first
  call,         \* the requests in flight and what they have read
  attempts,     \* idempotency keys made
  excused       \* something happened that may leave two sessions open

storeRows == <<subscription, active, features, service, seen>>
stripeState == <<sessions, past, events>>
billingVars == <<storeRows, stripeState, call, attempts, excused>>

-----------------------------------------------------------------------------
(* Requests *)

Free(c) == call[c] = NoCall
Busy(c, step) == call[c] # NoCall /\ call[c].step = step
Goes(c, k) == call' = [call EXCEPT ![c] = k]

\* The server stops, or a statement or a call of Stripe fails.
BreakOff(c) ==
  /\ ~Free(c)
  /\ Goes(c, NoCall)
  /\ excused' = (excused \/ (Busy(c, "store") /\ subscription.session # 0))
  /\ UNCHANGED <<storeRows, stripeState, attempts>>

Usable == subscription.status = "usable"

-----------------------------------------------------------------------------
(* Stripe *)

\* A key that Stripe has seen before gets the session it got then.
SessionOf(key) == {s \in DOMAIN sessions : sessions[s].key = key}

Paid(s) == sessions[s].snapshot # NoSnapshot

Tell(kind, s, snapshot) == [kind |-> kind, session |-> s, snapshot |-> snapshot]

PaySession(s) ==
  LET snapshot == [usable |-> TRUE, plan |-> sessions[s].plan, loyalty |-> FALSE] IN
  /\ sessions[s].open
  /\ Len(events) + 2 <= MaxEvents
  /\ sessions' = [sessions EXCEPT ![s].open = FALSE, ![s].snapshot = snapshot]
  /\ past' = past \cup {snapshot}
  /\ events' = events \o <<Tell("completed", s, NoSnapshot), Tell("changed", s, snapshot)>>
  /\ UNCHANGED <<storeRows, call, attempts, excused>>

ExpireSession(s) ==
  /\ sessions[s].open
  /\ sessions' = [sessions EXCEPT ![s].open = FALSE]
  /\ UNCHANGED <<storeRows, past, events, call, attempts, excused>>

\* A subscription changes and Stripe tells so; the event of an invoice tells no state.
Change(s, snapshot, kind) ==
  /\ Len(events) < MaxEvents
  /\ sessions' = [sessions EXCEPT ![s].snapshot = snapshot]
  /\ past' = past \cup {snapshot}
  /\ events' = Append(events, Tell(kind, s, IF kind = "invoice" THEN NoSnapshot ELSE snapshot))

\* A payment fails or succeeds, or the subscription is canceled.
SubscriptionPaid(s, usable, kind) ==
  /\ Paid(s)
  /\ Change(s, [sessions[s].snapshot EXCEPT !.usable = usable], kind)
  /\ UNCHANGED <<storeRows, call, attempts, excused>>

-----------------------------------------------------------------------------
(* createCheckoutSession *)

Alone(c) == \A o \in Calls \ {c} : Free(o)

AskCheckout(c, plan) ==
  /\ Free(c)
  /\ ~active
  /\ ~Usable
  /\ Goes(c, [step |-> IF subscription.session # 0 THEN "retrieve" ELSE "save",
               plan |-> plan, row |-> subscription])
  /\ excused' = (excused \/ ~Alone(c) \/ subscription.plan \notin {NoPlan, plan})
  /\ UNCHANGED <<storeRows, stripeState, attempts>>

\* An open session is given again, for the plan it was opened for.
RetrieveSession(c) ==
  /\ Busy(c, "retrieve")
  /\ Goes(c, IF sessions[call[c].row.session].open THEN NoCall ELSE [call[c] EXCEPT !.step = "save"])
  /\ UNCHANGED <<storeRows, stripeState, attempts, excused>>

\* A session that cannot be retrieved counts as one that is not open.
RetrieveFails(c) ==
  /\ Busy(c, "retrieve")
  /\ Goes(c, [call[c] EXCEPT !.step = "save"])
  /\ excused' = TRUE
  /\ UNCHANGED <<storeRows, stripeState, attempts>>

\* Mutant: every attempt makes a key of its own.
NeverAgain(row, plan) == FALSE

\* getCheckoutAttempt: the key that was saved is used again.
SameAttempt(row, plan) == row.attempt # 0 /\ row.session = 0 /\ row.plan = plan

\* The attempt is saved before Stripe is asked, over whatever the row is by now.
SaveAttempt(c) ==
  LET key == IF SameAttempt(call[c].row, call[c].plan) THEN call[c].row.attempt ELSE attempts + 1 IN
  /\ Busy(c, "save")
  /\ key <= MaxSessions
  /\ subscription' = [subscription EXCEPT !.status = "pending", !.plan = call[c].plan, !.attempt = key]
  /\ attempts' = IF key > attempts THEN key ELSE attempts
  /\ Goes(c, [step |-> "create", plan |-> call[c].plan, key |-> key])
  /\ UNCHANGED <<active, features, service, seen, stripeState, excused>>

CreateSession(c) ==
  LET found == SessionOf(call[c].key) IN
  /\ Busy(c, "create")
  /\ found = {} => Len(sessions) < MaxSessions
  /\ sessions' = IF found # {} THEN sessions
                 ELSE Append(sessions, [key |-> call[c].key, plan |-> call[c].plan, open |-> TRUE,
                                        snapshot |-> NoSnapshot])
  /\ Goes(c, [step |-> "store",
               session |-> IF found # {} THEN CHOOSE s \in found : TRUE ELSE Len(sessions) + 1])
  /\ UNCHANGED <<storeRows, past, events, attempts, excused>>

StoreSession(c) ==
  /\ Busy(c, "store")
  /\ subscription' = [subscription EXCEPT !.session = call[c].session]
  /\ Goes(c, NoCall)
  /\ UNCHANGED <<active, features, service, seen, stripeState, attempts, excused>>

-----------------------------------------------------------------------------
(* addStoreService, removeStoreService *)

AskService(c) ==
  /\ Free(c)
  /\ Usable /\ subscription.stripe # 0
  /\ service.status \notin {"active", "pending"}
  /\ service' = [service EXCEPT !.status = "pending"]
  /\ Goes(c, [step |-> "add", session |-> subscription.stripe])
  /\ UNCHANGED <<subscription, active, features, seen, stripeState, attempts, excused>>

AddServiceItem(c) ==
  /\ Busy(c, "add")
  /\ Change(call[c].session, [sessions[call[c].session].snapshot EXCEPT !.loyalty = TRUE], "changed")
  /\ Goes(c, [call[c] EXCEPT !.step = "item"])
  /\ UNCHANGED <<storeRows, attempts, excused>>

\* Every addition for a store has the same key: one that follows a removal within a day
\* gets the answer of the first, and nothing is added.
ServiceItemAgain(c) ==
  /\ Busy(c, "add")
  /\ \E snapshot \in past : snapshot.loyalty
  /\ Goes(c, [call[c] EXCEPT !.step = "item"])
  /\ UNCHANGED <<storeRows, stripeState, attempts, excused>>

StoreServiceItem(c) ==
  /\ Busy(c, "item")
  /\ service' = [service EXCEPT !.item = call[c].session]
  /\ Goes(c, NoCall)
  /\ UNCHANGED <<subscription, active, features, seen, stripeState, attempts, excused>>

RemoveServiceItem(c) ==
  /\ Free(c)
  /\ service.item # 0
  /\ sessions[service.item].snapshot.loyalty
  /\ Change(service.item, [sessions[service.item].snapshot EXCEPT !.loyalty = FALSE], "changed")
  /\ Goes(c, [step |-> "canceled"])
  /\ UNCHANGED <<storeRows, attempts, excused>>

CancelService(c) ==
  /\ Busy(c, "canceled")
  /\ service' = [service EXCEPT !.status = "canceled"]
  /\ Goes(c, [step |-> "disable"])
  /\ UNCHANGED <<subscription, active, features, seen, stripeState, attempts, excused>>

DisableLoyalty(c) ==
  /\ Busy(c, "disable")
  /\ features' = features \ {"loyalty"}
  /\ Goes(c, NoCall)
  /\ UNCHANGED <<subscription, active, service, seen, stripeState, attempts, excused>>

-----------------------------------------------------------------------------
(* handleWebhook *)

\* Stripe sends an event until it is answered, and sometimes again.
Deliver(c, e) ==
  /\ Free(c)
  /\ e \notin seen
  /\ Goes(c, [step |-> IF events[e].kind = "invoice" THEN "invoice" ELSE "apply",
               event |-> e, snapshot |-> events[e].snapshot])
  /\ UNCHANGED <<storeRows, stripeState, attempts, excused>>

\* For an invoice the subscription is asked for its state.
RetrieveSubscription(c) ==
  /\ Busy(c, "invoice")
  /\ Goes(c, [call[c] EXCEPT !.step = "apply", !.snapshot = sessions[events[call[c].event].session].snapshot])
  /\ UNCHANGED <<storeRows, stripeState, attempts, excused>>

\* Mutant: a known event is only found by the read before the transaction.
RecordAnyway(e) == TRUE

\* INSERT of the event; its primary key refuses a second one.
RecordEvent(e) == e \notin seen

\* syncLoyaltyEntitlement, syncVendorOrdersEntitlement
Entitlement(s) ==
  (IF s.usable /\ s.loyalty THEN {"loyalty"} ELSE {}) \cup
  (IF s.usable /\ s.plan = "advanced" THEN {"vendor_orders"} ELSE {})

\* syncSubscription
SyncSubscription(c) ==
  LET e == call[c].event
      s == call[c].snapshot
  IN /\ Busy(c, "apply")
     /\ s # NoSnapshot
     /\ RecordEvent(e)
     /\ seen' = seen \cup {e}
     /\ subscription' = [subscription EXCEPT !.plan = s.plan, !.stripe = events[e].session,
                                             !.status = IF s.usable THEN "usable" ELSE "unusable"]
     /\ active' = s.usable
     /\ features' = Entitlement(s)
     /\ service' = [status |-> IF "loyalty" \in Entitlement(s) THEN "active" ELSE "canceled",
                    item |-> IF s.loyalty THEN events[e].session ELSE 0]
     /\ Goes(c, NoCall)
     /\ UNCHANGED <<stripeState, attempts, excused>>

\* handleCheckoutCompleted links the session, and does not activate the store.  An event
\* that comes late links it over one that is open by now.
CheckoutCompleted(c) ==
  LET e == call[c].event IN
  /\ Busy(c, "apply")
  /\ call[c].snapshot = NoSnapshot
  /\ RecordEvent(e)
  /\ seen' = seen \cup {e}
  /\ subscription' = [subscription EXCEPT !.session = events[e].session,
                                          !.stripe = events[e].session,
                                          !.plan = sessions[events[e].session].plan]
  /\ excused' = (excused \/ \E s \in DOMAIN sessions : sessions[s].open)
  /\ Goes(c, NoCall)
  /\ UNCHANGED <<active, features, service, stripeState, attempts>>

-----------------------------------------------------------------------------
NewStore ==
  /\ subscription = [status |-> "none", plan |-> NoPlan, session |-> 0, attempt |-> 0, stripe |-> 0]
  /\ active = FALSE
  /\ features = {}
  /\ service = [status |-> "none", item |-> 0]
  /\ sessions = <<>>
  /\ past = {}
  /\ events = <<>>
  /\ seen = {}
  /\ attempts = 0

\* A store that has paid for its first session and for loyalty, and was told so.
SubscribedStore ==
  \E plan \in Plans :
    LET snapshot == [usable |-> TRUE, plan |-> plan, loyalty |-> TRUE] IN
    /\ subscription = [status |-> "usable", plan |-> plan, session |-> 1, attempt |-> 1, stripe |-> 1]
    /\ active = TRUE
    /\ features = Entitlement(snapshot)
    /\ service = [status |-> "active", item |-> 1]
    /\ sessions = <<[key |-> 1, plan |-> plan, open |-> FALSE, snapshot |-> snapshot]>>
    /\ past = {snapshot}
    /\ events = <<Tell("completed", 1, NoSnapshot), Tell("changed", 1, snapshot)>>
    /\ seen = {1, 2}
    /\ attempts = 1

BillingInit ==
  /\ NewStore \/ SubscribedStore
  /\ call = [c \in Calls |-> NoCall]
  /\ excused = FALSE

Stripe ==
  \E s \in DOMAIN sessions :
    \/ PaySession(s) \/ ExpireSession(s)
    \/ \E usable \in BOOLEAN, kind \in {"changed", "invoice"} : SubscriptionPaid(s, usable, kind)

Bill(c) ==
  \/ \E plan \in Plans : AskCheckout(c, plan)
  \/ RetrieveSession(c) \/ RetrieveFails(c) \/ SaveAttempt(c) \/ CreateSession(c) \/ StoreSession(c)
  \/ AskService(c) \/ AddServiceItem(c) \/ ServiceItemAgain(c) \/ StoreServiceItem(c)
  \/ RemoveServiceItem(c) \/ CancelService(c) \/ DisableLoyalty(c)
  \/ \E e \in DOMAIN events : Deliver(c, e)
  \/ RetrieveSubscription(c) \/ SyncSubscription(c) \/ CheckoutCompleted(c)
  \/ BreakOff(c)

BillingNext == Stripe \/ \E c \in Calls : Bill(c)

BillingSpec == BillingInit /\ [][BillingNext]_billingVars

-----------------------------------------------------------------------------
(* Properties *)

\* However often the owner starts the checkout of a plan, also after a crash between
\* Stripe's answer and the row that names the session, one session is open at a
\* time; unless clicks overlapped, the plan changed, a session could not be
\* retrieved, the crash hit an attempt that follows an expired one, or Stripe's word
\* that an earlier session was completed came while another one was open.
OneOpenSession ==
  ~excused => Cardinality({s \in DOMAIN sessions : sessions[s].open}) <= 1

Promise == INSTANCE Entitlements WITH
  Events <- 1 .. MaxEvents,
  Snapshots <- [usable : BOOLEAN, plan : Plans, loyalty : BOOLEAN],
  Features <- {"loyalty", "vendor_orders"},
  features <- features, seen <- seen, past <- past

\* The paid features of a store keep the promise of module Entitlements: whatever
\* overlaps, is repeated or breaks off, they change by an event that was not used
\* before and tells a state the subscription was in, or because the owner gave
\* one up.
KeepsPromise == Promise!EntitlementSpec
=============================================================================

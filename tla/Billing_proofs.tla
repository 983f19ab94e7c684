---------------------------- MODULE Billing_proofs ----------------------------
(***************************************************************************)
(* Billing implements Entitlements: for any number of requests, webhooks,  *)
(* sessions and events, the paid features of a store change by an event    *)
(* that was not used before and that tells a state the subscription was in *)
(* or because the owner gives one up.                                      *)
(***************************************************************************)
EXTENDS Billing, FiniteSetTheorems, TLAPS

USE BillingAssumption

-----------------------------------------------------------------------------
(* Types *)

Snapshot == [usable : BOOLEAN, plan : Plans, loyalty : BOOLEAN]
MaybeSnapshot == Snapshot \cup {NoSnapshot}

SubscriptionRow ==
  [status : {"none", "pending", "usable", "unusable"}, plan : Plans \cup {NoPlan},
   session : Nat, attempt : Nat, stripe : Nat]
ServiceRow == [status : {"none", "pending", "active", "canceled"}, item : Nat]
SessionRow == [key : Nat, plan : Plans, open : BOOLEAN, snapshot : MaybeSnapshot]
EventRow == [kind : {"completed", "changed", "invoice"}, session : Nat, snapshot : MaybeSnapshot]

Asking == [step : {"retrieve", "save"}, plan : Plans, row : SubscriptionRow]
Creating == [step : {"create"}, plan : Plans, key : Nat]
Storing == [step : {"store"}, session : Nat]
Adding == [step : {"add", "item"}, session : Nat]
Removing == [step : {"canceled", "disable"}]
Hearing == [step : {"invoice", "apply"}, event : Nat, snapshot : MaybeSnapshot]
CallRow == Asking \cup Creating \cup Storing \cup Adding \cup Removing \cup Hearing \cup {NoCall}

BillingTypeOK ==
  /\ subscription \in SubscriptionRow
  /\ service \in ServiceRow
  /\ sessions \in Seq(SessionRow)
  /\ past \subseteq Snapshot
  /\ events \in Seq(EventRow) /\ Len(events) <= MaxEvents
  /\ call \in [Calls -> CallRow]
  /\ attempts \in Nat

-----------------------------------------------------------------------------
(* The inductive invariant: whatever is written down was told by Stripe *)

PaidSession(s) == s \in DOMAIN sessions /\ sessions[s].snapshot \in past

SessionsTold ==
  \A s \in DOMAIN sessions : sessions[s].snapshot = NoSnapshot \/ sessions[s].snapshot \in past

\* Only paid sessions have events.
EventsTold ==
  \A e \in DOMAIN events :
    /\ PaidSession(events[e].session)
    /\ events[e].snapshot = NoSnapshot \/ events[e].snapshot \in past

CallTold(t) ==
  t # NoCall =>
    /\ t.step \in {"add", "item"} => PaidSession(t.session)
    /\ t.step \in {"invoice", "apply"} =>
         t.event \in DOMAIN events /\ (t.snapshot = NoSnapshot \/ t.snapshot \in past)

CallsTold == \A c \in Calls : CallTold(call[c])

RowsTold ==
  /\ subscription.stripe # 0 => PaidSession(subscription.stripe)
  /\ service.item # 0 => PaidSession(service.item)

BillingInv == BillingTypeOK /\ SessionsTold /\ EventsTold /\ CallsTold /\ RowsTold

-----------------------------------------------------------------------------
(* Lemmas *)

\* The step a request is at tells what it has read.
LEMMA CallKinds ==
  ASSUME NEW t \in CallRow, t # NoCall
  PROVE  /\ t.step \in {"retrieve", "save"} => t \in Asking
         /\ t.step = "create" => t \in Creating
         /\ t.step = "store" => t \in Storing
         /\ t.step \in {"add", "item"} => t \in Adding
         /\ t.step \in {"canceled", "disable"} => t \in Removing
         /\ t.step \in {"invoice", "apply"} => t \in Hearing
  BY DEF CallRow, Asking, Creating, Storing, Adding, Removing, Hearing

\* A request that goes on leaves the others alone.
LEMMA CallGoes ==
  ASSUME BillingTypeOK, NEW c \in Calls, NEW t \in CallRow, Goes(c, t)
  PROVE  call' \in [Calls -> CallRow] /\ call'[c] = t /\ \A o \in Calls \ {c} : call'[o] = call[o]
  BY DEF Goes, BillingTypeOK

\* A step of the server: the rows name paid sessions, the request has heard of Stripe.
LEMMA ServerStep ==
  ASSUME BillingInv, NEW c \in Calls, NEW t \in CallRow, Goes(c, t), CallTold(t),
         UNCHANGED stripeState,
         attempts' \in Nat,
         subscription' \in SubscriptionRow,
         subscription'.stripe # 0 => PaidSession(subscription'.stripe),
         service' \in ServiceRow,
         service'.item # 0 => PaidSession(service'.item)
  PROVE  BillingInv'
<1>1. /\ call' \in [Calls -> CallRow] /\ call'[c] = t
      /\ \A o \in Calls \ {c} : call'[o] = call[o]
  BY CallGoes DEF BillingInv
<1>2. sessions' = sessions /\ past' = past /\ events' = events
  BY DEF stripeState
<1>3. BillingTypeOK'
  BY <1>1, <1>2 DEF BillingInv, BillingTypeOK
<1>4. SessionsTold' /\ EventsTold' /\ RowsTold'
  BY <1>2 DEF BillingInv, SessionsTold, EventsTold, RowsTold, PaidSession
<1>5. CallsTold'
  BY <1>1, <1>2 DEF BillingInv, CallsTold, CallTold, PaidSession
<1> QED
  BY <1>3, <1>4, <1>5 DEF BillingInv

\* A step of Stripe, or one that the server asks it for: what was paid stays paid,
\* what was told stays told.
LEMMA StripeStep ==
  ASSUME BillingInv,
         sessions' \in Seq(SessionRow), DOMAIN sessions \subseteq DOMAIN sessions',
         past' \subseteq Snapshot, past \subseteq past',
         events' \in Seq(EventRow), Len(events') <= MaxEvents, DOMAIN events \subseteq DOMAIN events',
         \A s \in DOMAIN sessions' : sessions'[s].snapshot = NoSnapshot \/ sessions'[s].snapshot \in past',
         \A s \in DOMAIN sessions : sessions[s].snapshot \in past => sessions'[s].snapshot \in past',
         \A e \in DOMAIN events : events'[e] = events[e],
         \A e \in DOMAIN events' \ DOMAIN events :
           /\ PaidSession(events[e].session)'
           /\ events'[e].snapshot = NoSnapshot \/ events'[e].snapshot \in past',
         UNCHANGED storeRows, attempts' = attempts,
         call' \in [Calls -> CallRow],
         \A c \in Calls : call'[c] = call[c] \/ CallTold(call[c])'
  PROVE  BillingInv'
<1>1. \A s : PaidSession(s) => PaidSession(s)'
  BY DEF PaidSession
<1>2. BillingTypeOK'
  BY DEF BillingInv, BillingTypeOK, storeRows
<1>3. SessionsTold'
  BY DEF SessionsTold
<1>4. EventsTold'
  BY <1>1 DEF BillingInv, EventsTold
<1>5. ASSUME NEW c \in Calls
      PROVE  CallTold(call[c])'
  BY <1>1, <1>5 DEF BillingInv, CallsTold, CallTold
<1>6. CallsTold'
  BY <1>5 DEF CallsTold
<1>7. RowsTold'
  BY <1>1 DEF BillingInv, RowsTold, storeRows
<1> QED
  BY <1>2, <1>3, <1>4, <1>6, <1>7 DEF BillingInv

\* A session takes another state: its row stays proper.
LEMMA SessionChanged ==
  ASSUME BillingInv, NEW s \in DOMAIN sessions, NEW snapshot \in Snapshot,
         \/ sessions' = [sessions EXCEPT ![s].snapshot = snapshot]
         \/ sessions' = [sessions EXCEPT ![s].open = FALSE, ![s].snapshot = snapshot]
  PROVE  /\ sessions' \in Seq(SessionRow) /\ DOMAIN sessions' = DOMAIN sessions
         /\ sessions'[s].snapshot = snapshot
         /\ \A r \in DOMAIN sessions \ {s} : sessions'[r] = sessions[r]
<1>1. sessions \in Seq(SessionRow) /\ \A r \in DOMAIN sessions : sessions[r] \in SessionRow
  BY DEF BillingInv, BillingTypeOK
<1>2. PICK row \in SessionRow : sessions' = [sessions EXCEPT ![s] = row] /\ row.snapshot = snapshot
  <2>1. /\ [sessions[s] EXCEPT !.snapshot = snapshot] \in SessionRow
        /\ [sessions[s] EXCEPT !.snapshot = snapshot].snapshot = snapshot
        /\ [sessions[s] EXCEPT !.open = FALSE, !.snapshot = snapshot] \in SessionRow
        /\ [sessions[s] EXCEPT !.open = FALSE, !.snapshot = snapshot].snapshot = snapshot
    BY <1>1 DEF SessionRow, MaybeSnapshot
  <2>2. CASE sessions' = [sessions EXCEPT ![s].snapshot = snapshot]
    <3>1. sessions' = [sessions EXCEPT ![s] = [sessions[s] EXCEPT !.snapshot = snapshot]]
      BY <2>2
    <3> QED
      BY <3>1, <2>1
  <2>3. CASE sessions' = [sessions EXCEPT ![s].open = FALSE, ![s].snapshot = snapshot]
    <3>1. sessions' = [sessions EXCEPT ![s] = [sessions[s] EXCEPT !.open = FALSE, !.snapshot = snapshot]]
      BY <1>1, <2>3
    <3> QED
      BY <3>1, <2>1
  <2> QED
    BY <2>2, <2>3
<1>3. sessions' \in Seq(SessionRow) /\ DOMAIN sessions' = DOMAIN sessions
  BY <1>1, <1>2
<1> QED
  BY <1>1, <1>2, <1>3

\* A subscription changes, and Stripe tells so.
LEMMA ChangeInv ==
  ASSUME BillingInv, NEW s \in DOMAIN sessions, NEW snapshot \in Snapshot,
         NEW kind \in {"changed", "invoice"}, Change(s, snapshot, kind),
         UNCHANGED storeRows, attempts' = attempts,
         call' \in [Calls -> CallRow],
         \A c \in Calls : call'[c] = call[c] \/ CallTold(call[c])'
  PROVE  BillingInv'
<1> DEFINE told == Tell(kind, s, IF kind = "invoice" THEN NoSnapshot ELSE snapshot)
<1>1. sessions \in Seq(SessionRow) /\ \A r \in DOMAIN sessions : sessions[r] \in SessionRow
  BY DEF BillingInv, BillingTypeOK
<1>2. sessions' = [sessions EXCEPT ![s].snapshot = snapshot]
  BY DEF Change
<1>3. /\ sessions' \in Seq(SessionRow) /\ DOMAIN sessions' = DOMAIN sessions
      /\ sessions'[s].snapshot = snapshot
      /\ \A r \in DOMAIN sessions \ {s} : sessions'[r] = sessions[r]
  BY <1>2, SessionChanged
<1>4. past' = past \cup {snapshot} /\ past' \subseteq Snapshot
  BY DEF Change, BillingInv, BillingTypeOK
<1>5. told \in EventRow /\ told.session = s /\ (told.snapshot = NoSnapshot \/ told.snapshot = snapshot)
  BY <1>1 DEF Tell, EventRow, MaybeSnapshot
<1>6. events \in Seq(EventRow) /\ Len(events) + 1 <= MaxEvents /\ events' = Append(events, told)
  BY DEF Change, BillingInv, BillingTypeOK
<1> HIDE DEF told
<1>7. /\ events' \in Seq(EventRow) /\ Len(events') <= MaxEvents
      /\ DOMAIN events' = DOMAIN events \cup {Len(events) + 1}
      /\ \A e \in DOMAIN events : events'[e] = events[e]
      /\ events'[Len(events) + 1] = told
  BY <1>5, <1>6
<1>8. \A r \in DOMAIN sessions' : sessions'[r].snapshot = NoSnapshot \/ sessions'[r].snapshot \in past'
  BY <1>3, <1>4 DEF BillingInv, SessionsTold
<1>9. \A r \in DOMAIN sessions : sessions[r].snapshot \in past => sessions'[r].snapshot \in past'
  BY <1>3, <1>4
<1>10. PaidSession(s)'
  BY <1>3, <1>4 DEF PaidSession
<1>11. \A e \in DOMAIN events' \ DOMAIN events :
         /\ PaidSession(events[e].session)'
         /\ events'[e].snapshot = NoSnapshot \/ events'[e].snapshot \in past'
  BY <1>4, <1>5, <1>7, <1>10
<1> QED
  BY <1>3, <1>4, <1>7, <1>8, <1>9, <1>11, StripeStep

-----------------------------------------------------------------------------
(* Stripe's steps *)

\* A session is paid for: from now on there is a state.
LEMMA PaySessionInv ==
  ASSUME BillingInv, NEW s \in DOMAIN sessions, PaySession(s)
  PROVE  BillingInv'
<1> DEFINE snapshot == [usable |-> TRUE, plan |-> sessions[s].plan, loyalty |-> FALSE]
           one == Tell("completed", s, NoSnapshot)
           two == Tell("changed", s, snapshot)
<1>1. sessions \in Seq(SessionRow) /\ \A r \in DOMAIN sessions : sessions[r] \in SessionRow
  BY DEF BillingInv, BillingTypeOK
<1>2. snapshot \in Snapshot
  BY <1>1 DEF Snapshot, SessionRow
<1>3. /\ one \in EventRow /\ one.session = s /\ one.snapshot = NoSnapshot
      /\ two \in EventRow /\ two.session = s /\ two.snapshot = snapshot
  BY <1>1, <1>2 DEF Tell, EventRow, MaybeSnapshot
<1>4. /\ sessions' = [sessions EXCEPT ![s].open = FALSE, ![s].snapshot = snapshot]
      /\ past' = past \cup {snapshot}
      /\ events' = events \o <<one, two>>
      /\ events \in Seq(EventRow) /\ Len(events) + 2 <= MaxEvents
      /\ UNCHANGED <<storeRows, call, attempts>>
  BY <1>1 DEF PaySession, BillingInv, BillingTypeOK, SessionRow
<1> HIDE DEF snapshot, one, two
<1>5. /\ sessions' \in Seq(SessionRow) /\ DOMAIN sessions' = DOMAIN sessions
      /\ sessions'[s].snapshot = snapshot
      /\ \A r \in DOMAIN sessions \ {s} : sessions'[r] = sessions[r]
  BY <1>2, <1>4, SessionChanged
<1>6. past' \subseteq Snapshot
  BY <1>2, <1>4 DEF BillingInv, BillingTypeOK
<1>7. /\ events' \in Seq(EventRow) /\ Len(events') <= MaxEvents
      /\ DOMAIN events' = DOMAIN events \cup {Len(events) + 1, Len(events) + 2}
      /\ \A e \in DOMAIN events : events'[e] = events[e]
      /\ events'[Len(events) + 1] = one
      /\ events'[Len(events) + 2] = two
  BY <1>3, <1>4
<1>8. \A r \in DOMAIN sessions' : sessions'[r].snapshot = NoSnapshot \/ sessions'[r].snapshot \in past'
  BY <1>4, <1>5 DEF BillingInv, SessionsTold
<1>9. \A r \in DOMAIN sessions : sessions[r].snapshot \in past => sessions'[r].snapshot \in past'
  BY <1>4, <1>5
<1>10. PaidSession(s)'
  BY <1>4, <1>5 DEF PaidSession
<1>11. \A e \in DOMAIN events' \ DOMAIN events :
         /\ PaidSession(events[e].session)'
         /\ events'[e].snapshot = NoSnapshot \/ events'[e].snapshot \in past'
  BY <1>3, <1>4, <1>7, <1>10
<1>12. call' \in [Calls -> CallRow] /\ \A c \in Calls : call'[c] = call[c]
  BY <1>4 DEF BillingInv, BillingTypeOK
<1> QED
  BY <1>4, <1>5, <1>6, <1>7, <1>8, <1>9, <1>11, <1>12, StripeStep

\* A session expires without a state.
LEMMA ExpireSessionInv ==
  ASSUME BillingInv, NEW s \in DOMAIN sessions, ExpireSession(s)
  PROVE  BillingInv'
<1>1. sessions \in Seq(SessionRow) /\ \A r \in DOMAIN sessions : sessions[r] \in SessionRow
  BY DEF BillingInv, BillingTypeOK
<1>2. [sessions[s] EXCEPT !.open = FALSE] \in SessionRow
  BY <1>1 DEF SessionRow
<1>3. sessions' \in Seq(SessionRow) /\ DOMAIN sessions' = DOMAIN sessions
  BY <1>1, <1>2 DEF ExpireSession
<1>4. \A r \in DOMAIN sessions : sessions'[r].snapshot = sessions[r].snapshot
  BY <1>1 DEF ExpireSession, SessionRow
<1>5. /\ past' = past /\ events' = events /\ call' = call /\ attempts' = attempts
      /\ UNCHANGED storeRows
  BY DEF ExpireSession
<1> QED
  BY <1>3, <1>4, <1>5, StripeStep DEF BillingInv, BillingTypeOK, SessionsTold

\* A payment fails or succeeds, or the subscription ends.
LEMMA SubscriptionPaidInv ==
  ASSUME BillingInv, NEW s \in DOMAIN sessions, NEW usable \in BOOLEAN,
         NEW kind \in {"changed", "invoice"}, SubscriptionPaid(s, usable, kind)
  PROVE  BillingInv'
<1>1. sessions[s].snapshot \in Snapshot
  BY DEF SubscriptionPaid, Paid, BillingInv, SessionsTold, BillingTypeOK
<1>2. [sessions[s].snapshot EXCEPT !.usable = usable] \in Snapshot
  BY <1>1 DEF Snapshot
<1>3. /\ Change(s, [sessions[s].snapshot EXCEPT !.usable = usable], kind)
      /\ UNCHANGED <<storeRows, call, attempts>>
  BY DEF SubscriptionPaid
<1>4. call' \in [Calls -> CallRow] /\ \A c \in Calls : call'[c] = call[c]
  BY <1>3 DEF BillingInv, BillingTypeOK
<1> QED
  BY <1>2, <1>3, <1>4, ChangeInv

-----------------------------------------------------------------------------
(* The server's steps: the checkout *)

\* What a request at a step is, and what the rows are.
LEMMA AtStep ==
  ASSUME BillingInv, NEW c \in Calls, call[c] # NoCall
  PROVE  /\ call[c] \in CallRow /\ CallTold(call[c])
         /\ subscription \in SubscriptionRow /\ service \in ServiceRow /\ attempts \in Nat
         /\ subscription.stripe # 0 => PaidSession(subscription.stripe)
         /\ service.item # 0 => PaidSession(service.item)
  BY DEF BillingInv, BillingTypeOK, CallsTold, RowsTold

\* A step that changes no row and gives the request something proper to go on with
LEMMA OnlyGoes ==
  ASSUME BillingInv, NEW c \in Calls, NEW t \in CallRow, Goes(c, t), CallTold(t),
         UNCHANGED <<subscription, service, stripeState, attempts>>
  PROVE  BillingInv'
<1>1. /\ attempts' \in Nat /\ subscription' \in SubscriptionRow /\ service' \in ServiceRow
      /\ subscription'.stripe # 0 => PaidSession(subscription'.stripe)
      /\ service'.item # 0 => PaidSession(service'.item)
  BY DEF BillingInv, BillingTypeOK, RowsTold
<1>2. UNCHANGED stripeState
  OBVIOUS
<1> QED
  BY <1>1, <1>2, ServerStep

\* A request of the owner begins.
LEMMA AskCheckoutInv ==
  ASSUME BillingInv, NEW c \in Calls, NEW plan \in Plans, AskCheckout(c, plan)
  PROVE  BillingInv'
<1> DEFINE t == [step |-> IF subscription.session # 0 THEN "retrieve" ELSE "save",
                 plan |-> plan, row |-> subscription]
<1>1. t \in CallRow /\ CallTold(t)
  BY DEF CallRow, Asking, CallTold, BillingInv, BillingTypeOK
<1>2. Goes(c, t) /\ UNCHANGED <<subscription, service, stripeState, attempts>>
  BY DEF AskCheckout, storeRows
<1> HIDE DEF t
<1> QED
  BY <1>1, <1>2, OnlyGoes

\* It finds its session open, or goes on.
LEMMA RetrieveInv ==
  ASSUME BillingInv, NEW c \in Calls, RetrieveSession(c) \/ RetrieveFails(c)
  PROVE  BillingInv'
<1> DEFINE t == [call[c] EXCEPT !.step = "save"]
<1>1. call[c] \in Asking
  BY AtStep, CallKinds DEF RetrieveSession, RetrieveFails, Busy
<1>2. t \in CallRow /\ CallTold(t) /\ NoCall \in CallRow /\ CallTold(NoCall)
  BY <1>1 DEF CallRow, Asking, CallTold
<1>3. (Goes(c, t) \/ Goes(c, NoCall)) /\ UNCHANGED <<subscription, service, stripeState, attempts>>
  BY DEF RetrieveSession, RetrieveFails, storeRows
<1> HIDE DEF t
<1> QED
  BY <1>2, <1>3, OnlyGoes

\* The attempt is saved.
LEMMA SaveAttemptInv ==
  ASSUME BillingInv, NEW c \in Calls, SaveAttempt(c)
  PROVE  BillingInv'
<1> DEFINE key == IF SameAttempt(call[c].row, call[c].plan) THEN call[c].row.attempt ELSE attempts + 1
           t == [step |-> "create", plan |-> call[c].plan, key |-> key]
<1>1. call[c] \in Asking
  BY AtStep, CallKinds DEF SaveAttempt, Busy
<1>2. key \in Nat /\ call[c].plan \in Plans
  BY <1>1 DEF Asking, SubscriptionRow, BillingInv, BillingTypeOK
<1>3. t \in CallRow /\ CallTold(t)
  BY <1>2 DEF CallRow, Creating, CallTold
<1>4. /\ subscription' = [subscription EXCEPT !.status = "pending", !.plan = call[c].plan, !.attempt = key]
      /\ attempts' = IF key > attempts THEN key ELSE attempts
      /\ Goes(c, t)
      /\ UNCHANGED <<service, stripeState>>
  BY DEF SaveAttempt
<1> HIDE DEF t, key
<1>5. attempts' \in Nat
  BY <1>2, <1>4 DEF BillingInv, BillingTypeOK
<1>6. subscription' \in SubscriptionRow /\ subscription'.stripe = subscription.stripe
  BY <1>2, <1>4 DEF BillingInv, BillingTypeOK, SubscriptionRow
<1>7. /\ subscription'.stripe # 0 => PaidSession(subscription'.stripe)
      /\ service' \in ServiceRow
      /\ service'.item # 0 => PaidSession(service'.item)
  BY <1>4, <1>6 DEF BillingInv, BillingTypeOK, RowsTold
<1>8. UNCHANGED stripeState
  BY DEF SaveAttempt
<1> QED
  BY <1>3, <1>4, <1>5, <1>6, <1>7, <1>8, ServerStep

\* Stripe opens a session, or gives again the one of this key.
LEMMA CreateSessionInv ==
  ASSUME BillingInv, NEW c \in Calls, CreateSession(c)
  PROVE  BillingInv'
<1> DEFINE found == SessionOf(call[c].key)
           new == [key |-> call[c].key, plan |-> call[c].plan, open |-> TRUE, snapshot |-> NoSnapshot]
           t == [step |-> "store",
                 session |-> IF found # {} THEN CHOOSE s \in found : TRUE ELSE Len(sessions) + 1]
<1>1. call[c] \in Creating
  BY AtStep, CallKinds DEF CreateSession, Busy
<1>2. new \in SessionRow /\ new.snapshot = NoSnapshot
  BY <1>1 DEF Creating, SessionRow, MaybeSnapshot
<1>3. sessions \in Seq(SessionRow) /\ found \subseteq Nat
  BY DEF BillingInv, BillingTypeOK, SessionOf
<1>4. t.session \in Nat
  BY <1>3
<1>5. t \in CallRow /\ t.step = "store"
  BY <1>4 DEF CallRow, Storing
<1>6. CallTold(t)'
  BY <1>5 DEF CallTold
<1>7. /\ sessions' = IF found # {} THEN sessions ELSE Append(sessions, new)
      /\ Goes(c, t)
      /\ UNCHANGED <<storeRows, past, events, attempts>>
  BY DEF CreateSession
<1> HIDE DEF t, new, found
<1>8. /\ sessions' \in Seq(SessionRow) /\ DOMAIN sessions \subseteq DOMAIN sessions'
      /\ \A s \in DOMAIN sessions : sessions'[s] = sessions[s]
      /\ \A s \in DOMAIN sessions' \ DOMAIN sessions : sessions'[s].snapshot = NoSnapshot
  BY <1>2, <1>3, <1>7
<1>9. /\ call' \in [Calls -> CallRow]
      /\ \A o \in Calls : call'[o] = call[o] \/ CallTold(call[o])'
  <2>1. call' \in [Calls -> CallRow] /\ call'[c] = t /\ \A o \in Calls \ {c} : call'[o] = call[o]
    BY <1>5, <1>7, CallGoes DEF BillingInv
  <2>2. CallTold(call[c])'
    BY <1>6, <2>1, <1>7, <1>5 DEF CallTold
  <2> QED
    BY <2>1, <2>2
<1>10. /\ past' \subseteq Snapshot /\ events' \in Seq(EventRow) /\ Len(events') <= MaxEvents
       /\ past' = past /\ events' = events /\ attempts' = attempts /\ UNCHANGED storeRows
  BY <1>7 DEF BillingInv, BillingTypeOK
<1>11. \A s \in DOMAIN sessions' : sessions'[s].snapshot = NoSnapshot \/ sessions'[s].snapshot \in past'
  BY <1>8, <1>10 DEF BillingInv, SessionsTold
<1>12. \A s \in DOMAIN sessions : sessions[s].snapshot \in past => sessions'[s].snapshot \in past'
  BY <1>8, <1>10
<1> QED
  BY <1>8, <1>9, <1>10, <1>11, <1>12, StripeStep

\* Its session is stored.
LEMMA StoreSessionInv ==
  ASSUME BillingInv, NEW c \in Calls, StoreSession(c)
  PROVE  BillingInv'
<1>1. call[c] \in Storing
  BY AtStep, CallKinds DEF StoreSession, Busy
<1>2. /\ subscription' = [subscription EXCEPT !.session = call[c].session]
      /\ Goes(c, NoCall)
      /\ UNCHANGED <<service, stripeState, attempts>>
  BY DEF StoreSession
<1>3. subscription' \in SubscriptionRow /\ subscription'.stripe = subscription.stripe
  BY <1>1, <1>2 DEF Storing, SubscriptionRow, BillingInv, BillingTypeOK
<1>4. /\ subscription'.stripe # 0 => PaidSession(subscription'.stripe)
      /\ service' \in ServiceRow
      /\ service'.item # 0 => PaidSession(service'.item)
      /\ attempts' \in Nat
  BY <1>2, <1>3 DEF BillingInv, BillingTypeOK, RowsTold
<1>5. NoCall \in CallRow /\ CallTold(NoCall)
  BY DEF CallRow, CallTold
<1>6. UNCHANGED stripeState
  BY DEF StoreSession
<1> QED
  BY <1>2, <1>3, <1>4, <1>5, <1>6, ServerStep

-----------------------------------------------------------------------------
(* The server's steps: the loyalty service *)

\* The owner asks for the service of the subscription the store has.
LEMMA AskServiceInv ==
  ASSUME BillingInv, NEW c \in Calls, AskService(c)
  PROVE  BillingInv'
<1> DEFINE t == [step |-> "add", session |-> subscription.stripe]
<1>1. /\ subscription \in SubscriptionRow /\ service \in ServiceRow /\ attempts \in Nat
      /\ subscription.stripe # 0 /\ PaidSession(subscription.stripe)
      /\ service.item # 0 => PaidSession(service.item)
  BY DEF AskService, BillingInv, BillingTypeOK, RowsTold
<1>2. t \in CallRow /\ CallTold(t)
  BY <1>1 DEF CallRow, Adding, CallTold, SubscriptionRow
<1>3. /\ service' = [service EXCEPT !.status = "pending"]
      /\ subscription' = subscription /\ attempts' = attempts
      /\ Goes(c, t)
  BY DEF AskService
<1>4. UNCHANGED stripeState
  BY DEF AskService
<1> HIDE DEF t
<1>5. service' \in ServiceRow /\ service'.item = service.item
  BY <1>1, <1>3 DEF ServiceRow
<1>6. /\ attempts' \in Nat /\ subscription' \in SubscriptionRow
      /\ subscription'.stripe # 0 => PaidSession(subscription'.stripe)
      /\ service'.item # 0 => PaidSession(service'.item)
  BY <1>1, <1>3, <1>5
<1> QED
  BY <1>2, <1>3, <1>4, <1>5, <1>6, ServerStep

\* Stripe adds the service to a subscription that is paid for.
LEMMA AddServiceItemInv ==
  ASSUME BillingInv, NEW c \in Calls, AddServiceItem(c)
  PROVE  BillingInv'
<1> DEFINE t == [call[c] EXCEPT !.step = "item"]
<1>1. call[c] \in Adding /\ CallTold(call[c]) /\ call[c] # NoCall
  BY AtStep, CallKinds DEF AddServiceItem, Busy
<1>2. PaidSession(call[c].session) /\ past \subseteq Snapshot
  BY <1>1 DEF CallTold, Adding, BillingInv, BillingTypeOK
<1>3. PICK s \in DOMAIN sessions : s = call[c].session
  BY <1>2 DEF PaidSession
<1>4. PICK snapshot \in Snapshot : snapshot = [sessions[s].snapshot EXCEPT !.loyalty = TRUE]
  BY <1>2, <1>3 DEF PaidSession, Snapshot
<1>5. t \in CallRow /\ t.session = s /\ t.step = "item"
  BY <1>1, <1>3 DEF CallRow, Adding
<1>6. Change(s, snapshot, "changed") /\ attempts' = attempts /\ UNCHANGED storeRows
  BY <1>3, <1>4 DEF AddServiceItem
<1>7. Goes(c, t)
  BY DEF AddServiceItem
<1>8. PaidSession(s)'
  <2>1. sessions' = [sessions EXCEPT ![s].snapshot = snapshot] /\ past' = past \cup {snapshot}
    BY <1>6 DEF Change
  <2>2. DOMAIN sessions' = DOMAIN sessions /\ sessions'[s].snapshot = snapshot
    BY <2>1, SessionChanged
  <2> QED
    BY <2>1, <2>2 DEF PaidSession
<1>9. BillingTypeOK
  BY DEF BillingInv
<1> HIDE DEF t
<1>10. /\ call' \in [Calls -> CallRow] /\ call'[c] = t
       /\ \A o \in Calls \ {c} : call'[o] = call[o]
  BY <1>5, <1>7, <1>9, CallGoes
<1>11. CallTold(call[c])'
  BY <1>5, <1>8, <1>10 DEF CallTold
<1>12. \A o \in Calls : call'[o] = call[o] \/ CallTold(call[o])'
  BY <1>10, <1>11
<1> QED
  BY <1>6, <1>10, <1>12, ChangeInv

\* The answer of an earlier addition says the same.
LEMMA ServiceItemAgainInv ==
  ASSUME BillingInv, NEW c \in Calls, ServiceItemAgain(c)
  PROVE  BillingInv'
<1> DEFINE t == [call[c] EXCEPT !.step = "item"]
<1>1. call[c] \in Adding /\ CallTold(call[c]) /\ call[c] # NoCall
  BY AtStep, CallKinds DEF ServiceItemAgain, Busy
<1>2. t \in CallRow /\ CallTold(t)
  BY <1>1 DEF CallRow, Adding, CallTold
<1>3. Goes(c, t) /\ UNCHANGED <<subscription, service, stripeState, attempts>>
  BY DEF ServiceItemAgain, storeRows
<1> HIDE DEF t
<1> QED
  BY <1>2, <1>3, OnlyGoes

\* The item is stored.
LEMMA StoreServiceItemInv ==
  ASSUME BillingInv, NEW c \in Calls, StoreServiceItem(c)
  PROVE  BillingInv'
<1>1. call[c] \in Adding /\ CallTold(call[c]) /\ call[c] # NoCall
  BY AtStep, CallKinds DEF StoreServiceItem, Busy
<1>2. PaidSession(call[c].session) /\ call[c].session \in Nat
  BY <1>1 DEF CallTold, Adding
<1>3. /\ service' = [service EXCEPT !.item = call[c].session]
      /\ subscription' = subscription /\ attempts' = attempts
      /\ Goes(c, NoCall)
  BY DEF StoreServiceItem
<1>4. UNCHANGED stripeState
  BY DEF StoreServiceItem
<1>5. service \in ServiceRow
  BY DEF BillingInv, BillingTypeOK
<1>6. service' \in ServiceRow /\ service'.item = call[c].session
  BY <1>2, <1>3, <1>5 DEF ServiceRow
<1>7. /\ attempts' \in Nat /\ subscription' \in SubscriptionRow
      /\ subscription'.stripe # 0 => PaidSession(subscription'.stripe)
      /\ service'.item # 0 => PaidSession(service'.item)
  BY <1>2, <1>3, <1>6 DEF BillingInv, BillingTypeOK, RowsTold
<1>8. NoCall \in CallRow /\ CallTold(NoCall)
  BY DEF CallRow, CallTold
<1> QED
  BY <1>3, <1>4, <1>6, <1>7, <1>8, ServerStep

\* Stripe takes the service off the subscription that has it.
LEMMA RemoveServiceItemInv ==
  ASSUME BillingInv, NEW c \in Calls, RemoveServiceItem(c)
  PROVE  BillingInv'
<1> DEFINE t == [step |-> "canceled"]
<1>1. PaidSession(service.item) /\ past \subseteq Snapshot
  BY DEF RemoveServiceItem, BillingInv, BillingTypeOK, RowsTold
<1>2. PICK s \in DOMAIN sessions : s = service.item
  BY <1>1 DEF PaidSession
<1>3. PICK snapshot \in Snapshot : snapshot = [sessions[s].snapshot EXCEPT !.loyalty = FALSE]
  BY <1>1, <1>2 DEF PaidSession, Snapshot
<1>4. Change(s, snapshot, "changed") /\ attempts' = attempts /\ UNCHANGED storeRows
  BY <1>2, <1>3 DEF RemoveServiceItem
<1>5. Goes(c, t) /\ Free(c)
  BY DEF RemoveServiceItem
<1>6. t \in CallRow /\ BillingTypeOK
  BY DEF BillingInv, CallRow, Removing
<1> HIDE DEF t
<1>7. /\ call' \in [Calls -> CallRow]
      /\ \A o \in Calls \ {c} : call'[o] = call[o]
  BY <1>5, <1>6, CallGoes
<1>8. CallTold(call[c])'
  BY <1>5, <1>6, CallGoes DEF CallTold, t
<1>9. \A o \in Calls : call'[o] = call[o] \/ CallTold(call[o])'
  BY <1>7, <1>8
<1> QED
  BY <1>4, <1>7, <1>9, ChangeInv

\* The service is canceled; what it gave is taken away.
LEMMA CancelServiceInv ==
  ASSUME BillingInv, NEW c \in Calls, CancelService(c)
  PROVE  BillingInv'
<1> DEFINE t == [step |-> "disable"]
<1>1. t \in CallRow /\ CallTold(t)
  BY DEF CallRow, Removing, CallTold
<1>2. /\ service' = [service EXCEPT !.status = "canceled"]
      /\ subscription' = subscription /\ attempts' = attempts
      /\ Goes(c, t)
  BY DEF CancelService
<1>3. UNCHANGED stripeState
  BY DEF CancelService
<1> HIDE DEF t
<1>4. service \in ServiceRow
  BY DEF BillingInv, BillingTypeOK
<1>5. service' \in ServiceRow /\ service'.item = service.item
  BY <1>2, <1>4 DEF ServiceRow
<1>6. /\ attempts' \in Nat /\ subscription' \in SubscriptionRow
      /\ subscription'.stripe # 0 => PaidSession(subscription'.stripe)
      /\ service'.item # 0 => PaidSession(service'.item)
  BY <1>2, <1>5 DEF BillingInv, BillingTypeOK, RowsTold
<1> QED
  BY <1>1, <1>2, <1>3, <1>5, <1>6, ServerStep

\* The loyalty feature is disabled, or the server stops: the request ends.
LEMMA EndInv ==
  ASSUME BillingInv, NEW c \in Calls, DisableLoyalty(c) \/ BreakOff(c)
  PROVE  BillingInv'
<1>1. NoCall \in CallRow /\ CallTold(NoCall)
  BY DEF CallRow, CallTold
<1>2. Goes(c, NoCall) /\ UNCHANGED <<subscription, service, stripeState, attempts>>
  BY DEF DisableLoyalty, BreakOff, storeRows
<1> QED
  BY <1>1, <1>2, OnlyGoes

-----------------------------------------------------------------------------
(* The server's steps: the webhooks *)

\* An event arrives.
LEMMA DeliverInv ==
  ASSUME BillingInv, NEW c \in Calls, NEW e \in DOMAIN events, Deliver(c, e)
  PROVE  BillingInv'
<1> DEFINE t == [step |-> IF events[e].kind = "invoice" THEN "invoice" ELSE "apply",
                 event |-> e, snapshot |-> events[e].snapshot]
<1>1. events[e] \in EventRow /\ e \in Nat
  BY DEF BillingInv, BillingTypeOK
<1>2. events[e].snapshot \in MaybeSnapshot
  BY <1>1 DEF EventRow
<1>3. events[e].snapshot = NoSnapshot \/ events[e].snapshot \in past
  BY DEF BillingInv, EventsTold
<1>4. t \in CallRow /\ CallTold(t)
  BY <1>1, <1>2, <1>3 DEF CallRow, Hearing, CallTold
<1>5. Goes(c, t) /\ UNCHANGED <<subscription, service, stripeState, attempts>>
  BY DEF Deliver, storeRows
<1> HIDE DEF t
<1> QED
  BY <1>4, <1>5, OnlyGoes

\* Stripe tells the state of the subscription of an invoice.
LEMMA RetrieveSubscriptionInv ==
  ASSUME BillingInv, NEW c \in Calls, RetrieveSubscription(c)
  PROVE  BillingInv'
<1> DEFINE s == events[call[c].event].session
           t == [call[c] EXCEPT !.step = "apply", !.snapshot = sessions[s].snapshot]
<1>1. call[c] \in Hearing /\ CallTold(call[c]) /\ call[c] # NoCall
  BY AtStep, CallKinds DEF RetrieveSubscription, Busy
<1>2. call[c].event \in DOMAIN events
  BY <1>1 DEF CallTold, Hearing
<1>3. PaidSession(s) /\ past \subseteq Snapshot
  BY <1>2 DEF BillingInv, BillingTypeOK, EventsTold
<1>4. sessions[s].snapshot \in past /\ sessions[s].snapshot \in MaybeSnapshot
  BY <1>3 DEF PaidSession, MaybeSnapshot
<1> HIDE DEF s
<1>5. t \in CallRow /\ CallTold(t)
  <2>1. t \in Hearing /\ t.step = "apply" /\ t.event = call[c].event /\ t.snapshot = sessions[s].snapshot
    BY <1>1, <1>4 DEF Hearing
  <2> HIDE DEF t
  <2> QED
    BY <1>2, <1>4, <2>1 DEF CallRow, CallTold
<1>6. Goes(c, t) /\ UNCHANGED <<subscription, service, stripeState, attempts>>
  BY DEF RetrieveSubscription, storeRows, s
<1> HIDE DEF t
<1> QED
  BY <1>5, <1>6, OnlyGoes

\* A webhook that is applied was told a state the subscription was in.
LEMMA WebhookKnows ==
  ASSUME BillingInv, NEW c \in Calls, Busy(c, "apply")
  PROVE  /\ call[c].event \in DOMAIN events
         /\ events[call[c].event].session \in Nat /\ PaidSession(events[call[c].event].session)
         /\ call[c].snapshot = NoSnapshot \/ call[c].snapshot \in past
<1>1. call[c] \in Hearing /\ CallTold(call[c]) /\ call[c] # NoCall
  BY AtStep, CallKinds DEF Busy
<1>2. /\ call[c].event \in DOMAIN events
      /\ call[c].snapshot = NoSnapshot \/ call[c].snapshot \in past
  BY <1>1 DEF CallTold, Hearing
<1>3. PaidSession(events[call[c].event].session)
  BY <1>2 DEF BillingInv, EventsTold
<1>4. events[call[c].event] \in EventRow
  BY <1>2 DEF BillingInv, BillingTypeOK
<1> QED
  BY <1>2, <1>3, <1>4 DEF EventRow

\* The rows take the state the event tells.
LEMMA SyncSubscriptionInv ==
  ASSUME BillingInv, NEW c \in Calls, SyncSubscription(c)
  PROVE  BillingInv'
<1>1. PICK s \in Nat : s = events[call[c].event].session /\ PaidSession(s)
  BY WebhookKnows DEF SyncSubscription
<1>2. PICK snapshot \in past : snapshot = call[c].snapshot
  BY WebhookKnows DEF SyncSubscription
<1>3. /\ subscription \in SubscriptionRow /\ snapshot \in Snapshot /\ attempts \in Nat
  BY DEF BillingInv, BillingTypeOK
<1>4. subscription' = [subscription EXCEPT !.plan = snapshot.plan, !.stripe = s,
                                           !.status = IF snapshot.usable THEN "usable" ELSE "unusable"]
  BY <1>1, <1>2 DEF SyncSubscription
<1>5. subscription' \in SubscriptionRow /\ subscription'.stripe = s
  BY <1>1, <1>3, <1>4 DEF SubscriptionRow, Snapshot
<1>6. service' = [status |-> IF "loyalty" \in Entitlement(snapshot) THEN "active" ELSE "canceled",
                  item |-> IF snapshot.loyalty THEN s ELSE 0]
  BY <1>1, <1>2 DEF SyncSubscription
<1>7. service' \in ServiceRow /\ (service'.item = s \/ service'.item = 0)
  BY <1>1, <1>6 DEF ServiceRow
<1>8. Goes(c, NoCall) /\ attempts' = attempts
  BY DEF SyncSubscription
<1>9. UNCHANGED stripeState
  BY DEF SyncSubscription
<1>10. NoCall \in CallRow /\ CallTold(NoCall)
  BY DEF CallRow, CallTold
<1>11. /\ attempts' \in Nat
       /\ subscription'.stripe # 0 => PaidSession(subscription'.stripe)
       /\ service'.item # 0 => PaidSession(service'.item)
  BY <1>1, <1>3, <1>5, <1>7, <1>8
<1> QED
  BY <1>5, <1>7, <1>8, <1>9, <1>10, <1>11, ServerStep

\* The session that was paid for is linked.
LEMMA CheckoutCompletedInv ==
  ASSUME BillingInv, NEW c \in Calls, CheckoutCompleted(c)
  PROVE  BillingInv'
<1>1. PICK s \in Nat : s = events[call[c].event].session /\ PaidSession(s)
  BY WebhookKnows DEF CheckoutCompleted
<1>2. /\ subscription \in SubscriptionRow /\ sessions[s] \in SessionRow
      /\ service \in ServiceRow /\ attempts \in Nat
      /\ service.item # 0 => PaidSession(service.item)
  BY <1>1 DEF BillingInv, BillingTypeOK, PaidSession, RowsTold
<1>3. subscription' = [subscription EXCEPT !.session = s, !.stripe = s, !.plan = sessions[s].plan]
  BY <1>1 DEF CheckoutCompleted
<1>4. subscription' \in SubscriptionRow /\ subscription'.stripe = s
  <2>1. sessions[s].plan \in Plans
    BY <1>2 DEF SessionRow
  <2> QED
    BY <1>1, <1>2, <1>3, <2>1 DEF SubscriptionRow
<1>5. Goes(c, NoCall) /\ attempts' = attempts /\ service' = service
  BY DEF CheckoutCompleted
<1>6. UNCHANGED stripeState
  BY DEF CheckoutCompleted
<1>7. NoCall \in CallRow /\ CallTold(NoCall)
  BY DEF CallRow, CallTold
<1>8. /\ attempts' \in Nat /\ service' \in ServiceRow
      /\ subscription'.stripe # 0 => PaidSession(subscription'.stripe)
      /\ service'.item # 0 => PaidSession(service'.item)
  BY <1>1, <1>2, <1>4, <1>5
<1> QED
  BY <1>4, <1>5, <1>6, <1>7, <1>8, ServerStep

-----------------------------------------------------------------------------
(* The invariant *)

LEMMA InitBilling == BillingInit => BillingInv
<1> SUFFICES ASSUME BillingInit PROVE BillingInv
  OBVIOUS
<1>1. call \in [Calls -> CallRow] /\ CallsTold
  BY DEF BillingInit, CallRow, CallsTold, CallTold
<1>2. CASE NewStore
  <2>1. BillingTypeOK
    BY <1>1, <1>2 DEF NewStore, BillingTypeOK, SubscriptionRow, ServiceRow
  <2>2. SessionsTold /\ EventsTold /\ RowsTold
    BY <1>2 DEF NewStore, SessionsTold, EventsTold, RowsTold
  <2> QED
    BY <1>1, <2>1, <2>2 DEF BillingInv
<1>3. CASE SubscribedStore
  <2>1. PICK plan \in Plans, snapshot \in Snapshot :
          /\ subscription = [status |-> "usable", plan |-> plan, session |-> 1, attempt |-> 1, stripe |-> 1]
          /\ service = [status |-> "active", item |-> 1]
          /\ sessions = <<[key |-> 1, plan |-> plan, open |-> FALSE, snapshot |-> snapshot]>>
          /\ past = {snapshot}
          /\ events = <<Tell("completed", 1, NoSnapshot), Tell("changed", 1, snapshot)>>
          /\ attempts = 1
    BY <1>3 DEF SubscribedStore, Snapshot
  <2>2. subscription \in SubscriptionRow /\ service \in ServiceRow /\ attempts \in Nat
    BY <2>1 DEF SubscriptionRow, ServiceRow
  <2>3. [key |-> 1, plan |-> plan, open |-> FALSE, snapshot |-> snapshot] \in SessionRow
    BY DEF SessionRow, MaybeSnapshot
  <2>4. sessions \in Seq(SessionRow) /\ DOMAIN sessions = {1} /\ sessions[1].snapshot = snapshot
    BY <2>1, <2>3
  <2>5. Tell("completed", 1, NoSnapshot) \in EventRow /\ Tell("changed", 1, snapshot) \in EventRow
    BY DEF Tell, EventRow, MaybeSnapshot
  <2>6. events \in Seq(EventRow) /\ Len(events) <= MaxEvents /\ DOMAIN events = {1, 2}
    BY <2>1, <2>5
  <2>7. \A e \in DOMAIN events :
          events[e].session = 1 /\ (events[e].snapshot = NoSnapshot \/ events[e].snapshot = snapshot)
    BY <2>1, <2>6 DEF Tell
  <2>8. BillingTypeOK
    BY <1>1, <2>1, <2>2, <2>4, <2>6 DEF BillingTypeOK
  <2>9. PaidSession(1)
    BY <2>1, <2>4 DEF PaidSession
  <2>10. SessionsTold /\ EventsTold /\ RowsTold
    BY <2>1, <2>4, <2>7, <2>9 DEF SessionsTold, EventsTold, RowsTold
  <2> QED
    BY <1>1, <2>8, <2>10 DEF BillingInv
<1> QED
  BY <1>2, <1>3 DEF BillingInit

LEMMA NextBilling == BillingInv /\ [BillingNext]_billingVars => BillingInv'
<1> SUFFICES ASSUME BillingInv, [BillingNext]_billingVars PROVE BillingInv'
  OBVIOUS
<1>1. CASE Stripe
  BY <1>1, PaySessionInv, ExpireSessionInv, SubscriptionPaidInv DEF Stripe
<1>2. ASSUME NEW c \in Calls, Bill(c) PROVE BillingInv'
  <2>1. CASE \E plan \in Plans : AskCheckout(c, plan)
    BY <2>1, AskCheckoutInv
  <2>2. CASE RetrieveSession(c) \/ RetrieveFails(c)
    BY <2>2, RetrieveInv
  <2>3. CASE SaveAttempt(c)
    BY <2>3, SaveAttemptInv
  <2>4. CASE CreateSession(c)
    BY <2>4, CreateSessionInv
  <2>5. CASE StoreSession(c)
    BY <2>5, StoreSessionInv
  <2>6. CASE AskService(c)
    BY <2>6, AskServiceInv
  <2>7. CASE AddServiceItem(c)
    BY <2>7, AddServiceItemInv
  <2>8. CASE ServiceItemAgain(c)
    BY <2>8, ServiceItemAgainInv
  <2>9. CASE StoreServiceItem(c)
    BY <2>9, StoreServiceItemInv
  <2>10. CASE RemoveServiceItem(c)
    BY <2>10, RemoveServiceItemInv
  <2>11. CASE CancelService(c)
    BY <2>11, CancelServiceInv
  <2>12. CASE DisableLoyalty(c) \/ BreakOff(c)
    BY <2>12, EndInv
  <2>13. CASE \E e \in DOMAIN events : Deliver(c, e)
    BY <2>13, DeliverInv
  <2>14. CASE RetrieveSubscription(c)
    BY <2>14, RetrieveSubscriptionInv
  <2>15. CASE SyncSubscription(c)
    BY <2>15, SyncSubscriptionInv
  <2>16. CASE CheckoutCompleted(c)
    BY <2>16, CheckoutCompletedInv
  <2> QED
    BY <1>2, <2>1, <2>2, <2>3, <2>4, <2>5, <2>6, <2>7, <2>8, <2>9, <2>10, <2>11, <2>12, <2>13,
       <2>14, <2>15, <2>16 DEF Bill
<1>3. CASE UNCHANGED billingVars
  BY <1>3 DEF billingVars, storeRows, stripeState, BillingInv, BillingTypeOK, SessionsTold,
              EventsTold, CallsTold, CallTold, RowsTold, PaidSession
<1> QED
  BY <1>1, <1>2, <1>3 DEF BillingNext

\* Whatever the requests and webhooks do, the rows, the sessions, the events and what a
\* webhook has read name subscriptions that are paid for and states that Stripe has told.
THEOREM BillingInvariant == BillingSpec => []BillingInv
<1>1. BillingInit => BillingInv
  BY InitBilling
<1>2. BillingInv /\ [BillingNext]_billingVars => BillingInv'
  BY NextBilling
<1> QED
  BY <1>1, <1>2, PTL DEF BillingSpec

-----------------------------------------------------------------------------
(* The refinement *)

LEMMA InitPromise == BillingInit => Promise!EntitlementInit
<1> SUFFICES ASSUME BillingInit PROVE Promise!EntitlementInit
  OBVIOUS
<1>1. CASE NewStore
  BY <1>1 DEF NewStore, Promise!EntitlementInit
<1>2. CASE SubscribedStore
  <2>1. PICK s \in Snapshot : features = Entitlement(s) /\ past = {s} /\ seen = {1, 2}
    BY <1>2 DEF SubscribedStore, Snapshot
  <2>2. seen \subseteq 1 .. MaxEvents
    BY <2>1
  <2>3. Entitlement(s) = Promise!Entitled(s)
    BY DEF Entitlement, Promise!Entitled
  <2> QED
    BY <2>1, <2>2, <2>3 DEF Promise!EntitlementInit, Snapshot
<1> QED
  BY <1>1, <1>2 DEF BillingInit

\* Stripe's steps, and what the server asks of it, change what the subscription is.
LEMMA StripeKeepsPromise ==
  ASSUME NEW s, NEW snapshot \in Snapshot, past' = past \cup {snapshot}, UNCHANGED storeRows
  PROVE  Promise!EntitlementNext
  BY DEF storeRows, Promise!EntitlementNext, Promise!SubscriptionChanges, Snapshot

\* An event is used once.
LEMMA WebhookKeepsPromise ==
  ASSUME BillingInv, NEW c \in Calls, SyncSubscription(c) \/ CheckoutCompleted(c)
  PROVE  Promise!EntitlementNext
<1>1. PICK e \in DOMAIN events : e = call[c].event
  BY WebhookKnows DEF SyncSubscription, CheckoutCompleted
<1>2. e \in 1 .. MaxEvents
  BY DEF BillingInv, BillingTypeOK
<1>3. e \notin seen /\ seen' = seen \cup {e} /\ past' = past
  BY <1>1 DEF SyncSubscription, CheckoutCompleted, RecordEvent, stripeState
<1>4. features' = features \/ \E s \in past : features' = Promise!Entitled(s)
  <2>1. CASE CheckoutCompleted(c)
    BY <2>1 DEF CheckoutCompleted
  <2>2. CASE SyncSubscription(c)
    <3>1. PICK s \in past : s = call[c].snapshot
      BY <2>2, WebhookKnows DEF SyncSubscription
    <3>2. features' = Entitlement(s)
      BY <2>2, <3>1 DEF SyncSubscription
    <3> QED
      BY <3>2 DEF Entitlement, Promise!Entitled
  <2> QED
    BY <2>1, <2>2
<1> QED
  BY <1>2, <1>3, <1>4 DEF Promise!EntitlementNext, Promise!EventArrives

LEMMA NextPromise ==
  ASSUME BillingInv, [BillingNext]_billingVars
  PROVE  [Promise!EntitlementNext]_Promise!entitlementVars
<1> USE DEF Promise!entitlementVars
<1>1. CASE Stripe
  <2>1. PICK s \in DOMAIN sessions :
          \/ PaySession(s) \/ ExpireSession(s)
          \/ \E usable \in BOOLEAN, kind \in {"changed", "invoice"} : SubscriptionPaid(s, usable, kind)
    BY <1>1 DEF Stripe
  <2>2. CASE PaySession(s)
    <3>1. sessions[s] \in SessionRow
      BY DEF BillingInv, BillingTypeOK
    <3>2. [usable |-> TRUE, plan |-> sessions[s].plan, loyalty |-> FALSE] \in Snapshot
      BY <3>1 DEF SessionRow, Snapshot
    <3> QED
      BY <2>2, <3>2, StripeKeepsPromise DEF PaySession
  <2>3. CASE ExpireSession(s)
    BY <2>3 DEF ExpireSession, storeRows
  <2>4. CASE \E usable \in BOOLEAN, kind \in {"changed", "invoice"} : SubscriptionPaid(s, usable, kind)
    <3>1. PICK usable \in BOOLEAN, kind \in {"changed", "invoice"} : SubscriptionPaid(s, usable, kind)
      BY <2>4
    <3>2. sessions[s].snapshot \in Snapshot
      BY <3>1 DEF SubscriptionPaid, Paid, BillingInv, SessionsTold, BillingTypeOK
    <3>3. [sessions[s].snapshot EXCEPT !.usable = usable] \in Snapshot
      BY <3>2 DEF Snapshot
    <3> QED
      BY <3>1, <3>3, StripeKeepsPromise DEF SubscriptionPaid, Change
  <2> QED
    BY <2>1, <2>2, <2>3, <2>4
<1>2. ASSUME NEW c \in Calls, Bill(c) PROVE [Promise!EntitlementNext]_Promise!entitlementVars
  <2>1. CASE AddServiceItem(c)
    <3>1. call[c] \in Adding /\ CallTold(call[c]) /\ call[c] # NoCall
      BY <2>1, AtStep, CallKinds DEF AddServiceItem, Busy
    <3>2. sessions[call[c].session].snapshot \in Snapshot
      BY <3>1 DEF CallTold, Adding, PaidSession, BillingInv, BillingTypeOK
    <3>3. [sessions[call[c].session].snapshot EXCEPT !.loyalty = TRUE] \in Snapshot
      BY <3>2 DEF Snapshot
    <3> QED
      BY <2>1, <3>3, StripeKeepsPromise DEF AddServiceItem, Change
  <2>2. CASE RemoveServiceItem(c)
    <3>1. sessions[service.item].snapshot \in Snapshot
      BY <2>2 DEF RemoveServiceItem, PaidSession, RowsTold, BillingInv, BillingTypeOK
    <3>2. [sessions[service.item].snapshot EXCEPT !.loyalty = FALSE] \in Snapshot
      BY <3>1 DEF Snapshot
    <3> QED
      BY <2>2, <3>2, StripeKeepsPromise DEF RemoveServiceItem, Change
  <2>3. CASE SyncSubscription(c) \/ CheckoutCompleted(c)
    BY <2>3, WebhookKeepsPromise
  <2>4. CASE DisableLoyalty(c)
    BY <2>4 DEF DisableLoyalty, stripeState, Promise!EntitlementNext, Promise!GiveUp
  <2>5. CASE \/ \E plan \in Plans : AskCheckout(c, plan)
             \/ RetrieveSession(c) \/ RetrieveFails(c) \/ SaveAttempt(c)
             \/ CreateSession(c) \/ StoreSession(c)
    BY <2>5 DEF AskCheckout, RetrieveSession, RetrieveFails, SaveAttempt, CreateSession, StoreSession,
                storeRows, stripeState
  <2>6. CASE \/ AskService(c) \/ ServiceItemAgain(c) \/ StoreServiceItem(c) \/ CancelService(c)
             \/ BreakOff(c)
    BY <2>6 DEF AskService, ServiceItemAgain, StoreServiceItem, CancelService, BreakOff, storeRows, stripeState
  <2>7. CASE (\E e \in DOMAIN events : Deliver(c, e)) \/ RetrieveSubscription(c)
    BY <2>7 DEF Deliver, RetrieveSubscription, storeRows, stripeState
  <2> QED
    BY <1>2, <2>1, <2>2, <2>3, <2>4, <2>5, <2>6, <2>7 DEF Bill
<1>3. CASE UNCHANGED billingVars
  BY <1>3 DEF billingVars, storeRows, stripeState
<1> QED
  BY <1>1, <1>2, <1>3 DEF BillingNext

\* For any number of requests, plans, sessions and events: however the webhooks are
\* delayed, reordered or repeated and wherever a request breaks off, the paid features
\* change only as Entitlements says.
THEOREM PromiseKept == BillingSpec => KeepsPromise
<1>1. BillingInit => Promise!EntitlementInit
  BY InitPromise
<1>2. BillingInv /\ [BillingNext]_billingVars => [Promise!EntitlementNext]_Promise!entitlementVars
  BY NextPromise
<1>3. BillingSpec => []BillingInv
  BY BillingInvariant
<1> QED
  BY <1>1, <1>2, <1>3, PTL DEF BillingSpec, KeepsPromise, Promise!EntitlementSpec

-----------------------------------------------------------------------------
(* One session is open at a time: an open session is found again by the     *)
(* next checkout, in the row, by the key that was saved, or by the request  *)
(* that is about to store it.                                               *)

AtCheckout(c) == \E step \in {"retrieve", "save", "create", "store"} : Busy(c, step)

\* What the row and the requests name exists.
SessionsKnown ==
  /\ subscription.session # 0 => subscription.session \in DOMAIN sessions
  /\ subscription.attempt # 0 => subscription.plan \in Plans
  /\ \A c \in Calls :
       /\ Busy(c, "retrieve") => call[c].row.session \in DOMAIN sessions
       /\ Busy(c, "store") => call[c].session \in DOMAIN sessions

OneCheckout == \A c, o \in Calls : AtCheckout(c) /\ AtCheckout(o) => c = o

KeySaved == \A c \in Calls : Busy(c, "create") => call[c].key = subscription.attempt /\ call[c].key # 0

\* A store that has sessions and names none has one: the next checkout gets it again.
FirstAgain ==
  subscription.session = 0 /\ sessions # <<>> =>
    /\ Len(sessions) = 1
    /\ sessions[1].key = subscription.attempt /\ subscription.attempt # 0
    /\ \A c \in Calls :
         /\ ~Busy(c, "retrieve")
         /\ Busy(c, "save") => SameAttempt(call[c].row, call[c].plan) /\ call[c].row.attempt = subscription.attempt
         /\ Busy(c, "store") => call[c].session = 1

Reached(s) ==
  \/ /\ subscription.session = s
     /\ \A c \in Calls : AtCheckout(c) => Busy(c, "retrieve") /\ call[c].row.session = s
  \/ subscription.session = 0
  \/ \E c \in Calls : Busy(c, "store") /\ call[c].session = s

OpenReached == \A s \in DOMAIN sessions : sessions[s].open => Reached(s)

SessionInv == SessionsKnown /\ (~excused => OneCheckout /\ KeySaved /\ FirstAgain /\ OpenReached)

\* A step that is none of the checkout's: sessions may close, the plan may change.
LEMMA NotCheckout ==
  ASSUME SessionInv, excused' = excused,
         Len(sessions') = Len(sessions), DOMAIN sessions' = DOMAIN sessions,
         sessions = <<>> => sessions' = <<>>,
         \A s \in DOMAIN sessions :
           sessions'[s].key = sessions[s].key /\ (sessions'[s].open => sessions[s].open),
         sessions \in Seq(SessionRow),
         subscription'.session = subscription.session,
         subscription'.attempt = subscription.attempt,
         subscription'.plan = subscription.plan \/ subscription'.plan \in Plans,
         \A c \in Calls : call'[c] = call[c] \/ (~AtCheckout(c) /\ ~AtCheckout(c)')
  PROVE  SessionInv'
<1>1. ASSUME NEW c \in Calls, NEW step \in {"retrieve", "save", "create", "store"}, Busy(c, step)'
      PROVE  call'[c] = call[c] /\ Busy(c, step)
  BY <1>1 DEF AtCheckout, Busy
<1>2. ASSUME NEW c \in Calls, AtCheckout(c)' PROVE AtCheckout(c)
  BY <1>1, <1>2 DEF AtCheckout
<1>3. SessionsKnown'
  BY <1>1 DEF SessionInv, SessionsKnown
<1>4. ASSUME ~excused
      PROVE  OneCheckout' /\ KeySaved' /\ FirstAgain' /\ OpenReached'
  <2>1. OneCheckout'
    BY <1>2, <1>4 DEF SessionInv, OneCheckout
  <2>2. KeySaved'
    BY <1>1, <1>4 DEF SessionInv, KeySaved
  <2>3. FirstAgain'
    <3>1. SUFFICES ASSUME subscription.session = 0, sessions # <<>>
                   PROVE  FirstAgain'
      BY DEF FirstAgain
    <3>2. 1 \in DOMAIN sessions
      BY <3>1
    <3> QED
      BY <1>1, <1>4, <3>1, <3>2 DEF SessionInv, FirstAgain, SameAttempt
  <2>4. OpenReached'
    <3>1. ASSUME NEW s \in DOMAIN sessions, sessions'[s].open PROVE Reached(s)'
      <4>1. Reached(s)
        BY <1>4, <3>1 DEF SessionInv, OpenReached
      <4>2. ASSUME NEW c \in Calls, Busy(c, "store"), call[c].session = s
            PROVE  Busy(c, "store")' /\ call'[c].session = s
        BY <4>2 DEF AtCheckout, Busy
      <4>3. ASSUME NEW c \in Calls, AtCheckout(c)'
            PROVE  call'[c] = call[c] /\ AtCheckout(c) /\ (Busy(c, "retrieve") => Busy(c, "retrieve")')
        BY <1>1, <4>3 DEF AtCheckout, Busy
      <4> QED
        BY <4>1, <4>2, <4>3 DEF Reached
    <3> QED
      BY <3>1 DEF OpenReached
  <2> QED
    BY <2>1, <2>2, <2>3, <2>4
<1> QED
  BY <1>3, <1>4 DEF SessionInv

\* The owner asks alone, for the plan the row has.
LEMMA AskCheckoutSession ==
  ASSUME BillingInv, SessionInv, NEW c \in Calls, NEW plan \in Plans, AskCheckout(c, plan)
  PROVE  SessionInv'
<1> DEFINE step == IF subscription.session # 0 THEN "retrieve" ELSE "save"
           t == [step |-> step, plan |-> plan, row |-> subscription]
<1>1. /\ subscription' = subscription /\ sessions' = sessions
      /\ call \in [Calls -> CallRow]
      /\ call' = [call EXCEPT ![c] = t]
      /\ call[c] = NoCall
  BY DEF AskCheckout, Goes, Free, storeRows, stripeState, BillingInv, BillingTypeOK
<1>2. /\ t.step = step /\ t.plan = plan /\ t.row = subscription
  OBVIOUS
<1> HIDE DEF t
<1>3. /\ call'[c] = t
      /\ \A o \in Calls \ {c} : call'[o] = call[o]
  BY <1>1
<1>4. ASSUME NEW o \in Calls, NEW s \in {"retrieve", "save", "create", "store"}, Busy(o, s)'
      PROVE  (o = c /\ s = step) \/ (o # c /\ call'[o] = call[o] /\ Busy(o, s))
  BY <1>2, <1>3, <1>4 DEF Busy
<1>5. SessionsKnown'
  BY <1>1, <1>2, <1>3, <1>4 DEF SessionInv, SessionsKnown
<1>6. ASSUME ~excused'
      PROVE  OneCheckout' /\ KeySaved' /\ FirstAgain' /\ OpenReached'
  <2>1. /\ ~excused /\ Alone(c) /\ subscription.plan \in {NoPlan, plan}
        /\ OneCheckout /\ KeySaved /\ FirstAgain /\ OpenReached
    BY <1>6 DEF AskCheckout, SessionInv
  <2>2. ASSUME NEW o \in Calls, NEW s, Busy(o, s) PROVE FALSE
    BY <1>1, <2>1, <2>2 DEF Alone, Free, Busy
  <2>3. ASSUME NEW o \in Calls, NEW s \in {"retrieve", "save", "create", "store"}, Busy(o, s)'
        PROVE  o = c /\ s = step
    BY <1>4, <2>2, <2>3
  <2>4. OneCheckout'
    BY <2>3 DEF OneCheckout, AtCheckout
  <2>5. KeySaved'
    BY <2>3 DEF KeySaved
  <2>6. FirstAgain'
    <3>1. SUFFICES ASSUME subscription.session = 0, sessions # <<>>
                   PROVE  FirstAgain'
      BY <1>1 DEF FirstAgain
    <3>2. subscription.attempt # 0 /\ subscription.plan \in Plans
      BY <2>1, <3>1 DEF FirstAgain, SessionInv, SessionsKnown
    <3>3. SameAttempt(subscription, plan)
      BY NothingAssumption, <2>1, <3>1, <3>2 DEF SameAttempt
    <3> QED
      BY <1>1, <1>2, <1>3, <2>1, <2>3, <3>1, <3>3 DEF FirstAgain
  <2>7. OpenReached'
    BY <1>1, <1>2, <1>3, <2>1, <2>2, <2>3 DEF OpenReached, Reached, AtCheckout
  <2> QED
    BY <2>4, <2>5, <2>6, <2>7
<1> QED
  BY <1>5, <1>6 DEF SessionInv

\* An open session ends the request; without one it goes on.
LEMMA RetrieveSessionSession ==
  ASSUME BillingInv, SessionInv, NEW c \in Calls, RetrieveSession(c) \/ RetrieveFails(c)
  PROVE  SessionInv'
<1> DEFINE t == [call[c] EXCEPT !.step = "save"]
<1>1. /\ subscription' = subscription /\ sessions' = sessions
      /\ call \in [Calls -> CallRow]
      /\ call' = [call EXCEPT ![c] = t] \/ call' = [call EXCEPT ![c] = NoCall]
      /\ Busy(c, "retrieve")
  BY DEF RetrieveSession, RetrieveFails, Goes, storeRows, stripeState, BillingInv, BillingTypeOK
<1>2. call[c] \in Asking
  BY <1>1, AtStep, CallKinds DEF Busy
<1>3. t.step = "save" /\ t.plan = call[c].plan /\ t.row = call[c].row
  BY <1>2 DEF Asking
<1>4. /\ call'[c] = t \/ call'[c] = NoCall
      /\ \A o \in Calls \ {c} : call'[o] = call[o]
  BY <1>1
<1>5. ASSUME NEW o \in Calls, NEW s \in {"retrieve", "save", "create", "store"}, Busy(o, s)'
      PROVE  (o = c /\ s = "save" /\ call'[c] = t) \/ (o # c /\ call'[o] = call[o] /\ Busy(o, s))
  BY <1>3, <1>4, <1>5 DEF Busy
<1>6. SessionsKnown'
  BY <1>1, <1>5 DEF SessionInv, SessionsKnown
<1>7. ASSUME ~excused'
      PROVE  OneCheckout' /\ KeySaved' /\ FirstAgain' /\ OpenReached'
  <2>1. /\ ~excused /\ RetrieveSession(c)
        /\ OneCheckout /\ KeySaved /\ FirstAgain /\ OpenReached
    BY <1>7 DEF RetrieveSession, RetrieveFails, SessionInv
  <2>2. ASSUME NEW o \in Calls, AtCheckout(o) PROVE o = c
    BY <1>1, <2>1, <2>2 DEF OneCheckout, AtCheckout
  <2>3. ASSUME NEW o \in Calls, NEW s \in {"retrieve", "save", "create", "store"}, Busy(o, s)'
        PROVE  o = c /\ s = "save" /\ call'[c] = t
    BY <1>5, <2>2, <2>3 DEF AtCheckout
  <2>4. OneCheckout'
    BY <2>3 DEF OneCheckout, AtCheckout
  <2>5. KeySaved'
    BY <2>3 DEF KeySaved
  <2>6. ~(subscription.session = 0 /\ sessions # <<>>)
    BY <1>1, <2>1 DEF FirstAgain
  <2>7. FirstAgain'
    BY <1>1, <2>6 DEF FirstAgain
  <2>8. ASSUME NEW s \in DOMAIN sessions, sessions[s].open
        PROVE  Reached(s)'
    <3>1. Reached(s) /\ subscription.session # 0
      BY <2>1, <2>6, <2>8 DEF OpenReached, BillingInv, BillingTypeOK
    <3>2. ~\E o \in Calls : Busy(o, "store") /\ call[o].session = s
      BY <1>1, <2>2 DEF AtCheckout, Busy
    <3>3. subscription.session = s /\ call[c].row.session = s
      BY <1>1, <3>1, <3>2 DEF Reached, AtCheckout
    <3>4. call'[c] = NoCall
      BY <2>1, <2>8, <3>3, <1>1 DEF RetrieveSession, Goes
    <3>5. ASSUME NEW o \in Calls, AtCheckout(o)' PROVE FALSE
      BY <2>3, <3>4, <3>5 DEF AtCheckout, Busy
    <3> QED
      BY <1>1, <3>3, <3>5 DEF Reached
  <2>9. OpenReached'
    BY <1>1, <2>8 DEF OpenReached
  <2> QED
    BY <2>4, <2>5, <2>7, <2>9
<1> QED
  BY <1>6, <1>7 DEF SessionInv

\* The key is saved: while a session is open it is the key of that session.
LEMMA SaveAttemptSession ==
  ASSUME BillingInv, SessionInv, NEW c \in Calls, SaveAttempt(c)
  PROVE  SessionInv'
<1> DEFINE key == IF SameAttempt(call[c].row, call[c].plan) THEN call[c].row.attempt ELSE attempts + 1
           t == [step |-> "create", plan |-> call[c].plan, key |-> key]
<1>1. /\ subscription' = [subscription EXCEPT !.status = "pending", !.plan = call[c].plan, !.attempt = key]
      /\ sessions' = sessions
      /\ excused' = excused
      /\ call \in [Calls -> CallRow]
      /\ call' = [call EXCEPT ![c] = t]
      /\ Busy(c, "save")
  BY DEF SaveAttempt, Goes, stripeState, BillingInv, BillingTypeOK
<1>2. call[c] \in Asking /\ subscription \in SubscriptionRow /\ attempts \in Nat
  BY <1>1, AtStep, CallKinds DEF Busy
<1>3. call[c].plan \in Plans /\ key \in Nat /\ key # 0
  BY <1>2 DEF Asking, SubscriptionRow, SameAttempt
<1>4. t.step = "create" /\ t.key = key
  OBVIOUS
<1>5. SameAttempt(call[c].row, call[c].plan) => key = call[c].row.attempt
  OBVIOUS
<1> HIDE DEF key, t
<1>6. /\ subscription'.session = subscription.session
      /\ subscription'.attempt = key
      /\ subscription'.plan = call[c].plan
  BY <1>1, <1>2 DEF SubscriptionRow
<1>7. /\ call'[c] = t
      /\ \A o \in Calls \ {c} : call'[o] = call[o]
  BY <1>1
<1>8. ASSUME NEW o \in Calls, NEW s \in {"retrieve", "save", "create", "store"}, Busy(o, s)'
      PROVE  (o = c /\ s = "create") \/ (o # c /\ call'[o] = call[o] /\ Busy(o, s))
  BY <1>4, <1>7, <1>8 DEF Busy
<1>9. SessionsKnown'
  BY <1>1, <1>3, <1>6, <1>8 DEF SessionInv, SessionsKnown
<1>10. ASSUME ~excused
       PROVE  OneCheckout' /\ KeySaved' /\ FirstAgain' /\ OpenReached'
  <2>1. OneCheckout /\ KeySaved /\ FirstAgain /\ OpenReached
    BY <1>10 DEF SessionInv
  <2>2. ASSUME NEW o \in Calls, AtCheckout(o) PROVE o = c
    BY <1>1, <2>1, <2>2 DEF OneCheckout, AtCheckout
  <2>3. ASSUME NEW o \in Calls, NEW s \in {"retrieve", "save", "create", "store"}, Busy(o, s)'
        PROVE  o = c /\ s = "create"
    BY <1>8, <2>2, <2>3 DEF AtCheckout
  <2>4. OneCheckout'
    BY <2>3 DEF OneCheckout, AtCheckout
  <2>5. KeySaved'
    BY <1>3, <1>4, <1>6, <1>7, <2>3 DEF KeySaved
  <2>6. FirstAgain'
    BY <1>1, <1>3, <1>5, <1>6, <2>1, <2>3 DEF FirstAgain
  <2>7. ASSUME NEW s \in DOMAIN sessions, sessions[s].open PROVE Reached(s)'
    <3>1. Reached(s)
      BY <2>1, <2>7 DEF OpenReached
    <3>2. subscription.session = 0
      BY <1>1, <2>2, <3>1 DEF Reached, AtCheckout, Busy
    <3> QED
      BY <1>6, <3>2 DEF Reached
  <2>8. OpenReached'
    BY <1>1, <2>7 DEF OpenReached
  <2> QED
    BY <2>4, <2>5, <2>6, <2>8
<1> QED
  BY <1>1, <1>9, <1>10 DEF SessionInv

\* A session is only opened when none is open: an open one has the key.
LEMMA CreateSessionSession ==
  ASSUME BillingInv, SessionInv, NEW c \in Calls, CreateSession(c)
  PROVE  SessionInv'
<1> DEFINE found == SessionOf(call[c].key)
           new == [key |-> call[c].key, plan |-> call[c].plan, open |-> TRUE, snapshot |-> NoSnapshot]
           given == IF found # {} THEN CHOOSE s \in found : TRUE ELSE Len(sessions) + 1
           t == [step |-> "store", session |-> given]
<1>1. /\ subscription' = subscription
      /\ sessions' = IF found # {} THEN sessions ELSE Append(sessions, new)
      /\ excused' = excused
      /\ call \in [Calls -> CallRow]
      /\ call' = [call EXCEPT ![c] = t]
      /\ Busy(c, "create")
  BY DEF CreateSession, Goes, storeRows, BillingInv, BillingTypeOK
<1>2. call[c] \in Creating /\ subscription \in SubscriptionRow /\ sessions \in Seq(SessionRow)
  BY <1>1, AtStep, CallKinds DEF Busy, BillingInv, BillingTypeOK
<1>3. /\ found \subseteq DOMAIN sessions
      /\ \A s \in DOMAIN sessions : s \in found <=> sessions[s].key = call[c].key
      /\ found # {} => given \in found
      /\ found = {} => given = Len(sessions) + 1
  BY DEF SessionOf
<1>4. /\ t.step = "store" /\ t.session = given
      /\ given \in Nat => t \in [step : {"store"}, session : Nat]
  OBVIOUS
<1>5. new \in SessionRow /\ new.key = call[c].key
  BY <1>2 DEF Creating, SessionRow, MaybeSnapshot
<1> HIDE DEF found, new, given, t
<1>6. /\ DOMAIN sessions \subseteq DOMAIN sessions'
      /\ given \in DOMAIN sessions'
      /\ \A s \in DOMAIN sessions : sessions'[s] = sessions[s]
      /\ found # {} => sessions' = sessions
      /\ found = {} => /\ Len(sessions') = Len(sessions) + 1
                       /\ DOMAIN sessions' = DOMAIN sessions \cup {given}
                       /\ sessions'[given] = new
  BY <1>1, <1>2, <1>3, <1>5
<1>7. /\ call'[c] = t
      /\ \A o \in Calls \ {c} : call'[o] = call[o]
  BY <1>1
<1>8. ASSUME NEW o \in Calls, NEW s \in {"retrieve", "save", "create", "store"}, Busy(o, s)'
      PROVE  (o = c /\ s = "store") \/ (o # c /\ call'[o] = call[o] /\ Busy(o, s))
  BY <1>4, <1>7, <1>8 DEF Busy
<1>9. SessionsKnown'
  BY <1>1, <1>4, <1>6, <1>7, <1>8 DEF SessionInv, SessionsKnown
<1>10. ASSUME ~excused
       PROVE  OneCheckout' /\ KeySaved' /\ FirstAgain' /\ OpenReached'
  <2>1. OneCheckout /\ KeySaved /\ FirstAgain /\ OpenReached /\ SessionsKnown
    BY <1>10 DEF SessionInv
  <2>2. ASSUME NEW o \in Calls, AtCheckout(o) PROVE o = c
    BY <1>1, <2>1, <2>2 DEF OneCheckout, AtCheckout
  <2>3. ASSUME NEW o \in Calls, NEW s \in {"retrieve", "save", "create", "store"}, Busy(o, s)'
        PROVE  o = c /\ s = "store"
    BY <1>8, <2>2, <2>3 DEF AtCheckout
  <2>4. OneCheckout' /\ KeySaved'
    BY <2>3 DEF OneCheckout, KeySaved, AtCheckout
  <2>5. call[c].key = subscription.attempt /\ subscription.attempt # 0
    BY <1>1, <2>1 DEF KeySaved
  <2>6. ASSUME NEW s \in DOMAIN sessions, sessions[s].open
        PROVE  subscription.session = 0
    <3>1. Reached(s)
      BY <2>1, <2>6 DEF OpenReached
    <3> QED
      BY <1>1, <2>2, <3>1 DEF Reached, AtCheckout, Busy
  <2>7. ASSUME subscription.session = 0, sessions # <<>>
        PROVE  /\ Len(sessions) = 1 /\ sessions[1].key = call[c].key
               /\ 1 \in found /\ given = 1
    <3>1. Len(sessions) = 1 /\ sessions[1].key = call[c].key /\ DOMAIN sessions = {1}
      BY <1>2, <2>1, <2>5, <2>7 DEF FirstAgain
    <3> QED
      BY <1>3, <3>1
  <2>8. FirstAgain'
    <3>1. SUFFICES ASSUME subscription.session = 0 PROVE FirstAgain'
      BY <1>1 DEF FirstAgain
    <3>2. Len(sessions') = 1 /\ sessions'[1].key = subscription.attempt /\ given = 1
      <4>1. CASE sessions # <<>>
        BY <1>2, <1>6, <2>5, <2>7, <3>1, <4>1
      <4>2. CASE sessions = <<>>
        <5>1. found = {} /\ Len(sessions) = 0
          BY <1>3, <4>2
        <5> QED
          BY <1>3, <1>5, <1>6, <2>5, <5>1
      <4> QED
        BY <4>1, <4>2
    <3> QED
      BY <1>1, <1>4, <1>7, <2>3, <2>5, <3>2 DEF FirstAgain
  <2>9. ASSUME NEW s \in DOMAIN sessions', sessions'[s].open PROVE Reached(s)'
    <3>1. CASE s \in DOMAIN sessions
      BY <1>1, <1>6, <2>6, <2>9, <3>1 DEF Reached
    <3>2. CASE s \notin DOMAIN sessions
      <4>1. s = given /\ given \in Nat
        BY <1>2, <1>3, <1>6, <3>2
      <4>2. t # NoCall
        BY <1>4, <4>1, NothingAssumption
      <4>3. Busy(c, "store")' /\ call'[c].session = s
        BY <1>4, <1>7, <4>1, <4>2 DEF Busy
      <4> QED
        BY <4>3 DEF Reached
    <3> QED
      BY <3>1, <3>2
  <2>10. OpenReached'
    BY <2>9 DEF OpenReached
  <2> QED
    BY <2>4, <2>8, <2>10
<1> QED
  BY <1>1, <1>9, <1>10 DEF SessionInv

\* The session is stored: the row leads to it.
LEMMA StoreSessionSession ==
  ASSUME BillingInv, SessionInv, NEW c \in Calls, StoreSession(c)
  PROVE  SessionInv'
<1>1. /\ subscription' = [subscription EXCEPT !.session = call[c].session]
      /\ sessions' = sessions
      /\ excused' = excused
      /\ call \in [Calls -> CallRow]
      /\ call' = [call EXCEPT ![c] = NoCall]
      /\ Busy(c, "store")
  BY DEF StoreSession, Goes, stripeState, BillingInv, BillingTypeOK
<1>2. subscription \in SubscriptionRow /\ sessions \in Seq(SessionRow)
  BY DEF BillingInv, BillingTypeOK
<1>3. /\ subscription'.session = call[c].session
      /\ subscription'.attempt = subscription.attempt
      /\ subscription'.plan = subscription.plan
  BY <1>1, <1>2 DEF SubscriptionRow
<1>4. call[c].session \in DOMAIN sessions /\ call[c].session # 0
  BY <1>1, <1>2 DEF SessionInv, SessionsKnown
<1>5. ASSUME NEW o \in Calls, NEW s \in {"retrieve", "save", "create", "store"}, Busy(o, s)'
      PROVE  o # c /\ call'[o] = call[o] /\ Busy(o, s)
  BY <1>1, <1>5 DEF Busy
<1>6. SessionsKnown'
  BY <1>1, <1>3, <1>4, <1>5 DEF SessionInv, SessionsKnown
<1>7. ASSUME ~excused
      PROVE  OneCheckout' /\ KeySaved' /\ FirstAgain' /\ OpenReached'
  <2>1. OneCheckout /\ KeySaved /\ FirstAgain /\ OpenReached
    BY <1>7 DEF SessionInv
  <2>2. ASSUME NEW o \in Calls, AtCheckout(o) PROVE o = c
    BY <1>1, <2>1, <2>2 DEF OneCheckout, AtCheckout
  <2>3. ASSUME NEW o \in Calls, AtCheckout(o)' PROVE FALSE
    BY <1>5, <2>2, <2>3 DEF AtCheckout
  <2>4. OneCheckout' /\ KeySaved'
    BY <2>3 DEF OneCheckout, KeySaved, AtCheckout
  <2>5. FirstAgain'
    BY <1>3, <1>4 DEF FirstAgain
  <2>6. ASSUME NEW s \in DOMAIN sessions, sessions[s].open PROVE s = call[c].session
    <3>1. Reached(s)
      BY <2>1, <2>6 DEF OpenReached
    <3>2. CASE subscription.session = 0
      <4>1. Len(sessions) = 1 /\ call[c].session = 1 /\ DOMAIN sessions = {1}
        BY <1>1, <1>2, <2>1, <2>6, <3>2 DEF FirstAgain
      <4> QED
        BY <4>1
    <3>3. CASE subscription.session # 0
      BY <1>1, <2>2, <3>1, <3>3 DEF Reached, AtCheckout, Busy
    <3> QED
      BY <3>2, <3>3
  <2>7. OpenReached'
    BY <1>1, <1>3, <2>3, <2>6 DEF OpenReached, Reached
  <2> QED
    BY <2>4, <2>5, <2>7
<1> QED
  BY <1>1, <1>6, <1>7 DEF SessionInv

\* A request breaks off: one that was about to store the first session leaves it to
\* the key.
LEMMA BreakOffSession ==
  ASSUME BillingInv, SessionInv, NEW c \in Calls, BreakOff(c)
  PROVE  SessionInv'
<1>1. /\ subscription' = subscription
      /\ sessions' = sessions
      /\ call \in [Calls -> CallRow]
      /\ call' = [call EXCEPT ![c] = NoCall]
  BY DEF BreakOff, Goes, storeRows, stripeState, BillingInv, BillingTypeOK
<1>2. ASSUME NEW o \in Calls, NEW s \in {"retrieve", "save", "create", "store"}, Busy(o, s)'
      PROVE  o # c /\ call'[o] = call[o] /\ Busy(o, s)
  BY <1>1, <1>2 DEF Busy
<1>3. SessionsKnown'
  BY <1>1, <1>2 DEF SessionInv, SessionsKnown
<1>4. ASSUME ~excused'
      PROVE  OneCheckout' /\ KeySaved' /\ FirstAgain' /\ OpenReached'
  <2>1. /\ ~excused /\ ~(Busy(c, "store") /\ subscription.session # 0)
        /\ OneCheckout /\ KeySaved /\ FirstAgain /\ OpenReached
    BY <1>4 DEF BreakOff, SessionInv
  <2>2. ASSUME NEW o \in Calls, AtCheckout(o)' PROVE o # c /\ call'[o] = call[o] /\ AtCheckout(o)
    BY <1>2, <2>2 DEF AtCheckout
  <2>3. OneCheckout'
    BY <2>1, <2>2 DEF OneCheckout
  <2>4. KeySaved' /\ FirstAgain'
    BY <1>1, <1>2, <2>1 DEF KeySaved, FirstAgain, SameAttempt
  <2>5. ASSUME NEW s \in DOMAIN sessions, sessions[s].open PROVE Reached(s)'
    <3>1. Reached(s)
      BY <2>1, <2>5 DEF OpenReached
    <3>2. CASE subscription.session = 0
      BY <1>1, <3>2 DEF Reached
    <3>3. CASE /\ subscription.session = s
               /\ \A o \in Calls : AtCheckout(o) => Busy(o, "retrieve") /\ call[o].row.session = s
      <4>1. ASSUME NEW o \in Calls, AtCheckout(o)'
            PROVE  Busy(o, "retrieve")' /\ call'[o].row.session = s
        BY <2>2, <3>3, <4>1 DEF Busy
      <4> QED
        BY <1>1, <3>3, <4>1 DEF Reached
    <3>4. CASE \E o \in Calls : Busy(o, "store") /\ call[o].session = s
      <4>1. PICK o \in Calls : Busy(o, "store") /\ call[o].session = s
        BY <3>4
      <4>2. CASE o = c
        BY <2>1, <3>2, <4>1, <4>2
      <4>3. CASE o # c
        BY <1>1, <4>1, <4>3 DEF Reached, Busy
      <4> QED
        BY <4>2, <4>3
    <3> QED
      BY <3>1, <3>2, <3>3, <3>4 DEF Reached
  <2>6. OpenReached'
    BY <1>1, <2>5 DEF OpenReached
  <2> QED
    BY <2>3, <2>4, <2>6
<1> QED
  BY <1>3, <1>4 DEF SessionInv

\* The other requests and webhooks are none of the checkout's.
LEMMA AfterwardsElsewhere ==
  ASSUME BillingInv, NEW c \in Calls, NEW t, Goes(c, t), t = NoCall \/ t \in Adding \cup Removing \cup Hearing,
         Free(c) \/ call[c] \in Adding \cup Removing \cup Hearing
  PROVE  \A o \in Calls : call'[o] = call[o] \/ (~AtCheckout(o) /\ ~AtCheckout(o)')
<1>1. call' = [call EXCEPT ![c] = t] /\ call \in [Calls -> CallRow]
  BY DEF Goes, BillingInv, BillingTypeOK
<1>2. \A o \in Calls \ {c} : call'[o] = call[o]
  BY <1>1
<1>3. call'[c] = t
  BY <1>1
<1>4. ~AtCheckout(c)
  BY DEF AtCheckout, Busy, Free, Adding, Removing, Hearing
<1>5. ~AtCheckout(c)'
  BY <1>3 DEF AtCheckout, Busy, Adding, Removing, Hearing
<1> QED
  BY <1>2, <1>4, <1>5

\* A step of the server that changes neither the sessions nor the key and the session
\* of the row.
LEMMA ServerElsewhere ==
  ASSUME BillingInv, SessionInv, NEW c \in Calls, NEW t, Goes(c, t),
         t = NoCall \/ t \in Adding \cup Removing \cup Hearing,
         Free(c) \/ call[c] \in Adding \cup Removing \cup Hearing,
         sessions' = sessions, excused' = excused,
         subscription'.session = subscription.session,
         subscription'.attempt = subscription.attempt,
         subscription'.plan = subscription.plan \/ subscription'.plan \in Plans
  PROVE  SessionInv'
<1>1. \A o \in Calls : call'[o] = call[o] \/ (~AtCheckout(o) /\ ~AtCheckout(o)')
  BY AfterwardsElsewhere
<1>2. sessions \in Seq(SessionRow)
  BY DEF BillingInv, BillingTypeOK
<1> QED
  BY <1>1, <1>2, NotCheckout

\* A session changes at Stripe: it is not opened again, and its key stays.
LEMMA StripeElsewhere ==
  ASSUME BillingInv, SessionInv, NEW s \in DOMAIN sessions, NEW snapshot,
         \/ sessions' = [sessions EXCEPT ![s].snapshot = snapshot]
         \/ sessions' = [sessions EXCEPT ![s].open = FALSE]
         \/ sessions' = [sessions EXCEPT ![s].open = FALSE, ![s].snapshot = snapshot],
         subscription' = subscription, excused' = excused,
         \A c \in Calls : call'[c] = call[c] \/ (~AtCheckout(c) /\ ~AtCheckout(c)')
  PROVE  SessionInv'
<1>1. sessions \in Seq(SessionRow) /\ \A r \in DOMAIN sessions : sessions[r] \in SessionRow
  BY DEF BillingInv, BillingTypeOK
<1>2. PICK row : /\ sessions' = [sessions EXCEPT ![s] = row]
                 /\ row.key = sessions[s].key /\ (row.open => sessions[s].open)
  <2>1. CASE sessions' = [sessions EXCEPT ![s].snapshot = snapshot]
    <3> DEFINE row == [sessions[s] EXCEPT !.snapshot = snapshot]
    <3>1. sessions' = [sessions EXCEPT ![s] = row]
      BY <2>1
    <3>2. row.key = sessions[s].key /\ row.open = sessions[s].open
      BY <1>1 DEF SessionRow
    <3> QED
      BY <3>1, <3>2
  <2>2. CASE sessions' = [sessions EXCEPT ![s].open = FALSE]
    <3> DEFINE row == [sessions[s] EXCEPT !.open = FALSE]
    <3>1. sessions' = [sessions EXCEPT ![s] = row]
      BY <2>2
    <3>2. row.key = sessions[s].key /\ row.open = FALSE
      BY <1>1 DEF SessionRow
    <3> QED
      BY <3>1, <3>2
  <2>3. CASE sessions' = [sessions EXCEPT ![s].open = FALSE, ![s].snapshot = snapshot]
    <3> DEFINE row == [sessions[s] EXCEPT !.open = FALSE, !.snapshot = snapshot]
    <3>1. sessions' = [sessions EXCEPT ![s] = row]
      BY <1>1, <2>3
    <3>2. row.key = sessions[s].key /\ row.open = FALSE
      BY <1>1 DEF SessionRow
    <3> QED
      BY <3>1, <3>2
  <2> QED
    BY <2>1, <2>2, <2>3
<1>3. DOMAIN sessions' = DOMAIN sessions /\ Len(sessions') = Len(sessions) /\ sessions # <<>>
  BY <1>1, <1>2
<1>4. \A r \in DOMAIN sessions :
        sessions'[r].key = sessions[r].key /\ (sessions'[r].open => sessions[r].open)
  BY <1>1, <1>2
<1> QED
  BY <1>1, <1>3, <1>4, NotCheckout

\* A session that was completed is linked when none is open.
LEMMA CheckoutCompletedSession ==
  ASSUME BillingInv, SessionInv, NEW c \in Calls, CheckoutCompleted(c)
  PROVE  SessionInv'
<1>1. PICK s \in Nat : s = events[call[c].event].session /\ PaidSession(s)
  BY WebhookKnows DEF CheckoutCompleted
<1>2. subscription \in SubscriptionRow /\ sessions \in Seq(SessionRow)
  BY DEF BillingInv, BillingTypeOK
<1>3. s \in DOMAIN sessions /\ s # 0 /\ sessions[s].plan \in Plans
  <2>1. s \in DOMAIN sessions
    BY <1>1 DEF PaidSession
  <2>2. s # 0 /\ sessions[s] \in SessionRow
    BY <1>2, <2>1
  <2> QED
    BY <2>1, <2>2 DEF SessionRow
<1>4. subscription' = [subscription EXCEPT !.session = s, !.stripe = s, !.plan = sessions[s].plan]
  BY <1>1 DEF CheckoutCompleted
<1>5. /\ subscription'.session = s
      /\ subscription'.attempt = subscription.attempt
      /\ subscription'.plan \in Plans
  BY <1>2, <1>3, <1>4 DEF SubscriptionRow
<1>6. sessions' = sessions
  BY DEF CheckoutCompleted, stripeState
<1>7. call[c] \in Hearing
  BY AtStep, CallKinds DEF CheckoutCompleted, Busy
<1>8. \A o \in Calls : call'[o] = call[o] \/ (~AtCheckout(o) /\ ~AtCheckout(o)')
  BY <1>7, AfterwardsElsewhere DEF CheckoutCompleted
<1>9. ASSUME NEW o \in Calls, NEW step \in {"retrieve", "save", "create", "store"}, Busy(o, step)'
      PROVE  call'[o] = call[o] /\ Busy(o, step) /\ AtCheckout(o)
  BY <1>8, <1>9 DEF AtCheckout, Busy
<1>10. SessionsKnown'
  BY <1>3, <1>5, <1>6, <1>9 DEF SessionInv, SessionsKnown
<1>11. ASSUME ~excused'
       PROVE  OneCheckout' /\ KeySaved' /\ FirstAgain' /\ OpenReached'
  <2>1. /\ ~excused /\ \A r \in DOMAIN sessions : ~sessions[r].open
        /\ OneCheckout /\ KeySaved
    BY <1>11 DEF CheckoutCompleted, SessionInv
  <2>2. OneCheckout'
    BY <1>9, <2>1 DEF OneCheckout, AtCheckout
  <2>3. KeySaved'
    BY <1>5, <1>9, <2>1 DEF KeySaved
  <2>4. FirstAgain' /\ OpenReached'
    BY <1>3, <1>5, <1>6, <2>1 DEF FirstAgain, OpenReached
  <2> QED
    BY <2>2, <2>3, <2>4
<1> QED
  BY <1>10, <1>11 DEF SessionInv

LEMMA InitSession == BillingInit => SessionInv
<1> SUFFICES ASSUME BillingInit PROVE SessionInv
  OBVIOUS
<1>1. \A c \in Calls : \A step : ~Busy(c, step)
  BY DEF BillingInit, Busy
<1>2. OneCheckout /\ KeySaved
  BY <1>1 DEF OneCheckout, KeySaved, AtCheckout
<1>3. CASE NewStore
  BY <1>1, <1>2, <1>3 DEF NewStore, SessionInv, SessionsKnown, FirstAgain, OpenReached
<1>4. CASE SubscribedStore
  <2>1. PICK plan \in Plans, snapshot \in Snapshot :
          /\ subscription = [status |-> "usable", plan |-> plan, session |-> 1, attempt |-> 1, stripe |-> 1]
          /\ sessions = <<[key |-> 1, plan |-> plan, open |-> FALSE, snapshot |-> snapshot]>>
    BY <1>4 DEF SubscribedStore, Snapshot
  <2>2. /\ subscription.session = 1 /\ subscription.plan = plan
        /\ DOMAIN sessions = {1} /\ ~sessions[1].open
    BY <2>1
  <2> QED
    BY <1>1, <1>2, <2>2 DEF SessionInv, SessionsKnown, FirstAgain, OpenReached
<1> QED
  BY <1>3, <1>4 DEF BillingInit

\* A webhook tells a plan.
LEMMA SyncSubscriptionSession ==
  ASSUME BillingInv, SessionInv, NEW c \in Calls, SyncSubscription(c)
  PROVE  SessionInv'
<1>1. PICK s \in Snapshot : s = call[c].snapshot
  BY WebhookKnows DEF SyncSubscription, BillingInv, BillingTypeOK
<1>2. PICK r : subscription' = [subscription EXCEPT !.plan = s.plan, !.stripe = r,
                                  !.status = IF s.usable THEN "usable" ELSE "unusable"]
  BY <1>1 DEF SyncSubscription
<1>3. subscription \in SubscriptionRow /\ s.plan \in Plans
  BY <1>1 DEF BillingInv, BillingTypeOK, Snapshot
<1>4. /\ subscription'.session = subscription.session
      /\ subscription'.attempt = subscription.attempt
      /\ subscription'.plan \in Plans
  BY <1>2, <1>3 DEF SubscriptionRow
<1>5. call[c] \in Hearing
  BY AtStep, CallKinds DEF SyncSubscription, Busy
<1> QED
  BY <1>4, <1>5, ServerElsewhere DEF SyncSubscription, stripeState

LEMMA NextSession == BillingInv /\ SessionInv /\ [BillingNext]_billingVars => SessionInv'
<1> SUFFICES ASSUME BillingInv, SessionInv, [BillingNext]_billingVars PROVE SessionInv'
  OBVIOUS
<1>1. CASE Stripe
  <2>1. PICK s \in DOMAIN sessions :
          \/ PaySession(s) \/ ExpireSession(s)
          \/ \E usable \in BOOLEAN, kind \in {"changed", "invoice"} : SubscriptionPaid(s, usable, kind)
    BY <1>1 DEF Stripe
  <2>2. CASE PaySession(s)
    BY <2>2, StripeElsewhere DEF PaySession, storeRows
  <2>3. CASE ExpireSession(s)
    BY <2>3, StripeElsewhere DEF ExpireSession, storeRows
  <2>4. CASE \E usable \in BOOLEAN, kind \in {"changed", "invoice"} : SubscriptionPaid(s, usable, kind)
    BY <2>4, StripeElsewhere DEF SubscriptionPaid, Change, storeRows
  <2> QED
    BY <2>1, <2>2, <2>3, <2>4
<1>2. ASSUME NEW c \in Calls, Bill(c) PROVE SessionInv'
  <2> USE DEF storeRows, stripeState
  <2>1. CASE \E plan \in Plans : AskCheckout(c, plan)
    BY <2>1, AskCheckoutSession
  <2>2. CASE RetrieveSession(c) \/ RetrieveFails(c)
    BY <2>2, RetrieveSessionSession
  <2>3. CASE SaveAttempt(c)
    BY <2>3, SaveAttemptSession
  <2>4. CASE CreateSession(c)
    BY <2>4, CreateSessionSession
  <2>5. CASE StoreSession(c)
    BY <2>5, StoreSessionSession
  <2>6. CASE BreakOff(c)
    BY <2>6, BreakOffSession
  <2>7. CASE CheckoutCompleted(c)
    BY <2>7, CheckoutCompletedSession
  <2>8. CASE SyncSubscription(c)
    BY <2>8, SyncSubscriptionSession
  <2>9. CASE AskService(c)
    <3>1. [step |-> "add", session |-> subscription.stripe] \in Adding
      BY DEF Adding, SubscriptionRow, BillingInv, BillingTypeOK
    <3> QED
      BY <2>9, <3>1, ServerElsewhere DEF AskService
  <2>10. CASE AddServiceItem(c)
    <3>1. call[c] \in Adding /\ CallTold(call[c]) /\ call[c] # NoCall
      BY <2>10, AtStep, CallKinds DEF AddServiceItem, Busy
    <3>2. call[c].session \in DOMAIN sessions
      BY <3>1 DEF CallTold, Adding, PaidSession
    <3>3. [call[c] EXCEPT !.step = "item"] \in Adding
      BY <3>1 DEF Adding
    <3>4. \A o \in Calls : call'[o] = call[o] \/ (~AtCheckout(o) /\ ~AtCheckout(o)')
      BY <2>10, <3>1, <3>3, AfterwardsElsewhere DEF AddServiceItem
    <3> QED
      BY <2>10, <3>2, <3>4, StripeElsewhere DEF AddServiceItem, Change
  <2>11. CASE ServiceItemAgain(c)
    <3>1. call[c] \in Adding
      BY <2>11, AtStep, CallKinds DEF ServiceItemAgain, Busy
    <3>2. [call[c] EXCEPT !.step = "item"] \in Adding
      BY <3>1 DEF Adding
    <3> QED
      BY <2>11, <3>1, <3>2, ServerElsewhere DEF ServiceItemAgain
  <2>12. CASE StoreServiceItem(c)
    <3>1. call[c] \in Adding
      BY <2>12, AtStep, CallKinds DEF StoreServiceItem, Busy
    <3> QED
      BY <2>12, <3>1, ServerElsewhere DEF StoreServiceItem
  <2>13. CASE RemoveServiceItem(c)
    <3>1. service.item \in DOMAIN sessions
      BY <2>13 DEF RemoveServiceItem, BillingInv, RowsTold, PaidSession
    <3>2. [step |-> "canceled"] \in Removing
      BY DEF Removing
    <3>3. \A o \in Calls : call'[o] = call[o] \/ (~AtCheckout(o) /\ ~AtCheckout(o)')
      BY <2>13, <3>2, AfterwardsElsewhere DEF RemoveServiceItem
    <3> QED
      BY <2>13, <3>1, <3>3, StripeElsewhere DEF RemoveServiceItem, Change
  <2>14. CASE CancelService(c)
    <3>1. call[c] \in Removing /\ [step |-> "disable"] \in Removing
      BY <2>14, AtStep, CallKinds DEF CancelService, Busy, Removing
    <3> QED
      BY <2>14, <3>1, ServerElsewhere DEF CancelService
  <2>15. CASE DisableLoyalty(c)
    <3>1. call[c] \in Removing
      BY <2>15, AtStep, CallKinds DEF DisableLoyalty, Busy
    <3> QED
      BY <2>15, <3>1, ServerElsewhere DEF DisableLoyalty
  <2>16. CASE \E e \in DOMAIN events : Deliver(c, e)
    <3>1. PICK e \in DOMAIN events : Deliver(c, e)
      BY <2>16
    <3>2. events \in Seq(EventRow)
      BY DEF BillingInv, BillingTypeOK
    <3>3. e \in Nat /\ events[e] \in EventRow
      BY <3>2
    <3>4. events[e].snapshot \in MaybeSnapshot
      BY <3>3 DEF EventRow
    <3>5. [step |-> IF events[e].kind = "invoice" THEN "invoice" ELSE "apply",
           event |-> e, snapshot |-> events[e].snapshot] \in Hearing
      BY <3>3, <3>4 DEF Hearing
    <3> QED
      BY <3>1, <3>5, ServerElsewhere DEF Deliver
  <2>17. CASE RetrieveSubscription(c)
    <3> DEFINE s == events[call[c].event].session
    <3>1. call[c] \in Hearing /\ CallTold(call[c]) /\ call[c] # NoCall
      BY <2>17, AtStep, CallKinds DEF RetrieveSubscription, Busy
    <3>2. PaidSession(s) /\ past \subseteq Snapshot
      BY <3>1 DEF CallTold, Hearing, BillingInv, BillingTypeOK, EventsTold
    <3>3. sessions[s].snapshot \in MaybeSnapshot
      BY <3>2 DEF PaidSession, MaybeSnapshot
    <3>4. [call[c] EXCEPT !.step = "apply", !.snapshot = sessions[s].snapshot] \in Hearing
      BY <3>1, <3>3 DEF Hearing
    <3> QED
      BY <2>17, <3>1, <3>4, ServerElsewhere DEF RetrieveSubscription
  <2> QED
    BY <1>2, <2>1, <2>2, <2>3, <2>4, <2>5, <2>6, <2>7, <2>8, <2>9, <2>10, <2>11, <2>12, <2>13,
       <2>14, <2>15, <2>16, <2>17 DEF Bill
<1>3. CASE UNCHANGED billingVars
  <2>1. sessions \in Seq(SessionRow)
    BY DEF BillingInv, BillingTypeOK
  <2> QED
    BY <1>3, <2>1, NotCheckout DEF billingVars, storeRows, stripeState
<1> QED
  BY <1>1, <1>2, <1>3 DEF BillingNext

\* Two sessions that are open are the same: the row, the key or the request leads to both.
LEMMA OpenIsOne ==
  ASSUME BillingInv, SessionInv, ~excused,
         NEW r \in DOMAIN sessions, NEW s \in DOMAIN sessions, sessions[r].open, sessions[s].open
  PROVE  r = s
<1>1. /\ OneCheckout /\ FirstAgain /\ Reached(r) /\ Reached(s)
      /\ sessions \in Seq(SessionRow) /\ sessions # <<>> /\ r # 0 /\ s # 0
  BY DEF SessionInv, OpenReached, BillingInv, BillingTypeOK
<1>2. CASE subscription.session = 0
  <2>1. Len(sessions) = 1
    BY <1>1, <1>2 DEF FirstAgain
  <2>2. DOMAIN sessions = {1}
    BY <1>1, <2>1
  <2> QED
    BY <2>2
<1>3. CASE subscription.session # 0 /\ \E c \in Calls : Busy(c, "store")
  <2>1. PICK c \in Calls : Busy(c, "store")
    BY <1>3
  <2>2. AtCheckout(c) /\ ~Busy(c, "retrieve")
    BY <2>1 DEF AtCheckout, Busy
  <2>3. \A o \in Calls : Busy(o, "store") => o = c
    BY <1>1, <2>2 DEF OneCheckout, AtCheckout
  <2>4. call[c].session = r /\ call[c].session = s
    BY <1>1, <1>3, <2>2, <2>3 DEF Reached
  <2> QED
    BY <2>4
<1>4. CASE subscription.session # 0 /\ ~\E c \in Calls : Busy(c, "store")
  BY <1>1, <1>4 DEF Reached
<1> QED
  BY <1>2, <1>3, <1>4

LEMMA AtMostOneOpen == BillingInv /\ SessionInv => OneOpenSession
<1> SUFFICES ASSUME BillingInv, SessionInv, ~excused
             PROVE  Cardinality({s \in DOMAIN sessions : sessions[s].open}) <= 1
  BY DEF OneOpenSession
<1> DEFINE opened == {s \in DOMAIN sessions : sessions[s].open}
<1>1. CASE opened = {}
  <2>1. Cardinality(opened) = 0
    BY <1>1, FS_EmptySet, Zenon
  <2> QED
    BY <2>1
<1>2. CASE opened # {}
  <2>1. PICK s : s \in opened
    BY <1>2
  <2>2. opened = {s}
    BY <2>1, OpenIsOne
  <2>3. Cardinality(opened) = 1
    BY <2>2, FS_Singleton, Zenon
  <2> QED
    BY <2>3
<1> QED
  BY <1>1, <1>2

\* For any number of requests, plans, sessions and events: unless something happened that
\* OneOpenSession excuses, one session is open at a time.  What a run shows for two or
\* three sessions holds because an open one is always found again.
THEOREM OneSessionOpen == BillingSpec => []OneOpenSession
<1>1. BillingInit => SessionInv
  BY InitSession
<1>2. BillingInv /\ SessionInv /\ [BillingNext]_billingVars => SessionInv'
  BY NextSession
<1>3. BillingInv /\ SessionInv => OneOpenSession
  BY AtMostOneOpen
<1>4. BillingSpec => []BillingInv
  BY BillingInvariant
<1> QED
  BY <1>1, <1>2, <1>3, <1>4, PTL DEF BillingSpec

=============================================================================

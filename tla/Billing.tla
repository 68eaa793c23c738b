------------------------------ MODULE Billing -------------------------------
(***************************************************************************)
(* subscription-manager and the billing client behind it.  Activating a    *)
(* customer is four steps that other threads may come between: a number    *)
(* for the subscription, its record, the manager's memory of it, and the   *)
(* charge.  Cancelling is two: the memory, then the record.                *)
(*                                                                         *)
(* FakeBillingClient numbers subscriptions by how many it has, so two      *)
(* threads may get one number.  A real client can raise at any call.       *)
(*                                                                         *)
(* The id "sub-n" is <<n>>, and no id is <<>>.                             *)
(***************************************************************************)
EXTENDS Requests

CONSTANT Customers

VARIABLES
  subscriptions,   \* the client's records, in creation order
  payments,        \* the client's payments: customers, in order
  active,          \* subscription-manager._active: per customer, an id, or NoId
  superseded       \* history: ids that a later one of the customer replaced

billingVars == <<subscriptions, payments, active, superseded>>

\* Whoever subscribes or leaves is a customer.
ASSUME CustomersAssumption ==
  \A s \in Scenarios : \A t \in Threads : \A i \in DOMAIN s[t] :
    s[t][i].type \in {"subscription.requested", "subscription.cancellation_requested"}
      => s[t][i].about \in Customers

SubId(n) == <<n>>
NoId     == <<>>

BillingInit ==
  /\ subscriptions = <<>>
  /\ payments = <<>>
  /\ active = [c \in Customers |-> NoId]
  /\ superseded = {}

Activating(t, pc) ==
  At(t, "subscription-manager", pc) /\ Ev(t).type = "subscription.requested"
Cancelling(t, pc) ==
  At(t, "subscription-manager", pc) /\ Ev(t).type = "subscription.cancellation_requested"

\* create_subscription: f"sub-{len(self.subscriptions) + 1}" ...
TakeId(t) ==
  /\ Activating(t, "start")
  /\ Goto(t, [pc |-> "create", id |-> SubId(Len(subscriptions) + 1)])
  /\ UNCHANGED billingVars

\* ... and then the append.
Create(t) ==
  /\ Activating(t, "create")
  /\ subscriptions' = Append(subscriptions,
       [id |-> loc[t].id, customer |-> Ev(t).about, status |-> "active"])
  /\ Goto(t, [loc[t] EXCEPT !.pc = "remember"])
  /\ UNCHANGED <<payments, active, superseded>>

\* A plausible bug: setdefault, so the first subscription keeps its place.
RememberFirst(t) ==
  /\ Activating(t, "remember")
  /\ active' = [active EXCEPT ![Ev(t).about] = IF @ = NoId THEN loc[t].id ELSE @]
  /\ Goto(t, [loc[t] EXCEPT !.pc = "charge"])
  /\ UNCHANGED <<subscriptions, payments, superseded>>

\* A second subscription of a customer takes the place of the first here only.
Remember(t) ==
  /\ Activating(t, "remember")
  /\ active' = [active EXCEPT ![Ev(t).about] = loc[t].id]
  /\ superseded' = superseded \cup ({active[Ev(t).about]} \ {NoId})
  /\ Goto(t, [loc[t] EXCEPT !.pc = "charge"])
  /\ UNCHANGED <<subscriptions, payments>>

Activated(t) ==
  Finish(t, <<Out("subscription.activated", Ev(t).about, ""),
              Out("payment.captured", Ev(t).about, "")>>)

\* A plausible bug: a customer who once paid is not charged again.
ChargeOnce(t) ==
  /\ Activating(t, "charge")
  /\ payments' = IF Ev(t).about \in Range(payments) THEN payments
                 ELSE Append(payments, Ev(t).about)
  /\ Activated(t)
  /\ UNCHANGED <<subscriptions, active, superseded>>

Charge(t) ==
  /\ Activating(t, "charge")
  /\ payments' = Append(payments, Ev(t).about)
  /\ Activated(t)
  /\ UNCHANGED <<subscriptions, active, superseded>>

\* _cancel: the memory goes first; an id in the request (says, NoId for none)
\* serves a customer the manager does not know.
Forget(t) ==
  /\ Cancelling(t, "start")
  /\ LET c  == Ev(t).about
         id == IF active[c] # NoId THEN active[c] ELSE Ev(t).says
     IN /\ active' = [active EXCEPT ![c] = NoId]
        /\ IF id = NoId THEN Finish(t, <<>>) ELSE Goto(t, [pc |-> "cancel", id |-> id])
  /\ UNCHANGED <<subscriptions, payments, superseded>>

\* cancel_subscription: the first record with the number, if any.
Cancel(t) ==
  /\ Cancelling(t, "cancel")
  /\ LET named == {i \in DOMAIN subscriptions : subscriptions[i].id = loc[t].id}
     IN subscriptions' =
          IF named = {} THEN subscriptions
          ELSE [subscriptions EXCEPT ![Min(named)].status = "cancelled"]
  /\ Finish(t, <<Out("subscription.cancelled", Ev(t).about, "")>>)
  /\ UNCHANGED <<payments, active, superseded>>

BillingFails(t) ==
  /\ \/ \E pc \in {"create", "charge"} : Activating(t, pc)
     \/ Cancelling(t, "cancel")
  /\ Raise(t)
  /\ UNCHANGED billingVars

BillingStep(t) ==
  \/ TakeId(t) \/ Create(t) \/ Remember(t) \/ Charge(t)
  \/ Forget(t) \/ Cancel(t) \/ BillingFails(t)
-----------------------------------------------------------------------------
Failed(c, type) == \E d \in dropped : d.ev.type = type /\ d.ev.about = c

SharedId(i) == \E j \in DOMAIN subscriptions \ {i} : subscriptions[j].id = subscriptions[i].id

\* At rest every active subscription can still be cancelled by naming its
\* customer: the manager remembers it, unless a later subscription of the same
\* customer took its place, or its cancellation raised after the manager forgot
\* it, or two threads gave it an id in use.  In particular a payment that
\* fails leaves a subscription the manager knows
\* (subscription_manager.py _activate, _cancel).
SubscriptionsHeld ==
  AtRest =>
    \A i \in DOMAIN subscriptions :
      LET s == subscriptions[i]
      IN \/ s.status = "cancelled"
         \/ active[s.customer] = s.id
         \/ s.id \in superseded
         \/ Failed(s.customer, "subscription.cancellation_requested")
         \/ SharedId(i)

Of(c) == {i \in DOMAIN subscriptions : subscriptions[i].customer = c}
Paid(c) == {i \in DOMAIN payments : payments[i] = c}

\* At rest a customer has been charged once for each subscription that was
\* created, but for those whose payment raised: the run's row tells of each.
ChargedOnce ==
  AtRest =>
    \A c \in Customers :
      /\ Cardinality(Paid(c)) <= Cardinality(Of(c))
      /\ Cardinality(Of(c)) - Cardinality(Paid(c)) <=
           Cardinality({d \in dropped : d.ev.type = "subscription.requested" /\ d.ev.about = c})
=============================================================================

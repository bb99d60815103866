--------------------------- MODULE WebhookDelivery ---------------------------
(***************************************************************************)
(* WebhookService of api/src/services/webhooks.ts: subscriptions, and for  *)
(* every event sent one delivery per enabled subscription, retried with    *)
(* backoff.  A delivery holds the subscription object itself, so it goes   *)
(* on after the subscription was removed or disabled.                      *)
(*                                                                         *)
(* The receiver is external: a post may reach it although its answer is    *)
(* lost or late (a timeout of 5 s), and the sender counts that a failure.  *)
(* Events, payloads and signatures are left out; of the delivery records   *)
(* their numbers are kept.  Bound: MaxSends.                               *)
(***************************************************************************)
EXTENDS Integers, Sequences, FiniteSets

CONSTANTS
  Subscriptions,
  maxRetries,
  DisableAt,      \* failures at which a subscription is disabled
  MaxSends

ASSUME WebhookAssumption ==
  maxRetries \in Nat /\ DisableAt \in Nat \ {0} /\ MaxSends \in Nat

ASSUME WebhookSubscriptions == IsFiniteSet(Subscriptions)

VARIABLES
  subscription,   \* listed, enabled, deliveryCount, failureCount
  delivery,       \* deliveries in the order they began
  receipts,       \* per delivery: posts that reached the receiver
  sends

webhookVars == <<subscription, delivery, receipts, sends>>

Unlisted == [listed |-> FALSE, enabled |-> FALSE, deliveryCount |-> 0, failureCount |-> 0]

subscribe(s) ==
  /\ subscription[s] = Unlisted
  /\ subscription' = [subscription EXCEPT ![s] = [Unlisted EXCEPT !.listed = TRUE, !.enabled = TRUE]]
  /\ UNCHANGED <<delivery, receipts, sends>>

unsubscribe(s) ==
  /\ subscription[s].listed
  /\ subscription' = [subscription EXCEPT ![s].listed = FALSE]
  /\ UNCHANGED <<delivery, receipts, sends>>

\* updateSubscription, with which an operator enables one again.  It would assign any field but
\* id and createdAt, and nothing in the repository calls it: modelled is an update of enabled.
\* URL, events and secret are not told apart here, and whoever calls it is taken to leave the
\* counters to the service.
updateSubscription(s, enabled) ==
  /\ subscription[s].listed /\ subscription[s].enabled # enabled
  /\ subscription' = [subscription EXCEPT ![s].enabled = enabled]
  /\ UNCHANGED <<delivery, receipts, sends>>

NewDelivery(s) == [to |-> s, status |-> "pending", attempt |-> 0, failed |-> 0]

\* send: one delivery to every subscription that is listed and enabled.
send ==
  /\ sends < MaxSends /\ sends' = sends + 1
  /\ \E order \in [1 .. Cardinality({s \in Subscriptions : subscription[s].listed
                                        /\ subscription[s].enabled}) -> Subscriptions] :
       /\ {order[i] : i \in DOMAIN order} =
            {s \in Subscriptions : subscription[s].listed /\ subscription[s].enabled}
       /\ delivery' = delivery \o [i \in DOMAIN order |-> NewDelivery(order[i])]
       /\ receipts' = receipts \o [i \in DOMAIN order |-> 0]
  /\ UNCHANGED subscription

\* The post is answered in time.
postAnswered(d) ==
  /\ delivery[d].status = "pending"
  /\ delivery' = [delivery EXCEPT ![d].status = "delivered"]
  /\ receipts' = [receipts EXCEPT ![d] = @ + 1]
  /\ subscription' = [subscription EXCEPT ![delivery[d].to].deliveryCount = @ + 1]
  /\ UNCHANGED sends

M_failureRecorded(d) ==
  LET last == delivery[d].attempt = maxRetries
      s == delivery[d].to
      failures == subscription[s].failureCount + 1 IN
  /\ delivery' = [delivery EXCEPT ![d].status = IF last THEN "failed" ELSE "sleeping",
                                  ![d].failed = @ + 1]
  /\ subscription' = [subscription EXCEPT ![s].failureCount = IF last THEN 0 ELSE failures,
                                          ![s].enabled = @ /\ ~(last /\ failures >= DisableAt)]

\* The catch of deliver: the failure is counted; the last attempt may disable
\* the subscription, whose count no delivery ever resets.
failureRecorded(d) ==
  LET last == delivery[d].attempt = maxRetries
      s == delivery[d].to
      failures == subscription[s].failureCount + 1 IN
  /\ delivery' = [delivery EXCEPT ![d].status = IF last THEN "failed" ELSE "sleeping",
                                  ![d].failed = @ + 1]
  /\ subscription' = [subscription EXCEPT ![s].failureCount = failures,
                                          ![s].enabled = @ /\ ~(last /\ failures >= DisableAt)]

\* The post fails, or its answer does: then the receiver has it.
postFails(d) ==
  /\ delivery[d].status = "pending"
  /\ failureRecorded(d)
  /\ \/ UNCHANGED receipts
     \/ receipts' = [receipts EXCEPT ![d] = @ + 1]
  /\ UNCHANGED sends

\* The backoff is over: deliver again, whatever became of the subscription.
retryDelivery(d) ==
  /\ delivery[d].status = "sleeping"
  /\ delivery' = [delivery EXCEPT ![d].status = "pending", ![d].attempt = @ + 1]
  /\ UNCHANGED <<subscription, receipts, sends>>

WebhookInit ==
  /\ subscription = [s \in Subscriptions |-> Unlisted]
  /\ delivery = <<>> /\ receipts = <<>> /\ sends = 0

WebhookNext ==
  \/ \E s \in Subscriptions :
       subscribe(s) \/ unsubscribe(s) \/ \E e \in BOOLEAN : updateSubscription(s, e)
  \/ send
  \/ \E d \in DOMAIN delivery : postAnswered(d) \/ postFails(d) \/ retryDelivery(d)

-----------------------------------------------------------------------------
(***************************************************************************)
(* Properties                                                              *)
(***************************************************************************)
To(s) == {d \in DOMAIN delivery : delivery[d].to = s}

FailuresTo(s) ==
  Cardinality(UNION {{<<d, k>> : k \in 1 .. delivery[d].failed} : d \in To(s)})

\* The counts of a subscription are those of its deliveries, also when they
\* overlap or outlive it: so it is disabled only by the failures of its own.
\* What is marked delivered was received, at most once per attempt.
DeliveriesAreCounted ==
  /\ \A s \in Subscriptions :
       /\ subscription[s].deliveryCount =
            Cardinality({d \in To(s) : delivery[d].status = "delivered"})
       /\ subscription[s].failureCount = FailuresTo(s)
  /\ \A d \in DOMAIN delivery :
       /\ delivery[d].status = "delivered" => receipts[d] > 0
       /\ receipts[d] <= delivery[d].failed + 1
=============================================================================

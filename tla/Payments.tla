---------------------------- MODULE Payments ----------------------------
(***************************************************************************)
(* The payment path as a whole: checkout requests, the customers at        *)
(* Stripe's pages, and the webhook, over the same rows.  The API is one    *)
(* process, so a crash takes the requests of both endpoints.               *)
(***************************************************************************)
EXTENDS Checkout, Webhook

paymentVars == <<vars, webhookVars>>

PaymentTypeOK == TypeOK /\ WebhookTypeOK

PaymentInit == Init /\ WebhookInit

(* Some client was sent to the page of order o. *)
Disclosed(o) == \E h \in Requests : answer[h] = Url(o)

(* What happens at Stripe.  Only who knows the page can pay there, and a   *)
(* session outlives the handler that asked for it unless Stalls.           *)
CustomerStep(o) ==
    /\ \/ Disclosed(o) /\ (Pay(o) \/ PayLater(o))
       \/ Settle(o) \/ Decline(o)
       \/ (Stalls \/ ~Owns(o)) /\ Expire(o)
    /\ UNCHANGED <<storeVars, faults, checkoutVars, webhookVars>>

ProcessCrash ==
    /\ \/ \E h \in Requests : pc[h] \in InFlight
       \/ \E w \in Workers : task[w] # Idle
    /\ Fault
    /\ CrashHandlers
    /\ CrashWorkers

PaymentNext ==
    \/ CheckoutStep /\ UNCHANGED webhookVars
    \/ WebhookStep /\ UNCHANGED checkoutVars
    \/ \E o \in Requests : CustomerStep(o)
    \/ ProcessCrash

PaymentSpec == PaymentInit /\ [][PaymentNext]_paymentVars

(* Workers are scheduled and their calls end; and as long as some event of *)
(* an order was not answered 200, Stripe delivers one of them again and    *)
(* again.  Strong fairness: a delivery needs a worker that is free just    *)
(* then.  Nothing is assumed of clients, customers or checkout handlers.   *)
DeliverUnacked(o) ==
    /\ \E w \in Workers, e \in Events : e.order = o /\ e \notin acked /\ Deliver(w, e)
    /\ UNCHANGED checkoutVars

PaymentFairSpec ==
    /\ PaymentSpec
    /\ \A w \in Workers : WF_paymentVars(WorkerStep(w) /\ UNCHANGED checkoutVars)
    /\ \A o \in Requests : SF_paymentVars(DeliverUnacked(o))

(* Both endpoints make progress. *)
PaymentLiveSpec == PaymentFairSpec /\ CheckoutFairness

----------------------------------------------------------------------------
\* Properties.

(* The two rows never disagree on whether the money came in, although they *)
(* are written by two endpoints and one of them does not look at what it   *)
(* overwrites (checkout_service.py:216).                                   *)
PaidTogether ==
    \A o \in Requests : orders[o] = "paid" <=> payments[o] = "paid"

(* An order is handed out as paid only when Stripe took the money.  *)
PaidIsGenuine ==
    \A o \in Requests : orders[o] = "paid" => Charged(o)

(* Money Stripe took is never written off: no late, repeated or reordered  *)
(* event, and no failing handler, marks the order of a charged session as  *)
(* failed.                                                                 *)
ChargedNotFailed ==
    \A o \in Requests :
        Charged(o) => orders[o] = "pending" \/ orders[o] = "paid"

(* Nothing that happens after an order was paid takes it back. *)
PaidIsFinal ==
    [][\A o \in Requests :
         orders[o] = "paid" => orders'[o] = "paid" /\ payments'[o] = "paid"]_paymentVars

(* The admins hear at most once that an order was paid, however often and  *)
(* in how many Event objects Stripe says so, whatever fails on the way;    *)
(* and they never also hear that it failed.                                *)
PaidAnnouncedOnce ==
    \A o \in Requests :
        /\ announced[o]["order_paid"] <= 1
        /\ announced[o]["order_paid"] = 0 \/ announced[o]["order_payment_failed"] = 0

(* The admins hear of an order at most once at all: never of a failure and *)
(* a success, nor twice of a failure.                                      *)
OneOutcomePerOrder ==
    \A o \in Requests :
        announced[o]["order_paid"] + announced[o]["order_payment_failed"] <= 1

(* The whole promise to the shop at once: the orders follow the money and  *)
(* the messages follow the orders, each only once and never back, although *)
(* money, rows and messages are moved by four different parties.           *)
Money(o) ==
    CASE session[o] \in {"paid", "settled"} -> "taken"
      [] session[o] \in {"declined", "expired"} -> "lost"
      [] OTHER -> "due"
Life == INSTANCE OrderLife WITH
            money <- [o \in Requests |-> Money(o)],
            told <- announced
ImplementsOrderLife == Life!Spec

(* A failed order has a failed payment: the checkout's unguarded UPDATE    *)
(* never revives the payment of an order that is already written off.      *)
FailedTogether ==
    \A o \in Requests : orders[o] = "payment_failed" => payments[o] = "failed"

(* Money Stripe took ends up on the order, through finitely many failures. *)
ChargedGetsPaid ==
    \A o \in Requests : Charged(o) ~> orders[o] = "paid"

(* Money that is not booked yet gets booked and the admins hear of it,     *)
(* whatever failed before, unless something fails from now on: the         *)
(* message of an event whose COMMIT came through is not sent again.        *)
PaidGetsAnnounced ==
    \A o \in Requests, n \in 0..MaxFaults :
        Charged(o) /\ orders[o] = "pending" /\ faults = n
            ~> announced[o]["order_paid"] = 1 \/ faults > n

(* README.md: an event that is invalid for the business is answered 200,   *)
(* 400 is for a bad signature.  Every event of the model is well signed.   *)
ResponsePolicy == refused = {}

=============================================================================

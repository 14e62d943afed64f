---------------------------- MODULE Webhook ----------------------------
(***************************************************************************)
(* POST /webhooks/stripe.  Stripe delivers an event as often as it likes   *)
(* and until it was answered 200; every delivery runs handle_event in a    *)
(* worker of its own:                                                      *)
(*                                                                         *)
(*   idle - received - dispatch -+- publish - idle                         *)
(*             |                 '- idle (nothing to publish)              *)
(*             '- idle (event already processed)                           *)
(*                                                                         *)
(* From "dispatch" to its end the transaction is open.  It has inserted    *)
(* the event's id, so that another delivery of the same event waits in its *)
(* own INSERT, and what it does to the order and the payment is one step:  *)
(* SELECT ... FOR UPDATE keeps both rows locked until the COMMIT, and all  *)
(* other writers wait for them.                                            *)
(***************************************************************************)
EXTENDS Store, Stripe

CONSTANT Workers  \* webhook requests served at a time

VARIABLES task,       \* what each worker is doing
          registered, \* events in stripe_events
          acked,      \* events Stripe was answered 200 for
          refused,    \* events Stripe was answered 400 for
          announced   \* messages published to the admins, counted

webhookVars == <<task, registered, acked, refused, announced>>

Idle == [stage |-> "idle"]
Messages == {"order_paid", "order_payment_failed"}

Tasks == {Idle} \cup [stage : {"received", "dispatch"}, event : Events]
                \cup [stage : {"publish"}, event : Events, message : Messages]

WebhookTypeOK ==
    /\ task \in [Workers -> Tasks]
    /\ registered \subseteq Events
    /\ acked \subseteq Events
    /\ refused \subseteq Events
    /\ announced \in [Requests -> [Messages -> Nat]]

WebhookInit ==
    /\ task = [w \in Workers |-> Idle]
    /\ registered = {}
    /\ acked = {}
    /\ refused = {}
    /\ announced = [o \in Requests |-> [m \in Messages |-> 0]]

----------------------------------------------------------------------------
\* Building blocks.

Event(w) == task[w].event
At(w, stage) == task[w].stage = stage
Become(w, t) == task' = [task EXCEPT ![w] = t]

(* The worker answers 200, 400 or 500. *)
Accept(w) ==
    /\ Become(w, Idle)
    /\ acked' = acked \cup {Event(w)}
    /\ UNCHANGED refused
Reject(w) ==
    /\ Become(w, Idle)
    /\ refused' = refused \cup {Event(w)}
    /\ UNCHANGED acked
Break(w) ==
    /\ Become(w, Idle)
    /\ UNCHANGED <<acked, refused>>

(* Faulty variant: payment_status of a completed session is not looked at. *)
FaultyIgnored(e) == e.kind = "unsupported"

(* Events _dispatch_event has nothing to do for: unsupported types and     *)
(* completed sessions that are not paid yet.                               *)
Ignored(e) == e.kind \in {"unsupported", "completed_unpaid"}

(* The event types of its two branches. *)
SaysPaid(e) == e.kind \in {"completed", "completed_unpaid", "async_succeeded"}

(* Faulty variant: a completed session that is not paid yet counts as      *)
(* failed.                                                                 *)
FaultySaysFailed(e) == e.kind \in {"completed_unpaid", "expired", "async_failed"}

SaysFailed(e) == e.kind \in {"expired", "async_failed"}

(* _parse_checkout_data and _validate_checkout_against_db: the metadata is *)
(* this program's and the joined rows are there.                           *)
Valid(e) ==
    /\ e.order # NoRequest
    /\ orders[e.order] # "absent" /\ payments[e.order] # "absent"

(* Rows the event has nothing to change in. *)
Settled(e) ==
    LET o == e.order
    IN  \/ SaysPaid(e) /\ payments[o] = "paid" /\ orders[o] = "paid"
        \/ SaysFailed(e) /\ payments[o] = "failed" /\ orders[o] = "payment_failed"
        \/ SaysFailed(e) /\ (payments[o] = "paid" \/ orders[o] = "paid")

(* The two status updates succeed; an order that already has the target    *)
(* status does not refuse it.                                              *)
Settleable(e, orderStatus) ==
    /\ PaymentIsOpen(e.order)
    /\ OrderIsOpen(e.order) \/ orders[e.order] = orderStatus

----------------------------------------------------------------------------
\* The worker when nothing fails.

(* An event arrives with a valid signature; it may have arrived before. *)
Deliver(w, e) ==
    /\ At(w, "idle")
    /\ e \in emitted
    /\ Become(w, [stage |-> "received", event |-> e])
    /\ UNCHANGED <<storeVars, faults, stripeVars, registered, acked, refused, announced>>

(* _register_event: INSERT ... ON CONFLICT DO NOTHING. *)
Register(w) ==
    /\ At(w, "received")
    /\ \A v \in Workers : At(v, "dispatch") => Event(v) # Event(w)
    /\ \/ /\ Event(w) \in registered
          /\ Accept(w)
       \/ /\ Event(w) \notin registered
          /\ Become(w, [stage |-> "dispatch", event |-> Event(w)])
          /\ UNCHANGED <<acked, refused>>
    /\ UNCHANGED <<storeVars, faults, stripeVars, registered, announced>>

(* The rows need no change: the event's id is committed alone. *)
CommitAlone(w) ==
    /\ At(w, "dispatch")
    /\ Ignored(Event(w)) \/ (Valid(Event(w)) /\ Settled(Event(w)))
    /\ registered' = registered \cup {Event(w)}
    /\ UNCHANGED storeVars

Ignore(w) ==
    /\ CommitAlone(w)
    /\ Accept(w)
    /\ UNCHANGED <<faults, stripeVars, announced>>

(* A ValueError rolls everything back, the event's id included. *)
Refuse(w) ==
    LET e == Event(w)
    IN  /\ At(w, "dispatch")
        /\ ~Ignored(e)
        /\ \/ ~Valid(e)
           \/ /\ Valid(e) /\ ~Settled(e)
              /\ ~Settleable(e, IF SaysPaid(e) THEN "paid" ELSE "payment_failed")
        /\ Reject(w)
        /\ UNCHANGED <<storeVars, faults, stripeVars, registered, announced>>

(* Faulty variant: neither the current statuses nor the result of the      *)
(* updates is checked.                                                     *)
FaultyCommitPaid(w) ==
    LET e == Event(w)
    IN  /\ At(w, "dispatch")
        /\ SaysPaid(e) /\ ~Ignored(e) /\ Valid(e)
        /\ UpdatePaymentStatus(e.order, "paid")
        /\ UpdateOrderStatus(e.order, "paid")
        /\ registered' = registered \cup {e}

(* The changes a committed transaction makes for w's event. *)
CommitPaid(w) ==
    LET e == Event(w)
    IN  /\ At(w, "dispatch")
        /\ SaysPaid(e) /\ ~Ignored(e) /\ Valid(e) /\ ~Settled(e) /\ Settleable(e, "paid")
        /\ UpdatePaymentStatus(e.order, "paid")
        /\ UpdateOrderStatus(e.order, "paid")
        /\ registered' = registered \cup {e}

(* Faulty variant: the same for a failure.                                 *)
FaultyCommitFailed(w) ==
    LET e == Event(w)
    IN  /\ At(w, "dispatch")
        /\ SaysFailed(e) /\ Valid(e)
        /\ UpdatePaymentStatus(e.order, "failed")
        /\ UpdateOrderStatus(e.order, "payment_failed")
        /\ registered' = registered \cup {e}

(* Faulty variant: only the order is marked as failed.                     *)
FaultyCommitFailedOrderOnly(w) ==
    LET e == Event(w)
    IN  /\ At(w, "dispatch")
        /\ SaysFailed(e) /\ Valid(e) /\ ~Settled(e)
        /\ Settleable(e, "payment_failed")
        /\ UNCHANGED payments
        /\ UpdateOrderStatus(e.order, "payment_failed")
        /\ registered' = registered \cup {e}

(* Faulty variant: the payment's status is written to the order.           *)
FaultyCommitFailedStatus(w) ==
    LET e == Event(w)
    IN  /\ At(w, "dispatch")
        /\ SaysFailed(e) /\ Valid(e) /\ ~Settled(e)
        /\ Settleable(e, "payment_failed")
        /\ UpdatePaymentStatus(e.order, "failed")
        /\ UpdateOrderStatus(e.order, "failed")
        /\ registered' = registered \cup {e}

CommitFailed(w) ==
    LET e == Event(w)
    IN  /\ At(w, "dispatch")
        /\ SaysFailed(e) /\ Valid(e) /\ ~Settled(e)
        /\ Settleable(e, "payment_failed")
        /\ UpdatePaymentStatus(e.order, "failed")
        /\ UpdateOrderStatus(e.order, "payment_failed")
        /\ registered' = registered \cup {e}

(* Faulty variant: no domain event is returned for a paid order.           *)
FaultySettlePaid(w) ==
    /\ CommitPaid(w)
    /\ Accept(w)
    /\ UNCHANGED <<faults, stripeVars, announced>>

SettlePaid(w) ==
    /\ CommitPaid(w)
    /\ Become(w, [stage |-> "publish", event |-> Event(w), message |-> "order_paid"])
    /\ UNCHANGED <<faults, stripeVars, acked, refused, announced>>

SettleFailed(w) ==
    /\ CommitFailed(w)
    /\ Become(w, [stage |-> "publish", event |-> Event(w),
                  message |-> "order_payment_failed"])
    /\ UNCHANGED <<faults, stripeVars, acked, refused, announced>>

(* publish_admin_order_event, after the COMMIT. *)
Announce(w) ==
    announced' = [announced EXCEPT ![Event(w).order][task[w].message] = @ + 1]

Publish(w) ==
    /\ At(w, "publish")
    /\ Announce(w)
    /\ Accept(w)
    /\ UNCHANGED <<storeVars, faults, stripeVars, registered>>

----------------------------------------------------------------------------
\* Failing calls: each ends in "Error processing event", a 500.

(* A statement raises, or the COMMIT does and was not executed. *)
TransactionFails(w) ==
    /\ task[w].stage \in {"received", "dispatch"}
    /\ Fault
    /\ Break(w)
    /\ UNCHANGED <<storeVars, stripeVars, registered, announced>>

(* The COMMIT was executed, its reply is lost: nobody will publish. *)
CommitUnacknowledged(w) ==
    /\ CommitAlone(w) \/ CommitPaid(w) \/ CommitFailed(w)
    /\ Fault
    /\ Break(w)
    /\ UNCHANGED <<stripeVars, announced>>

(* PUBLISH raises, executed or not; the event is registered all the same. *)
PublishFails(w) ==
    /\ At(w, "publish")
    /\ Fault
    /\ Announce(w) \/ UNCHANGED announced
    /\ Break(w)
    /\ UNCHANGED <<storeVars, stripeVars, registered>>

(* The process dies: open transactions are rolled back, Stripe hears       *)
(* nothing.                                                                *)
CrashWorkers ==
    /\ task' = [w \in Workers |-> Idle]
    /\ UNCHANGED <<registered, acked, refused, announced>>

----------------------------------------------------------------------------

WorkerStep(w) ==
    \/ Register(w) \/ Ignore(w) \/ Refuse(w)
    \/ SettlePaid(w) \/ SettleFailed(w) \/ Publish(w)

WebhookStep ==
    \E w \in Workers :
        \/ \E e \in Events : Deliver(w, e)
        \/ WorkerStep(w)
        \/ TransactionFails(w) \/ CommitUnacknowledged(w) \/ PublishFails(w)

=============================================================================

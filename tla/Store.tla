---------------------------- MODULE Store ----------------------------
(***************************************************************************)
(* The PostgreSQL rows the payment path reads and writes.                  *)
(*                                                                         *)
(* Of the columns of an order and of its payment, the status is kept.      *)
(***************************************************************************)
EXTENDS Deployment

VARIABLES orders,   \* status of the order row of each request
          payments  \* status of the payment row of each request

storeVars == <<orders, payments>>

OrderStatuses == {"pending", "paid", "payment_failed", "canceled"}
PaymentStatuses == {"pending", "requires_action", "paid", "failed", "canceled"}

StoreTypeOK ==
    /\ orders \in [Requests -> OrderStatuses \cup {"absent"}]
    /\ payments \in [Requests -> PaymentStatuses \cup {"absent"}]

StoreInit ==
    /\ orders = [o \in Requests |-> "absent"]
    /\ payments = [o \in Requests |-> "absent"]

----------------------------------------------------------------------------
\* Rows.

(* create_order_with_items: the order and its items, always "pending". *)
InsertOrder(o) == orders' = [orders EXCEPT ![o] = "pending"]

(* create_payment, in the same transaction as the order. *)
InsertPayment(o) == payments' = [payments EXCEPT ![o] = "pending"]

(* Faulty variant: only a pending payment may be settled.                  *)
FaultyPaymentIsOpen(o) == payments[o] = "pending"

(* The statuses update_payment_status may leave. *)
PaymentIsOpen(o) == payments[o] \in {"pending", "requires_action"}

(* update_payment_status: the row moves only from an open status; the     *)
(* caller learns from PaymentIsOpen whether it did.                       *)
UpdatePaymentStatus(o, status) ==
    payments' = [payments EXCEPT ![o] = IF PaymentIsOpen(o) THEN status ELSE @]

(* The status update_order_status may leave. *)
OrderIsOpen(o) == orders[o] = "pending"

(* update_order_status, guarded in the same way. *)
UpdateOrderStatus(o, status) ==
    orders' = [orders EXCEPT ![o] = IF OrderIsOpen(o) THEN status ELSE @]

(* The UPDATE statements of the checkout itself, which have no guard on   *)
(* the status they overwrite (and do nothing when the row is not there).  *)
OverwritePayment(o, status) ==
    payments' = [payments EXCEPT ![o] = IF @ = "absent" THEN @ ELSE status]

=============================================================================

--------------------------- MODULE OrderLife ---------------------------
(***************************************************************************)
(* What the shop may rely on of an order, whatever retries, repeated       *)
(* events, failures and crashes there are on the way:                      *)
(*                                                                         *)
(*               .-- money taken --> paid -- told once                     *)
(*   placed -----|                                                         *)
(*               '-- money lost ---> failed -- told                        *)
(*                                                                         *)
(* The money is decided once, at Stripe.  The order follows it and only    *)
(* it, once and for good, and nobody is told of what is not so.            *)
(***************************************************************************)
EXTENDS Naturals

CONSTANT Requests

VARIABLES orders,  \* status of each order
          money,   \* what became of its money: "due", "taken" or "lost"
          told     \* messages to the admins of each order, counted

vars == <<orders, money, told>>

Init ==
    /\ orders = [o \in Requests |-> "absent"]
    /\ money = [o \in Requests |-> "due"]
    /\ told = [o \in Requests |-> [m \in {"order_paid", "order_payment_failed"} |-> 0]]

Mark(o, from, to) ==
    /\ orders[o] = from
    /\ orders' = [orders EXCEPT ![o] = to]
    /\ UNCHANGED <<money, told>>

Place(o) == Mark(o, "absent", "pending")

(* The customer pays, or can no longer. *)
Decide(o, fate) ==
    /\ orders[o] = "pending"
    /\ money[o] = "due"
    /\ money' = [money EXCEPT ![o] = fate]
    /\ UNCHANGED <<orders, told>>

Book(o) == money[o] = "taken" /\ Mark(o, "pending", "paid")
WriteOff(o) == money[o] = "lost" /\ Mark(o, "pending", "payment_failed")

Tell(o, message) ==
    /\ told' = [told EXCEPT ![o][message] = @ + 1]
    /\ UNCHANGED <<orders, money>>

(* A success is told once, a failure perhaps again. *)
TellPaid(o) ==
    /\ orders[o] = "paid"
    /\ told[o]["order_paid"] = 0
    /\ Tell(o, "order_paid")
TellFailed(o) ==
    /\ orders[o] = "payment_failed"
    /\ Tell(o, "order_payment_failed")

Next ==
    \E o \in Requests :
        \/ Place(o)
        \/ Decide(o, "taken") \/ Decide(o, "lost")
        \/ Book(o) \/ WriteOff(o)
        \/ TellPaid(o) \/ TellFailed(o)

Spec == Init /\ [][Next]_vars

=============================================================================

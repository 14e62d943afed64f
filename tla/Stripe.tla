---------------------------- MODULE Stripe ----------------------------
(***************************************************************************)
(* Stripe, as far as src/ relies on it.  A Checkout Session is created for *)
(* one order and named by the request that asked for it.  Its state:       *)
(*                                                                         *)
(*   none -> open -> paid                     the card was charged         *)
(*              |--> processing -> settled    delayed payment, succeeded   *)
(*              |             '--> declined   delayed payment, failed      *)
(*              '--> expired                  nobody paid in time          *)
(*                                                                         *)
(* Every transition but the first emits an event for the webhook.  Stripe  *)
(* documents that one occurrence may produce two distinct Event objects,   *)
(* told apart by `copy`.                                                   *)
(*                                                                         *)
(* An idempotency key belongs to the account: the first creation under a   *)
(* key takes it, and a creation with other parameters (the metadata name   *)
(* another order) is refused.  The model covers the time Stripe remembers  *)
(* a key, which is at least 24 hours.                                      *)
(***************************************************************************)
EXTENDS Deployment

CONSTANTS Keys,    \* Idempotency-Key header values chosen by the clients
          Copies,  \* bound on the Event objects made for one occurrence
          Noise    \* kinds of events that concern no order of this program

VARIABLES stripeKey,  \* [Keys -> the request that took the key]
          session,    \* [Requests -> state of its Checkout Session]
          emitted     \* events the webhook endpoint must be told of

stripeVars == <<stripeKey, session, emitted>>

ASSUME CopiesAssumption == Copies \in Nat \ {0}
ASSUME NoiseAssumption == Noise \subseteq {"unsupported", "foreign"}

SessionStates == {"none", "open", "paid", "processing", "settled",
                  "declined", "expired"}

(* The customer's money was taken. *)
Charged(o) == session[o] \in {"paid", "settled"}

(*   completed         checkout.session.completed, payment_status "paid"   *)
(*   completed_unpaid  checkout.session.completed, another payment_status  *)
(*   async_succeeded, async_failed, expired   checkout.session.*           *)
OrderKinds == {"completed", "completed_unpaid", "async_succeeded",
               "async_failed", "expired"}

(* "foreign" is a checkout event without this program's metadata,          *)
(* "unsupported" an event of any other type.                               *)
Events == [kind : OrderKinds, order : Requests, copy : 1..Copies]
            \cup [kind : Noise, order : {NoRequest}, copy : {1}]

StripeTypeOK ==
    /\ stripeKey \in [Keys -> Requests \cup {NoRequest}]
    /\ session \in [Requests -> SessionStates]
    /\ emitted \subseteq Events

StripeInit ==
    /\ stripeKey = [k \in Keys |-> NoRequest]
    /\ session = [o \in Requests |-> "none"]
    /\ emitted = [kind : Noise, order : {NoRequest}, copy : {1}]

----------------------------------------------------------------------------

(* Faulty variant: sessions.create is called without an idempotency key.   *)
FaultyAcceptSession(k, o) ==
    /\ stripeKey' = [stripeKey EXCEPT ![k] = o]
    /\ session' = [session EXCEPT ![o] = "open"]
    /\ UNCHANGED emitted

(* sessions.create succeeds: the key was free and now belongs to o. *)
AcceptSession(k, o) ==
    /\ stripeKey[k] = NoRequest
    /\ stripeKey' = [stripeKey EXCEPT ![k] = o]
    /\ session' = [session EXCEPT ![o] = "open"]
    /\ UNCHANGED emitted

(* sessions.create answers an idempotency error. *)
RefuseSession(k) ==
    /\ stripeKey[k] # NoRequest
    /\ UNCHANGED stripeVars

(* Session o moves on and one or more events say so. *)
Occur(o, from, to, kind) ==
    /\ session[o] = from
    /\ session' = [session EXCEPT ![o] = to]
    /\ \E n \in 1..Copies :
         emitted' = emitted \cup [kind : {kind}, order : {o}, copy : 1..n]
    /\ UNCHANGED stripeKey

Pay(o) == Occur(o, "open", "paid", "completed")
PayLater(o) == Occur(o, "open", "processing", "completed_unpaid")
Settle(o) == Occur(o, "processing", "settled", "async_succeeded")
Decline(o) == Occur(o, "processing", "declined", "async_failed")
Expire(o) == Occur(o, "open", "expired", "expired")

=============================================================================

--------------------------- MODULE MCCheckout ---------------------------
(***************************************************************************)
(* Checkout for TLC.  One Idempotency-Key value is enough: keys never      *)
(* meet, in Redis or at Stripe.  With two tokens and two carts the three   *)
(* requests can be retries of one another, share the key across sessions,  *)
(* or come back with a changed cart.                                       *)
(***************************************************************************)
EXTENDS Checkout, TLC

Symmetry == Permutations(Requests) \cup Permutations(Tokens)
              \cup Permutations(Carts)

=============================================================================

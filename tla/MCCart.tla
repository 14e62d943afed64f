----------------------------- MODULE MCCart -----------------------------
(***************************************************************************)
(* Cart for TLC.                                                           *)
(***************************************************************************)
EXTENDS Cart

Symmetry == Permutations(Requests) \cup Permutations(Tokens)
              \cup Permutations(Products) \cup Permutations(Tables)

(* Bound of the run about prices: no request empties the cart, only shows  *)
(* it, or asks for a menu again.  None of these looks at a price.          *)
AboutPrices ==
    \A r \in Requests :
        At(r, "load") => /\ Op(r).kind \notin {"get", "clear"}
                         /\ Op(r).kind = "menu" => task[r].token = NoToken

=============================================================================

--------------------------- MODULE MCPayments ---------------------------
(***************************************************************************)
(* Payments for TLC.                                                       *)
(***************************************************************************)
EXTENDS Payments, TLC

Symmetry == Permutations(Requests) \cup Permutations(Workers)

=============================================================================

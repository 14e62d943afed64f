----------------------------- MODULE MCSSE -----------------------------
(***************************************************************************)
(* SSE for TLC.                                                            *)
(***************************************************************************)
EXTENDS SSE, TLC

Symmetry == Permutations(Clients)

=============================================================================

---------------------------- MODULE MCAccounts ----------------------------
(***************************************************************************)
(* Accounts for TLC.                                                       *)
(***************************************************************************)
EXTENDS Accounts, TLC

Symmetry == Permutations(Requests) \cup Permutations(Clients)
              \cup Permutations(Users) \cup Permutations(Emails)

=============================================================================

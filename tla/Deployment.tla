-------------------------- MODULE Deployment --------------------------
(***************************************************************************)
(* What the parts share: the names of their requests and the budget of     *)
(* failures.                                                               *)
(*                                                                         *)
(* In the payment path the requests are those to POST /checkout/stripe.  A *)
(* checkout creates at most one order and, with it, one payment and one    *)
(* Stripe session, so the request names all three: the SERIAL ids of       *)
(* schema.sql are abstracted to the request that caused the rows.  In the  *)
(* same way a request to /auth names the code and the mail it makes, or    *)
(* the password it sets.                                                   *)
(***************************************************************************)
EXTENDS Naturals

CONSTANTS Requests,   \* the requests the API gets
          NoRequest,  \* none: a foreign event, an empty field
          MaxFaults   \* bound on the failures of a behaviour

ASSUME NoRequestAssumption == NoRequest \notin Requests
ASSUME MaxFaultsAssumption == MaxFaults \in Nat

VARIABLE faults  \* failures of calls and processes so far

Fault ==
    /\ faults < MaxFaults
    /\ faults' = faults + 1

=============================================================================

------------------------------- MODULE MCBilling -------------------------------
(***************************************************************************)
(* Two webhook requests at a time; the handlers are alike.                 *)
(***************************************************************************)
EXTENDS Billing, TLC

CONSTANTS d1, d2

Deliveries == Permutations(Delivery)
===============================================================================

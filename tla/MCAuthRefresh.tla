----------------------------- MODULE MCAuthRefresh -----------------------------
(***************************************************************************)
(* Two workers may each have a tick of the sweep under way.                *)
(***************************************************************************)
EXTENDS AuthRefresh

CONSTANTS p1, p2, t1, t2
===============================================================================

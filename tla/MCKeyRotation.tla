---------------------------- MODULE MCKeyRotation ----------------------------
(***************************************************************************)
(* Two API processes, one of them restarted before the rotation began.     *)
(***************************************************************************)
EXTENDS KeyRotation

CONSTANTS a1, a2
===============================================================================

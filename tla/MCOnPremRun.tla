------------------------------ MODULE MCOnPremRun ------------------------------
(***************************************************************************)
(* Finite instances of OnPremRun.                                          *)
(***************************************************************************)
EXTENDS OnPremRun, TLC

CONSTANTS j1, j2, w1, w2, s1, s2, r1

OneRun == [j \in Job |-> r1]
QueueOrder == [j \in Job |-> IF j = j1 THEN 1 ELSE 2]
Runners == Permutations(Runner)
===============================================================================

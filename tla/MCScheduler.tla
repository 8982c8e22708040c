----------------------------- MODULE MCScheduler -----------------------------
(***************************************************************************)
(* A cron that fires at every instant and one that does not parse.         *)
(***************************************************************************)
EXTENDS Scheduler

CONSTANTS s1, s2, r1, hourly, typo

MCEvery == [c \in {hourly, typo} |-> IF c = hourly THEN 1 ELSE 0]
===============================================================================

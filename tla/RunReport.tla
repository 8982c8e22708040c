------------------------------- MODULE RunReport -------------------------------
(***************************************************************************)
(* What every executor of runs promises whoever waits for a verdict: a run *)
(* is reported by the one process that claimed the right to, at most once. *)
(* It says nothing of when; a claimant may fall silent, and a run nobody   *)
(* can execute is closed without a word.                                   *)
(***************************************************************************)
CONSTANT Run

VARIABLE report   \* of each run

Init == report = [r \in Run |-> "open"]

Claim(r) ==
    /\ report[r] = "open"
    /\ report' = [report EXCEPT ![r] = "claimed"]

Announce(r) ==
    /\ report[r] = "claimed"
    /\ report' = [report EXCEPT ![r] = "announced"]

\* The claimant dies, or finds the run cancelled by a person.
FallSilent(r) ==
    /\ report[r] = "claimed"
    /\ report' = [report EXCEPT ![r] = "silent"]

\* Whoever created the run finds that nobody will ever execute it.
Close(r) ==
    /\ report[r] = "open"
    /\ report' = [report EXCEPT ![r] = "closed"]

Next == \E r \in Run : Claim(r) \/ Announce(r) \/ FallSilent(r) \/ Close(r)

Spec == Init /\ [][Next]_report
===============================================================================

------------------------------- MODULE JobLease -------------------------------
(***************************************************************************)
(* What the runner pool promises about a job, with no agents, no clock and *)
(* no database: a lease that is granted to one holder at a time, under a   *)
(* token that is never granted again.                                      *)
(*                                                                         *)
(* A request about a job is made under the token that is current when it   *)
(* is made, and may be served much later.  It has an effect only if that   *)
(* token is still the current one.  Without a request, a lease ends only   *)
(* by being taken back, and a job is given up only after MaxAttempts       *)
(* grants.  What is done is never offered again.                           *)
(***************************************************************************)
EXTENDS Naturals

CONSTANTS Job, MaxAttempts

VARIABLES
    phase,    \* where the job stands
    token,    \* the token of the current lease, 0 when there is none
    grants,   \* how many times the job has been granted
    pending   \* requests made and not served: <<job, token>>

vars == <<phase, token, grants, pending>>

Init ==
    /\ phase = [j \in Job |-> "absent"]
    /\ token = [j \in Job |-> 0]
    /\ grants = [j \in Job |-> 0]
    /\ pending = {}

Offer(S) ==
    /\ \A j \in S : phase[j] = "absent"
    /\ phase' = [j \in Job |-> IF j \in S THEN "waiting" ELSE phase[j]]
    /\ UNCHANGED <<token, grants, pending>>

Grant(j) ==
    /\ phase[j] = "waiting"
    /\ phase' = [phase EXCEPT ![j] = "leased"]
    /\ grants' = [grants EXCEPT ![j] = @ + 1]
    /\ token' = [token EXCEPT ![j] = grants[j] + 1]
    /\ UNCHANGED pending

Ask(j) ==
    /\ phase[j] = "leased"
    /\ pending' = pending \cup {<<j, token[j]>>}
    /\ UNCHANGED <<phase, token, grants>>

\* A request made under the current token may hand the job back or finish it.
Settle(j) ==
    /\ <<j, token[j]>> \in pending
    /\ phase[j] = "leased"
    /\ \E p \in {"waiting", "done"} : phase' = [phase EXCEPT ![j] = p]
    /\ token' = [token EXCEPT ![j] = 0]
    /\ pending' \in {pending, pending \ {<<j, token[j]>>}}
    /\ UNCHANGED grants

\* Leases end without their holder: jobs back go to the queue, jobs over are
\* given up.
TakeBack(back, over) ==
    /\ \A j \in back \cup over : phase[j] = "leased"
    /\ \A j \in over : grants[j] >= MaxAttempts
    /\ phase' = [j \in Job |-> IF j \in back THEN "waiting"
                               ELSE IF j \in over THEN "done" ELSE phase[j]]
    /\ token' = [j \in Job |-> IF j \in back \cup over THEN 0 ELSE token[j]]
    /\ UNCHANGED <<grants, pending>>

\* A job nobody holds is withdrawn.
Withdraw(j) ==
    /\ phase[j] = "waiting"
    /\ phase' = [phase EXCEPT ![j] = "done"]
    /\ UNCHANGED <<token, grants, pending>>

\* Requests are served without effect, or lost.
Forget == 
    /\ pending' \subseteq pending
    /\ UNCHANGED <<phase, token, grants>>

Next ==
    \/ \E S \in SUBSET Job : Offer(S)
    \/ \E j \in Job : Grant(j) \/ Ask(j) \/ Settle(j) \/ Withdraw(j)
    \/ \E back, over \in SUBSET Job : TakeBack(back, over)
    \/ Forget

Spec == Init /\ [][Next]_vars
===============================================================================

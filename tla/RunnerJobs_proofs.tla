--------------------------- MODULE RunnerJobs_proofs ---------------------------
(***************************************************************************)
(* Proofs about RunnerJobs, for every number of jobs, runners, sweepers    *)
(* and calls in flight, and every bound.                                   *)
(***************************************************************************)
EXTENDS RunnerJobs, TLAPS

-------------------------------------------------------------------------------
(***************************************************************************)
(* Type correctness                                                        *)
(***************************************************************************)

\* A function updated with a value of its range keeps its type.
LEMMA ExceptType ==
    ASSUME NEW D, NEW R, NEW f \in [D -> R], NEW d, NEW x \in R
    PROVE  [f EXCEPT ![d] = x] \in [D -> R]
OBVIOUS

\* Initially nothing is queued, held or under way.
LEMMA InitType == Init => TypeOK
BY PoolAssumption DEF Init, TypeOK, IdleClaim, IdleSweep, Claim, Sweep, Call,
                      JobStatus, NoLease, AllOutcomes

\* Reaping keeps the rows well typed.
LEMMA ReapType ==
    ASSUME TypeOK, ReapExpiredLeases
    PROVE  /\ status' \in [Job -> JobStatus]
           /\ lease' \in [Job -> Nat]
           /\ lapsed' \in [Job -> BOOLEAN]
           /\ holder' = holder
           /\ attempt' = attempt
           /\ answered' = answered
BY DEF TypeOK, ReapExpiredLeases, ReapedStatus, Expired, JobStatus, TERMINAL_JOB, NoLease

\* Deadlines, the grace period, crashes and changing agents keep the types.
LEMMA TimeType == TypeOK /\ Time => TypeOK'
<1> SUFFICES ASSUME TypeOK, Time PROVE TypeOK'
  OBVIOUS
<1>1. ASSUME NEW j \in Job, LeaseLapses(j) PROVE TypeOK'
  BY <1>1 DEF TypeOK, LeaseLapses, fleetVars
<1>2. ASSUME NEW j \in Job, GracePasses(j) PROVE TypeOK'
  BY <1>2 DEF TypeOK, GracePasses, fleetVars, jobVars
<1>3. ASSUME NEW w \in Runner, GoesSilent(w) PROVE TypeOK'
  BY <1>3 DEF TypeOK, GoesSilent, jobVars
<1>4. ASSUME NEW w \in Runner, Dies(w) PROVE TypeOK'
  BY <1>4 DEF TypeOK, Dies, jobVars
<1> QED
  BY <1>1, <1>2, <1>3, <1>4 DEF Time

\* A long poll keeps the types; a take adds one to the attempts.
LEMMA ClaimType ==
    ASSUME TypeOK, NEW w \in Runner, ClaimStep(w) \/ ClaimAnswer(w)
    PROVE  TypeOK'
<1> USE DEF jobVars, fleetVars
<1>0. /\ IdleClaim \in Claim
      /\ \A S, C \in SUBSET Job : Polling(S) \in Claim /\ Trying(S, C) \in Claim
      /\ \A j \in Job : Assigning(j) \in Claim
      /\ claim[w].able \in SUBSET Job
      /\ claim[w].cands \in SUBSET Job
      /\ serves[w] \in SUBSET Job
  BY DEF TypeOK, IdleClaim, Polling, Trying, Assigning, Claim
<1>1. CASE ClaimBegin(w)
  BY <1>0, <1>1 DEF TypeOK, ClaimBegin, Seen
<1>2. CASE ClaimFind(w)
  <2> DEFINE found == Window({j \in Job : ReapedStatus[j] = "QUEUED"}) \cap claim[w].able
  <2>1. found \in SUBSET Job
    BY <1>0
  <2>2. PICK x \in Claim : claim' = [claim EXCEPT ![w] = x]
    <3>1. claim' = [claim EXCEPT ![w] = IF found = {} THEN Polling(claim[w].able)
                                         ELSE Trying(claim[w].able, found)]
      BY <1>2 DEF ClaimFind
    <3> HIDE DEF found
    <3> QED
      BY <1>0, <2>1, <3>1
  <2>3. claim' \in [Runner -> Claim]
    BY <2>2 DEF TypeOK
  <2> QED
    BY <1>2, <2>3, ReapType DEF TypeOK, ClaimFind
<1>3. CASE ClaimTake(w)
  <2>1. PICK j \in claim[w].cands :
          \/ /\ status' = [status EXCEPT ![j] = "CLAIMED"]
             /\ holder' = [holder EXCEPT ![j] = w]
             /\ attempt' = [attempt EXCEPT ![j] = @ + 1]
             /\ lease' = [lease EXCEPT ![j] = attempt[j] + 1]
             /\ lapsed' = [lapsed EXCEPT ![j] = FALSE]
             /\ claim' = [claim EXCEPT ![w] = Assigning(j)]
          \/ /\ LET rest == claim[w].cands \ {j}
                IN  claim' = [claim EXCEPT ![w] =
                                IF rest = {} THEN Polling(claim[w].able)
                                ELSE Trying(claim[w].able, rest)]
             /\ UNCHANGED jobVars
    BY <1>3 DEF ClaimTake
  <2>2. j \in Job /\ claim[w].cands \ {j} \in SUBSET Job
    BY <1>0
  <2>3. PICK x \in Claim : claim' = [claim EXCEPT ![w] = x]
    BY <1>0, <2>1, <2>2
  <2>4. claim' \in [Runner -> Claim]
    BY <2>3 DEF TypeOK
  <2>5. "CLAIMED" \in JobStatus
    BY DEF JobStatus, HELD
  <2>6. /\ status' \in [Job -> JobStatus]
        /\ holder' \in [Job -> Runner \cup {NoRunner}]
        /\ lapsed' \in [Job -> BOOLEAN]
    <3>1. [status EXCEPT ![j] = "CLAIMED"] \in [Job -> JobStatus]
      BY <2>5, ExceptType DEF TypeOK
    <3>2. [holder EXCEPT ![j] = w] \in [Job -> Runner \cup {NoRunner}]
      BY DEF TypeOK
    <3>3. [lapsed EXCEPT ![j] = FALSE] \in [Job -> BOOLEAN]
      BY DEF TypeOK
    <3> QED
      BY <2>1, <3>1, <3>2, <3>3 DEF TypeOK
  <2>7. attempt' \in [Job -> Nat] /\ lease' \in [Job -> Nat]
    <3>1. attempt[j] + 1 \in Nat
      BY <2>2 DEF TypeOK
    <3>2. \/ /\ attempt' = [attempt EXCEPT ![j] = attempt[j] + 1]
             /\ lease' = [lease EXCEPT ![j] = attempt[j] + 1]
          \/ attempt' = attempt /\ lease' = lease
      BY <2>1
    <3> QED
      BY <3>1, <3>2 DEF TypeOK
  <2> QED
    BY <1>3, <2>4, <2>6, <2>7 DEF TypeOK, ClaimTake
<1>4. CASE ClaimGiveUp(w)
  BY <1>0, <1>4 DEF TypeOK, ClaimGiveUp
<1>5. CASE ClaimLost(w)
  BY <1>0, <1>5 DEF TypeOK, ClaimLost
<1>6. CASE ClaimAnswer(w)
  BY <1>0, <1>6 DEF TypeOK, ClaimAnswer
<1> QED
  BY <1>1, <1>2, <1>3, <1>4, <1>5, <1>6 DEF ClaimStep

\* The calls of an agent keep the types: each carries the lease it was checked under.
LEMMA AgentType ==
    ASSUME TypeOK, NEW j \in Job, AgentCall(j)
    PROVE  TypeOK'
<1>1. ASSUME NEW op, NEW arg, Begin(op, j, arg),
             \/ op \in {"results", "renew", "release"} /\ arg \in AllOutcomes
             \/ op = "complete" /\ arg \in AllCompletions
      PROVE  TypeOK'
  <2>1. [op |-> op, job |-> j, lease |-> lease[j], arg |-> arg] \in Call
    BY <1>1 DEF TypeOK, Call
  <2> QED
    BY <1>1, <2>1 DEF TypeOK, Begin, Seen, jobVars
<1>2. CASE Heartbeat(j)
  BY <1>2 DEF TypeOK, Heartbeat, Presents, Renewed, Seen, JobStatus, HELD
<1> QED
  BY <1>1, <1>2, PoolAssumption
     DEF AgentCall, ResultsBegin, RelayBegin, ReleaseBegin, CompleteBegin, AllOutcomes

\* The writes of those calls keep the types.
LEMMA CallType ==
    ASSUME TypeOK, NEW c \in calls, CallStep(c) \/ CompleteWrite(c)
    PROVE  TypeOK'
<1> USE DEF jobVars, fleetVars
<1>1. c \in Call /\ c.job \in Job
  BY DEF TypeOK, Call
<1>2. "QUEUED" \in JobStatus /\ "RUNNING" \in JobStatus /\ NoLease \in Nat
  BY DEF JobStatus, HELD, NoLease
<1>3. CASE ResultsWrite(c)
  <2>1. c.arg \in AllOutcomes
    BY <1>1, <1>3 DEF ResultsWrite, Call
  <2>2. [op |-> "renew", job |-> c.job, lease |-> c.lease, arg |-> "SKIPPED"] \in Call
    BY <1>1, <1>3 DEF ResultsWrite, Call, AllOutcomes
  <2> QED
    BY <1>1, <1>3, <2>1, <2>2 DEF TypeOK, ResultsWrite
<1>4. CASE RenewLease(c)
  BY <1>1, <1>2, <1>4 DEF TypeOK, RenewLease, Renewed
<1>5. CASE ReleaseWrite(c)
  BY <1>1, <1>2, <1>5 DEF TypeOK, ReleaseWrite, Dropped
<1>6. CASE CallLost(c)
  BY <1>6 DEF TypeOK, CallLost
<1>7. CASE CompleteWrite(c)
  <2>1. c.arg \in JobStatus
    BY <1>1, <1>7 DEF CompleteWrite, Call, AllCompletions, JobStatus, TERMINAL_JOB
  <2>2. status' \in [Job -> JobStatus]
    <3>1. status \in [Job -> JobStatus]
      BY DEF TypeOK
    <3>2. status' = status \/ status' = [status EXCEPT ![c.job] = c.arg]
      BY <1>7 DEF CompleteWrite, Dropped
    <3> QED
      BY <1>1, <2>1, <3>1, <3>2
  <2>3. lease' \in [Job -> Nat] /\ lapsed' \in [Job -> BOOLEAN]
    BY <1>1, <1>2, <1>7 DEF TypeOK, CompleteWrite, Dropped
  <2> QED
    BY <1>7, <2>2, <2>3 DEF TypeOK, CompleteWrite, Dropped
<1> QED
  BY <1>3, <1>4, <1>5, <1>6, <1>7 DEF CallStep

\* Revoke, rotate and the release that follows them keep the types.
LEMMA AdminType ==
    ASSUME TypeOK, NEW w \in Runner, Admin(w)
    PROVE  TypeOK'
<1> USE DEF jobVars
<1>1. CASE Revoke(w)
  BY <1>1 DEF TypeOK, Revoke
<1>2. CASE Rotate(w)
  BY <1>2 DEF TypeOK, Rotate
<1>3. CASE Reconfigure(w)
  BY <1>3 DEF TypeOK, Reconfigure
<1>4. CASE ReleaseRunnerJobs(w)
  BY <1>4 DEF TypeOK, ReleaseRunnerJobs, JobStatus, NoLease
<1> QED
  BY <1>1, <1>2, <1>3, <1>4 DEF Admin

\* The sweep keeps the types: what it judged is jobs it has read.
LEMMA SweepType ==
    ASSUME TypeOK, NEW s \in Sweeper, SweepStep(s) \/ SweepEnd(s)
    PROVE  TypeOK'
<1> USE DEF jobVars, fleetVars
<1>0. /\ IdleSweep \in Sweep
      /\ sweep[s].jobs \in SUBSET Job
      /\ \A p \in {"idle", "reaped", "read", "skipping", "stamping", "finalizing"},
            S \in SUBSET Job, j \in Job \cup {NoJob} :
               [phase |-> p, jobs |-> S, job |-> j] \in Sweep
  BY DEF TypeOK, Sweep, IdleSweep
<1>1. CASE SweepReap(s)
  BY <1>0, <1>1, ReapType DEF TypeOK, SweepReap
<1>2. CASE SweepRead(s)
  <2>1. {j \in Queued : aged[j]} \in SUBSET Job
    BY DEF Queued
  <2>2. sweep' \in [Sweeper -> Sweep]
    BY <1>0, <1>2, <2>1 DEF TypeOK, SweepRead
  <2> QED
    BY <1>2, <2>2 DEF TypeOK, SweepRead
<1>3. CASE SweepJudge(s)
  <2>1. {j \in sweep[s].jobs : Unservable(j)} \in SUBSET Job
    BY <1>0
  <2>2. sweep' \in [Sweeper -> Sweep]
    BY <1>0, <1>3, <2>1 DEF TypeOK, SweepJudge
  <2> QED
    BY <1>3, <2>2 DEF TypeOK, SweepJudge
<1>4. ASSUME NEW j \in Job, SkipJob(s, j) PROVE TypeOK'
  <2>1. sweep[s].jobs \ {j} \in SUBSET Job
    BY <1>0
  <2>2. sweep' \in [Sweeper -> Sweep]
    <3>1. PICK x \in Sweep : sweep' = [sweep EXCEPT ![s] = x]
      BY <1>0, <1>4, <2>1 DEF SkipJob
    <3> QED
      BY <3>1, ExceptType DEF TypeOK
  <2>3. status' \in [Job -> JobStatus]
    BY <1>4 DEF TypeOK, SkipJob, JobStatus, TERMINAL_JOB
  <2> QED
    BY <1>4, <2>2, <2>3 DEF TypeOK, SkipJob
<1>5. CASE StampSkipped(s)
  <2>1. sweep' \in [Sweeper -> Sweep]
    BY <1>0, <1>5 DEF TypeOK, StampSkipped
  <2> QED
    BY <1>5, <2>1 DEF TypeOK, StampSkipped, AllOutcomes
<1>6. CASE SweepSkipped(s)
  BY <1>0, <1>6 DEF TypeOK, SweepSkipped
<1>7. CASE SweepEnd(s)
  BY <1>0, <1>7 DEF TypeOK, SweepEnd
<1>8. CASE SweepLost(s)
  BY <1>0, <1>8 DEF TypeOK, SweepLost
<1>9. CASE SkipFails(s)
  BY <1>0, <1>9 DEF TypeOK, SkipFails
<1> QED
  BY <1>1, <1>2, <1>3, <1>4, <1>5, <1>6, <1>7, <1>8, <1>9 DEF SweepStep

\* Every step keeps the types.
LEMMA NextType == TypeOK /\ [Next]_vars => TypeOK'
<1> SUFFICES ASSUME TypeOK, [Next]_vars PROVE TypeOK'
  OBVIOUS
<1>1. CASE UNCHANGED vars
  BY <1>1 DEF TypeOK, vars
<1>2. ASSUME NEW w \in Runner, NEW S \in SUBSET Job, Hello(w, S) PROVE TypeOK'
  BY <1>2 DEF TypeOK, Hello, Seen, jobVars
<1>3. ASSUME NEW r \in Run, CreateRunnerJobs(r) PROVE TypeOK'
  BY <1>3 DEF TypeOK, CreateRunnerJobs, fleetVars, JobStatus
<1> QED
  BY <1>1, <1>2, <1>3, TimeType, ClaimType, AgentType, CallType, AdminType, SweepType
     DEF Next, JobStep

\* Every value the handlers store is of the kind the schema declares, in every
\* interleaving of the handlers: statuses, leases and the calls in flight.
THEOREM TypeCorrect == Spec => []TypeOK
BY InitType, NextType, PTL DEF Spec

-------------------------------------------------------------------------------
(***************************************************************************)
(* The lease invariant                                                     *)
(*                                                                         *)
(* LeaseIntegrity is not inductive: the trailing write of a release or     *)
(* completion compares only the lease, so a call holding the null lease    *)
(* would match a row nobody holds.  No call does (CallsCarryLease), and    *)
(* with that every step leaves every row in one of the ways of RowStep.    *)
(***************************************************************************)
CallsCarryLease == \A c \in calls : c.lease # NoLease

IInv == TypeOK /\ CallsCarryLease /\ LeaseIntegrity

Same(j) ==
    /\ status'[j] = status[j]
    /\ holder'[j] = holder[j]
    /\ lease'[j] = lease[j]
    /\ attempt'[j] = attempt[j]

\* Nobody holds the row, before or after.
Moved(j) ==
    /\ <<status[j], status'[j]>> \in {<<"ABSENT", "QUEUED">>, <<"QUEUED", "SKIPPED">>}
    /\ holder'[j] = holder[j]
    /\ lease'[j] = lease[j]
    /\ attempt'[j] = attempt[j]

Granted(j) ==
    /\ status[j] = "QUEUED"
    /\ status'[j] = "CLAIMED"
    /\ holder'[j] \in Runner
    /\ lease'[j] = attempt[j] + 1
    /\ attempt'[j] = attempt[j] + 1

Kept(j) ==
    /\ Held(j)
    /\ status'[j] = "RUNNING"
    /\ holder'[j] = holder[j]
    /\ lease'[j] = lease[j]
    /\ attempt'[j] = attempt[j]

SettledBy(j, c) ==
    c.job = j /\ c.lease = lease[j] /\ c.op \in {"release", "complete"}

TakenAway(j) ==
    /\ Held(j)
    /\ status'[j] \in {"QUEUED"} \cup TERMINAL_JOB
    /\ status'[j] = "ABANDONED" => attempt[j] >= MaxAttempts
    /\ \/ lapsed[j]
       \/ holder[j] \in releasing
       \/ \E c \in calls : SettledBy(j, c)
    /\ holder'[j] = holder[j]
    /\ lease'[j] = NoLease
    /\ attempt'[j] = attempt[j]

RowStep(j) == Same(j) \/ Moved(j) \/ Granted(j) \/ Kept(j) \/ TakenAway(j)

RowsUntouched == UNCHANGED <<status, holder, lease, attempt>>

\* A step that touches no row is a row step of each.
LEMMA UntouchedRow == ASSUME RowsUntouched PROVE \A j \in Job : RowStep(j)
BY DEF RowsUntouched, RowStep, Same

\* The reaper takes back lapsed leases and gives up only what is spent.
LEMMA ReapRow == ASSUME IInv, ReapExpiredLeases PROVE \A j \in Job : RowStep(j)
<1> TAKE j \in Job
<1>1. CASE j \in Expired
  <2>1. Held(j) /\ lapsed[j]
    BY <1>1 DEF Expired
  <2>2. status'[j] = IF attempt[j] < MaxAttempts THEN "QUEUED" ELSE "ABANDONED"
    BY <1>1 DEF ReapExpiredLeases, ReapedStatus
  <2>3. attempt[j] \in Nat /\ MaxAttempts \in Nat
    BY PoolAssumption DEF IInv, TypeOK
  <2>4. status'[j] \in {"QUEUED"} \cup TERMINAL_JOB
    BY <2>2 DEF TERMINAL_JOB
  <2>5. status'[j] = "ABANDONED" => attempt[j] >= MaxAttempts
    BY <2>2, <2>3
  <2>6. lease'[j] = NoLease /\ holder' = holder /\ attempt' = attempt
    BY <1>1 DEF ReapExpiredLeases
  <2> QED
    BY <2>1, <2>4, <2>5, <2>6 DEF RowStep, TakenAway
<1>2. CASE j \notin Expired
  BY <1>2 DEF ReapExpiredLeases, ReapedStatus, RowStep, Same
<1> QED
  BY <1>1, <1>2

\* A claim is granted on a queued row only.
LEMMA TakeRow ==
    ASSUME IInv, NEW w \in Runner, ClaimTake(w)
    PROVE  \A j \in Job : RowStep(j)
<1> TAKE j \in Job
<1>1. PICK k \in claim[w].cands :
        \/ /\ status[k] = "QUEUED"
           /\ status' = [status EXCEPT ![k] = "CLAIMED"]
           /\ holder' = [holder EXCEPT ![k] = w]
           /\ attempt' = [attempt EXCEPT ![k] = @ + 1]
           /\ lease' = [lease EXCEPT ![k] = attempt[k] + 1]
        \/ UNCHANGED jobVars
  BY DEF ClaimTake
<1>2. CASE UNCHANGED jobVars
  BY <1>2 DEF jobVars, RowStep, Same
<1>3. CASE /\ status[k] = "QUEUED"
           /\ status' = [status EXCEPT ![k] = "CLAIMED"]
           /\ holder' = [holder EXCEPT ![k] = w]
           /\ attempt' = [attempt EXCEPT ![k] = @ + 1]
           /\ lease' = [lease EXCEPT ![k] = attempt[k] + 1]
  <2>1. /\ status \in [Job -> JobStatus]
        /\ holder \in [Job -> Runner \cup {NoRunner}]
        /\ attempt \in [Job -> Nat]
        /\ lease \in [Job -> Nat]
    BY DEF IInv, TypeOK
  <2>2. CASE j = k
    BY <1>3, <2>1, <2>2 DEF RowStep, Granted
  <2>3. CASE j # k
    BY <1>3, <2>1, <2>3 DEF RowStep, Same
  <2> QED
    BY <2>2, <2>3
<1> QED
  BY <1>1, <1>2, <1>3

\* A renewal keeps a held row with its holder.
LEMMA RenewRow ==
    ASSUME IInv, NEW k \in Job, Held(k), Renewed(k)
    PROVE  \A j \in Job : RowStep(j)
BY DEF IInv, TypeOK, Renewed, RowStep, Same, Kept

\* A fenced release or completion finds the row held: its lease is not null.
LEMMA SettleRow ==
    ASSUME IInv, NEW c \in calls, Fenced(c), NEW s \in {"QUEUED"} \cup AllCompletions,
           c.op \in {"release", "complete"}, Dropped(c.job, s)
    PROVE  \A j \in Job : RowStep(j)
<1> TAKE j \in Job
<1>1. /\ status \in [Job -> JobStatus]
      /\ lease \in [Job -> Nat]
      /\ c \in Call
  BY DEF IInv, TypeOK
<1>2. CASE j = c.job
  <2>1. Held(j) /\ SettledBy(j, c)
    BY <1>2 DEF IInv, CallsCarryLease, LeaseIntegrity, Fenced, SettledBy
  <2>2. status'[j] = s /\ lease'[j] = NoLease /\ holder' = holder /\ attempt' = attempt
    BY <1>1, <1>2 DEF Dropped
  <2>3. s \in {"QUEUED"} \cup TERMINAL_JOB /\ s # "ABANDONED"
    BY DEF AllCompletions, TERMINAL_JOB
  <2> QED
    BY <2>1, <2>2, <2>3 DEF RowStep, TakenAway
<1>3. CASE j # c.job
  BY <1>1, <1>3 DEF Dropped, RowStep, Same
<1> QED
  BY <1>2, <1>3

\* Every step leaves every row untouched, or moves it in a way of RowStep.
LEMMA NextRow ==
    ASSUME IInv, [Next]_vars
    PROVE  \A j \in Job : RowStep(j)
<1> USE DEF jobVars, fleetVars, RowsUntouched
<1>1. CASE UNCHANGED vars
  BY <1>1, UntouchedRow DEF vars
<1>2. CASE Time
  BY <1>2, UntouchedRow DEF Time, LeaseLapses, GracePasses, GoesSilent, Dies
<1>3. ASSUME NEW w \in Runner, ClaimStep(w) PROVE \A j \in Job : RowStep(j)
  BY <1>3, UntouchedRow, ReapRow, TakeRow
     DEF ClaimStep, ClaimBegin, ClaimFind, ClaimGiveUp, ClaimLost
<1>4. ASSUME NEW w \in Runner, Admin(w) PROVE \A j \in Job : RowStep(j)
  <2>1. CASE ReleaseRunnerJobs(w)
    <3> TAKE j \in Job
    <3>1. w \in releasing /\ holder' = holder /\ attempt' = attempt
      BY <2>1 DEF ReleaseRunnerJobs
    <3>2. CASE Held(j) /\ holder[j] = w
      BY <2>1, <3>1, <3>2 DEF ReleaseRunnerJobs, RowStep, TakenAway
    <3>3. CASE ~(Held(j) /\ holder[j] = w)
      BY <2>1, <3>1, <3>3 DEF ReleaseRunnerJobs, RowStep, Same
    <3> QED
      BY <3>2, <3>3
  <2> QED
    BY <1>4, <2>1, UntouchedRow DEF Admin, Revoke, Rotate, Reconfigure
<1>5. ASSUME NEW w \in Runner, NEW S \in SUBSET Job, Hello(w, S)
      PROVE \A j \in Job : RowStep(j)
  BY <1>5, UntouchedRow DEF Hello
<1>6. ASSUME NEW k \in Job, AgentCall(k) PROVE \A j \in Job : RowStep(j)
  <2>1. CASE Heartbeat(k)
    BY <2>1, RenewRow DEF Heartbeat, Presents
  <2> QED
    BY <1>6, <2>1, UntouchedRow
       DEF AgentCall, ResultsBegin, RelayBegin, ReleaseBegin, CompleteBegin, Begin
<1>7. ASSUME NEW c \in calls, CallStep(c) \/ CompleteWrite(c)
      PROVE \A j \in Job : RowStep(j)
  <2>1. c \in Call /\ c.job \in Job
    BY DEF IInv, TypeOK, Call
  <2>2. CASE ResultsWrite(c) \/ CallLost(c)
    BY <2>2, UntouchedRow DEF ResultsWrite, CallLost
  <2>3. CASE RenewLease(c)
    BY <2>1, <2>3, UntouchedRow, RenewRow DEF RenewLease
  <2>4. CASE ReleaseWrite(c)
    BY <2>4, UntouchedRow, SettleRow DEF ReleaseWrite
  <2>5. CASE CompleteWrite(c)
    <3>1. c.arg \in AllCompletions
      BY <2>1, <2>5 DEF CompleteWrite, Call
    <3> QED
      BY <2>5, <3>1, UntouchedRow, SettleRow DEF CompleteWrite
  <2> QED
    BY <1>7, <2>2, <2>3, <2>4, <2>5 DEF CallStep
<1>8. ASSUME NEW s \in Sweeper, SweepStep(s) \/ SweepEnd(s)
      PROVE \A j \in Job : RowStep(j)
  <2>1. ASSUME NEW k \in Job, SkipJob(s, k) PROVE \A j \in Job : RowStep(j)
    <3>1. status \in [Job -> JobStatus]
      BY DEF IInv, TypeOK
    <3> QED
      BY <2>1, <3>1 DEF SkipJob, RowStep, Same, Moved
  <2>2. CASE SweepReap(s)
    BY <2>2, ReapRow DEF SweepReap
  <2> QED
    BY <1>8, <2>1, <2>2, UntouchedRow
       DEF SweepStep, SweepRead, SweepJudge, StampSkipped, SweepSkipped, SweepEnd,
           SweepLost, SkipFails
<1>9. ASSUME NEW r \in Run, CreateRunnerJobs(r) PROVE \A j \in Job : RowStep(j)
  BY <1>9 DEF CreateRunnerJobs, RowStep, Same, Moved
<1>10. ASSUME NEW w \in Runner, ClaimAnswer(w) PROVE \A j \in Job : RowStep(j)
  BY <1>10, UntouchedRow DEF ClaimAnswer
<1> QED
  BY <1>1, <1>2, <1>3, <1>4, <1>5, <1>6, <1>7, <1>8, <1>9, <1>10 DEF Next, JobStep

\* The invariant holds before the first job is created.
LEMMA InitIInv == Init => IInv
<1> SUFFICES ASSUME Init PROVE IInv
  OBVIOUS
<1>1. TypeOK
  BY InitType
<1>2. CallsCarryLease
  BY DEF Init, CallsCarryLease
<1>3. LeaseIntegrity
  BY DEF Init, LeaseIntegrity, Held, HELD
<1> QED
  BY <1>1, <1>2, <1>3 DEF IInv

\* A new call carries the lease of a held row, and a call's second write the
\* lease of its first.
LEMMA NextCalls == ASSUME IInv, [Next]_vars PROVE CallsCarryLease'
<1> USE DEF jobVars, fleetVars
<1>1. CASE calls' \subseteq calls
  BY <1>1 DEF IInv, CallsCarryLease
<1>2. ASSUME NEW j \in Job, NEW op, NEW arg, Begin(op, j, arg) PROVE CallsCarryLease'
  <2>1. lease[j] # NoLease
    BY <1>2 DEF IInv, LeaseIntegrity, Begin, HoldsLease, Presents
  <2> QED
    BY <1>2, <2>1 DEF IInv, CallsCarryLease, Begin
<1>3. ASSUME NEW c \in calls, ResultsWrite(c) PROVE CallsCarryLease'
  BY <1>3 DEF IInv, CallsCarryLease, ResultsWrite
<1>4. ASSUME NEW j \in Job, AgentCall(j) PROVE CallsCarryLease'
  <2>1. CASE Heartbeat(j)
    BY <1>1, <2>1 DEF Heartbeat
  <2> QED
    BY <1>2, <1>4, <2>1 DEF AgentCall, ResultsBegin, RelayBegin, ReleaseBegin, CompleteBegin
<1>5. ASSUME NEW c \in calls, CallStep(c) \/ CompleteWrite(c) PROVE CallsCarryLease'
  BY <1>1, <1>3, <1>5 DEF CallStep, RenewLease, ReleaseWrite, CallLost, CompleteWrite
<1>6. CASE UNCHANGED vars
  BY <1>1, <1>6 DEF vars
<1>7. CASE Time
  BY <1>1, <1>7 DEF Time, LeaseLapses, GracePasses, GoesSilent, Dies
<1>8. ASSUME NEW w \in Runner, ClaimStep(w) \/ ClaimAnswer(w) PROVE CallsCarryLease'
  BY <1>1, <1>8 DEF ClaimStep, ClaimBegin, ClaimFind, ClaimTake, ClaimGiveUp, ClaimLost,
                    ClaimAnswer
<1>9. ASSUME NEW w \in Runner, Admin(w) PROVE CallsCarryLease'
  BY <1>1, <1>9 DEF Admin, Revoke, Rotate, Reconfigure, ReleaseRunnerJobs
<1>10. ASSUME NEW w \in Runner, NEW S \in SUBSET Job, Hello(w, S) PROVE CallsCarryLease'
  BY <1>1, <1>10 DEF Hello
<1>11. ASSUME NEW s \in Sweeper, SweepStep(s) \/ SweepEnd(s) PROVE CallsCarryLease'
  BY <1>1, <1>11 DEF SweepStep, SweepReap, SweepRead, SweepJudge, SkipJob, StampSkipped,
                     SweepSkipped, SweepEnd, SweepLost, SkipFails
<1>12. ASSUME NEW r \in Run, CreateRunnerJobs(r) PROVE CallsCarryLease'
  BY <1>1, <1>12 DEF CreateRunnerJobs
<1> QED
  BY <1>4, <1>5, <1>6, <1>7, <1>8, <1>9, <1>10, <1>11, <1>12 DEF Next, JobStep

\* Rows and calls keep their leases within the claims made, step by step.
LEMMA NextIInv == IInv /\ [Next]_vars => IInv'
<1> SUFFICES ASSUME IInv, [Next]_vars PROVE IInv'
  OBVIOUS
<1>1. TypeOK'
  BY NextType DEF IInv
<1>2. CallsCarryLease'
  BY NextCalls
<1>3. LeaseIntegrity'
  <2> SUFFICES ASSUME NEW j \in Job
               PROVE  /\ Held(j)' <=> lease'[j] # NoLease
                      /\ Held(j)' => lease'[j] = attempt'[j] /\ holder'[j] \in Runner
    BY DEF LeaseIntegrity
  <2>1. RowStep(j)
    BY NextRow
  <2>2. /\ Held(j) <=> lease[j] # NoLease
        /\ Held(j) => lease[j] = attempt[j] /\ holder[j] \in Runner
        /\ attempt[j] \in Nat
    BY DEF IInv, LeaseIntegrity, TypeOK
  <2>3. CASE Same(j)
    BY <2>2, <2>3 DEF Same, Held
  <2>4. CASE Moved(j)
    BY <2>2, <2>4 DEF Moved, Held, HELD
  <2>5. CASE Granted(j)
    BY <2>2, <2>5 DEF Granted, Held, HELD, NoLease
  <2>6. CASE Kept(j)
    BY <2>2, <2>6 DEF Kept, Held, HELD
  <2>7. CASE TakenAway(j)
    BY <2>7 DEF TakenAway, Held, HELD, TERMINAL_JOB
  <2> QED
    BY <2>1, <2>3, <2>4, <2>5, <2>6, <2>7 DEF RowStep
<1> QED
  BY <1>1, <1>2, <1>3 DEF IInv

\* So the invariant is one of the pool.
LEMMA Invariance == Spec => []IInv
BY InitIInv, NextIInv, PTL DEF Spec

\* A row names a lease exactly while a runner holds it, and it is the lease of
\* the latest claim, whatever handlers of agents, sweeps and administrators
\* are under way between their statements.
THEOREM LeaseIntegrityHolds == Spec => []LeaseIntegrity
BY Invariance, PTL DEF IInv

\* A runner loses a job only because its lease lapsed, because it is being
\* revoked or rotated, or by a call made under the lease in force.
THEOREM HolderKeeps == Spec => HolderKeepsJob
<1> DEFINE A == \A j \in Job :
         Held(j) /\ (status'[j] \notin HELD \/ lease'[j] # lease[j]) =>
            \/ lapsed[j]
            \/ holder[j] \in releasing
            \/ \E c \in calls : /\ c.job = j
                               /\ c.lease = lease[j]
                               /\ c.op \in {"release", "complete"}
<1>1. IInv /\ [Next]_vars => A
  <2> SUFFICES ASSUME IInv, [Next]_vars, NEW j \in Job, Held(j),
                      status'[j] \notin HELD \/ lease'[j] # lease[j]
               PROVE  \/ lapsed[j]
                      \/ holder[j] \in releasing
                      \/ \E c \in calls : SettledBy(j, c)
    BY DEF SettledBy
  <2>1. RowStep(j)
    BY NextRow
  <2>2. ~Same(j) /\ ~Moved(j) /\ ~Granted(j) /\ ~Kept(j)
    BY DEF Same, Moved, Granted, Kept, Held, HELD
  <2> QED
    BY <2>1, <2>2 DEF RowStep, TakenAway
<1> QED
  BY <1>1, Invariance, PTL DEF Spec, HolderKeepsJob

\* No call, sweep or administration under way when a job ends can give it
\* another status: a verdict once reported stands.
THEOREM TerminalStays == Spec => TerminalIsFinal
<1> DEFINE A == \A j \in Job : status[j] \in TERMINAL_JOB => status'[j] = status[j]
<1>1. IInv /\ [Next]_vars => A
  <2> SUFFICES ASSUME IInv, [Next]_vars, NEW j \in Job, status[j] \in TERMINAL_JOB
               PROVE  status'[j] = status[j]
    OBVIOUS
  <2>1. RowStep(j)
    BY NextRow
  <2>2. ~Moved(j) /\ ~Granted(j) /\ ~Kept(j) /\ ~TakenAway(j)
    BY DEF Moved, Granted, Kept, TakenAway, Held, HELD, TERMINAL_JOB
  <2> QED
    BY <2>1, <2>2 DEF RowStep, Same
<1> QED
  BY <1>1, Invariance, PTL DEF Spec, TerminalIsFinal

\* ABANDONED, which makes the whole run ERRORED, is said only of a job that
\* runners have claimed maxAttempts times.
THEOREM AbandonedSpent == Spec => []AbandonedWhenSpent
<1>1. Init => AbandonedWhenSpent
  BY DEF Init, AbandonedWhenSpent
<1>2. IInv /\ AbandonedWhenSpent /\ [Next]_vars => AbandonedWhenSpent'
  <2> SUFFICES ASSUME IInv, AbandonedWhenSpent, [Next]_vars, NEW j \in Job,
                      status'[j] = "ABANDONED"
               PROVE  attempt'[j] >= MaxAttempts
    BY DEF AbandonedWhenSpent
  <2>1. RowStep(j)
    BY NextRow
  <2>2. ~Moved(j) /\ ~Granted(j) /\ ~Kept(j)
    BY DEF Moved, Granted, Kept
  <2> QED
    BY <2>1, <2>2 DEF RowStep, Same, TakenAway, AbandonedWhenSpent
<1> QED
  BY <1>1, <1>2, Invariance, PTL DEF Spec

-------------------------------------------------------------------------------
(***************************************************************************)
(* Refinement: the rows implement JobLease                                 *)
(***************************************************************************)
Phases == [j \in Job |-> PhaseOf(j)]
Pending == {<<c.job, c.lease>> : c \in calls}

\* The phase of a job, read off its status.
LEMMA PhaseLeased ==
    ASSUME NEW j \in Job
    PROVE  /\ Phases[j] = "leased" <=> Held(j)
           /\ Phases[j] = "waiting" <=> status[j] = "QUEUED"
           /\ Phases[j] = "absent" <=> status[j] = "ABSENT"
BY DEF Phases, PhaseOf, Held, HELD

\* A step that touches no row, and starts no call, asks nothing of the lease.
LEMMA ForgetStep ==
    ASSUME RowsUntouched, Pending' \subseteq Pending
    PROVE  Lease!Forget
BY DEF RowsUntouched, Pending, Phases, PhaseOf, Held, Lease!Forget

\* A step that touches neither rows nor calls is none of the lease.
LEMMA StutterStep ==
    ASSUME RowsUntouched, calls' = calls
    PROVE  UNCHANGED Lease!vars
BY DEF RowsUntouched, PhaseOf, Held, Lease!vars

\* Ending the leases of back and over, without their holders.
LEMMA TakeBackStep ==
    ASSUME IInv, calls' = calls, attempt' = attempt,
           NEW back \in SUBSET Job, NEW over \in SUBSET Job,
           \A j \in back \cup over : Held(j),
           \A j \in over : attempt[j] >= MaxAttempts,
           status' = [j \in Job |-> IF j \in back THEN "QUEUED"
                                   ELSE IF j \in over THEN "ABANDONED" ELSE status[j]],
           lease' = [j \in Job |-> IF j \in back \cup over THEN NoLease ELSE lease[j]]
    PROVE  Lease!TakeBack(back, over)
<1>1. \A j \in back \cup over : Phases[j] = "leased"
  BY PhaseLeased
<1>2. Phases' = [j \in Job |-> IF j \in back THEN "waiting"
                              ELSE IF j \in over THEN "done" ELSE Phases[j]]
  <2>1. ASSUME NEW j \in Job
        PROVE  PhaseOf(j)' = IF j \in back THEN "waiting"
                             ELSE IF j \in over THEN "done" ELSE PhaseOf(j)
    BY DEF PhaseOf, Held, HELD
  <2> QED
    BY <2>1 DEF Phases
<1>3. lease' = [j \in Job |-> IF j \in back \cup over THEN 0 ELSE lease[j]]
  BY DEF NoLease
<1> QED
  BY <1>1, <1>2, <1>3 DEF Phases, Lease!TakeBack

\* Reaping takes leases back, to the queue or for good.
LEMMA ReapLease ==
    ASSUME IInv, ReapExpiredLeases, calls' = calls
    PROVE  Lease!Next
<1> DEFINE back == {j \in Expired : attempt[j] < MaxAttempts}
           over == Expired \ back
<1>1. back \in SUBSET Job /\ over \in SUBSET Job
  BY DEF Expired
<1>2. \A j \in back \cup over : Held(j)
  BY DEF Expired
<1>3. \A j \in over : attempt[j] >= MaxAttempts
  BY <1>1, PoolAssumption DEF IInv, TypeOK
<1>4. /\ attempt' = attempt
      /\ status' = [j \in Job |-> IF j \in back THEN "QUEUED"
                                  ELSE IF j \in over THEN "ABANDONED" ELSE status[j]]
      /\ lease' = [j \in Job |-> IF j \in back \cup over THEN NoLease ELSE lease[j]]
  BY DEF ReapExpiredLeases, ReapedStatus
<1> HIDE DEF back, over
<1>5. Lease!TakeBack(back, over)
  BY <1>1, <1>2, <1>3, <1>4, TakeBackStep
<1> QED
  BY <1>1, <1>5 DEF Lease!Next

\* So does the release that follows a rotation or a revocation.
LEMMA ReleaseLease ==
    ASSUME IInv, NEW w \in Runner, ReleaseRunnerJobs(w)
    PROVE  Lease!Next
<1> DEFINE back == {j \in Job : Held(j) /\ holder[j] = w}
<1>1. back \in SUBSET Job /\ {} \in SUBSET Job /\ \A j \in back \cup {} : Held(j)
  OBVIOUS
<1>2. /\ calls' = calls
      /\ attempt' = attempt
      /\ status' = [j \in Job |-> IF j \in back THEN "QUEUED"
                                  ELSE IF j \in {} THEN "ABANDONED" ELSE status[j]]
      /\ lease' = [j \in Job |-> IF j \in back \cup {} THEN NoLease ELSE lease[j]]
  BY DEF ReleaseRunnerJobs
<1> HIDE DEF back
<1>3. Lease!TakeBack(back, {})
  BY <1>1, <1>2, TakeBackStep
<1> QED
  BY <1>1, <1>3 DEF Lease!Next

\* A conditional update that finds its row queued grants a lease; another does nothing.
LEMMA TakeLease ==
    ASSUME IInv, NEW w \in Runner, ClaimTake(w)
    PROVE  [Lease!Next]_Lease!vars
<1>1. calls' = calls
  BY DEF ClaimTake
<1>2. CASE UNCHANGED jobVars
  BY <1>1, <1>2, StutterStep DEF jobVars, RowsUntouched
<1>3. CASE ~UNCHANGED jobVars
  <2>1. PICK k \in claim[w].cands :
           /\ status[k] = "QUEUED"
           /\ status' = [status EXCEPT ![k] = "CLAIMED"]
           /\ attempt' = [attempt EXCEPT ![k] = @ + 1]
           /\ lease' = [lease EXCEPT ![k] = attempt[k] + 1]
    BY <1>3 DEF ClaimTake
  <2>2. k \in Job
    BY DEF IInv, TypeOK, Claim
  <2>3. Phases[k] = "waiting"
    BY <2>1, <2>2, PhaseLeased
  <2>4. Phases' = [Phases EXCEPT ![k] = "leased"]
    <3>1. status \in [Job -> JobStatus]
      BY DEF IInv, TypeOK
    <3>2. ASSUME NEW j \in Job
          PROVE  PhaseOf(j)' = IF j = k THEN "leased" ELSE PhaseOf(j)
      BY <2>1, <2>2, <3>1, <3>2 DEF PhaseOf, Held, HELD
    <3> QED
      BY <2>2, <3>2 DEF Phases
  <2>5. Lease!Grant(k)
    BY <1>1, <2>1, <2>3, <2>4 DEF Phases, Lease!Grant
  <2> QED
    BY <2>2, <2>5 DEF Lease!Next
<1> QED
  BY <1>2, <1>3

\* A call past requireLease is a request made under the lease in force.
LEMMA BeginLease ==
    ASSUME IInv, NEW j \in Job, NEW op, NEW arg, Begin(op, j, arg)
    PROVE  Lease!Next
<1>1. Phases[j] = "leased"
  BY PhaseLeased DEF Begin, HoldsLease, Presents
<1>2. RowsUntouched
  BY DEF Begin, jobVars, RowsUntouched
<1>3. Phases' = Phases
  BY <1>2 DEF RowsUntouched, Phases, PhaseOf, Held
<1>4. Pending' = Pending \cup {<<j, lease[j]>>}
  <2>1. PICK c : calls' = calls \cup {c} /\ c.job = j /\ c.lease = lease[j]
    <3> DEFINE new == [op |-> op, job |-> j, lease |-> lease[j], arg |-> arg]
    <3>1. calls' = calls \cup {new} /\ new.job = j /\ new.lease = lease[j]
      BY DEF Begin
    <3> HIDE DEF new
    <3> QED
      BY <3>1
  <2> QED
    BY <2>1 DEF Pending
<1>5. Lease!Ask(j)
  BY <1>1, <1>2, <1>3, <1>4 DEF RowsUntouched, Phases, Pending, Lease!Ask
<1> QED
  BY <1>5 DEF Lease!Next

\* A fenced release or completion settles the lease in force.
LEMMA SettleLease ==
    ASSUME IInv, NEW c \in calls, Fenced(c), NEW s \in {"QUEUED"} \cup AllCompletions,
           Dropped(c.job, s), calls' = calls \ {c}
    PROVE  Lease!Next
<1> DEFINE k == c.job
<1>1. /\ k \in Job
      /\ status \in [Job -> JobStatus]
      /\ lease \in [Job -> Nat]
  BY DEF IInv, TypeOK, Call
<1>2. Held(k) /\ c.lease = lease[k]
  BY <1>1 DEF IInv, CallsCarryLease, LeaseIntegrity, Fenced
<1>3. <<k, lease[k]>> \in Pending
  BY <1>2 DEF Pending
<1>4. Phases[k] = "leased"
  BY <1>1, <1>2, PhaseLeased
<1>5. PICK p \in {"waiting", "done"} : Phases' = [Phases EXCEPT ![k] = p]
  <2>1. PICK p \in {"waiting", "done"} : PhaseOf(k)' = p
    BY <1>1 DEF Dropped, PhaseOf, Held, HELD, AllCompletions
  <2>2. ASSUME NEW j \in Job, j # k PROVE PhaseOf(j)' = PhaseOf(j)
    BY <1>1, <2>2 DEF Dropped, PhaseOf, Held
  <2> QED
    BY <1>1, <2>1, <2>2 DEF Phases
<1>6. lease' = [lease EXCEPT ![k] = 0] /\ attempt' = attempt
  BY DEF Dropped, NoLease
<1>7. Pending' \in {Pending, Pending \ {<<k, lease[k]>>}}
  <2>1. \A x : x \in Pending' => x \in Pending
    BY DEF Pending
  <2>2. \A x : x \in Pending /\ x # <<k, lease[k]>> => x \in Pending'
    BY <1>2 DEF Pending
  <2>3. Pending' = Pending \/ Pending' = Pending \ {<<k, lease[k]>>}
    <3> HIDE DEF k
    <3> QED
      BY <2>1, <2>2
  <2> QED
    BY <2>3
<1>8. Lease!Settle(k)
  BY <1>3, <1>4, <1>5, <1>6, <1>7 DEF Phases, Pending, Lease!Settle
<1> QED
  BY <1>1, <1>8 DEF Lease!Next

\* A write settles the lease it was checked under, or is forgotten.
LEMMA CallLease ==
    ASSUME IInv, NEW c \in calls, CallStep(c) \/ CompleteWrite(c)
    PROVE  [Lease!Next]_Lease!vars
<1>1. c \in Call /\ c.job \in Job
  BY DEF IInv, TypeOK, Call
<1>2. CASE RowsUntouched /\ calls' \subseteq calls
  <2>1. Pending' \subseteq Pending
    BY <1>2 DEF Pending
  <2> QED
    BY <1>2, <2>1, ForgetStep DEF Lease!Next
<1>3. CASE ResultsWrite(c)
  <2>1. PICK d : calls' = (calls \ {c}) \cup {d} /\ d.job = c.job /\ d.lease = c.lease
    <3> DEFINE new == [op |-> "renew", job |-> c.job, lease |-> c.lease, arg |-> "SKIPPED"]
    <3>1. calls' = (calls \ {c}) \cup {new} /\ new.job = c.job /\ new.lease = c.lease
      BY <1>3 DEF ResultsWrite
    <3> HIDE DEF new
    <3> QED
      BY <3>1
  <2>2. Pending' \subseteq Pending
    BY <2>1 DEF Pending
  <2>3. RowsUntouched
    BY <1>3 DEF ResultsWrite, jobVars, RowsUntouched
  <2> QED
    BY <2>2, <2>3, ForgetStep DEF Lease!Next
<1>4. CASE RenewLease(c)
  <2>1. calls' \subseteq calls
    BY <1>4 DEF RenewLease
  <2>2. CASE UNCHANGED jobVars
    BY <1>2, <2>1, <2>2 DEF jobVars, RowsUntouched
  <2>3. CASE Held(c.job) /\ Renewed(c.job)
    <3>1. Phases' = Phases
      <4>1. ASSUME NEW j \in Job PROVE PhaseOf(j)' = PhaseOf(j)
        BY <1>1, <2>3 DEF IInv, TypeOK, Renewed, PhaseOf, Held, HELD
      <4> QED
        BY <4>1 DEF Phases
    <3>2. Pending' \subseteq Pending
      BY <2>1 DEF Pending
    <3>3. Lease!Forget
      BY <2>3, <3>1, <3>2 DEF Renewed, Phases, Pending, Lease!Forget
    <3> QED
      BY <3>3 DEF Lease!Next
  <2> QED
    BY <1>4, <2>2, <2>3 DEF RenewLease
<1>5. CASE ReleaseWrite(c)
  BY <1>2, <1>5, SettleLease DEF ReleaseWrite, jobVars, RowsUntouched
<1>6. CASE CompleteWrite(c)
  <2>1. c.arg \in AllCompletions
    BY <1>1, <1>6 DEF CompleteWrite, Call
  <2> QED
    BY <1>2, <1>6, <2>1, SettleLease DEF CompleteWrite, jobVars, RowsUntouched
<1>7. CASE CallLost(c)
  BY <1>2, <1>7 DEF CallLost, jobVars, RowsUntouched
<1> QED
  BY <1>3, <1>4, <1>5, <1>6, <1>7 DEF CallStep

\* An agent that calls asks under its lease, or renews it.
LEMMA AgentLease ==
    ASSUME IInv, NEW j \in Job, AgentCall(j)
    PROVE  [Lease!Next]_Lease!vars
<1>1. CASE Heartbeat(j)
  <2>1. \A k \in Job : PhaseOf(k)' = PhaseOf(k)
    BY <1>1 DEF IInv, TypeOK, Heartbeat, Presents, Renewed, PhaseOf, Held, HELD
  <2>2. lease' = lease /\ attempt' = attempt /\ calls' = calls
    BY <1>1 DEF Heartbeat, Renewed
  <2> QED
    BY <2>1, <2>2 DEF Lease!vars
<1> QED
  BY <1>1, BeginLease
     DEF AgentCall, ResultsBegin, RelayBegin, ReleaseBegin, CompleteBegin

\* Of the sweep, reaping and skipping alone move a lease.
LEMMA SweepLease ==
    ASSUME IInv, NEW s \in Sweeper, SweepStep(s) \/ SweepEnd(s)
    PROVE  [Lease!Next]_Lease!vars
<1>1. CASE SweepReap(s)
  BY <1>1, ReapLease DEF SweepReap
<1>2. ASSUME NEW k \in Job, SkipJob(s, k) PROVE [Lease!Next]_Lease!vars
  <2>1. calls' = calls /\ lease' = lease /\ attempt' = attempt
    BY <1>2 DEF SkipJob
  <2>2. CASE status[k] # "QUEUED"
    BY <1>2, <2>2, StutterStep DEF SkipJob, RowsUntouched
  <2>3. CASE status[k] = "QUEUED"
    <3>1. Phases[k] = "waiting"
      BY <2>3, PhaseLeased
    <3>2. Phases' = [Phases EXCEPT ![k] = "done"]
      <4>1. status' = [status EXCEPT ![k] = "SKIPPED"] /\ status \in [Job -> JobStatus]
        BY <1>2, <2>3 DEF SkipJob, IInv, TypeOK
      <4>2. ASSUME NEW j \in Job
            PROVE  PhaseOf(j)' = IF j = k THEN "done" ELSE PhaseOf(j)
        BY <4>1, <4>2 DEF PhaseOf, Held, HELD
      <4> QED
        BY <4>2 DEF Phases
    <3>3. Lease!Withdraw(k)
      BY <2>1, <3>1, <3>2 DEF Phases, Lease!Withdraw
    <3> QED
      BY <3>3 DEF Lease!Next
  <2> QED
    BY <2>2, <2>3
<1> QED
  BY <1>1, <1>2, StutterStep
     DEF SweepStep, SweepRead, SweepJudge, StampSkipped, SweepSkipped, SweepEnd, SweepLost,
         SkipFails, RowsUntouched, jobVars

\* Dispatching a run offers its jobs.
LEMMA CreateLease ==
    ASSUME IInv, NEW r \in Run, CreateRunnerJobs(r)
    PROVE  Lease!Next
<1> DEFINE S == {j \in Slices(r) : status[j] = "ABSENT"}
<1>1. S \in SUBSET Job
  BY DEF Slices
<1>2. \A j \in S : Phases[j] = "absent"
  BY <1>1, PhaseLeased
<1>3. Phases' = [j \in Job |-> IF j \in S THEN "waiting" ELSE Phases[j]]
  <2>1. ASSUME NEW j \in Job
        PROVE  PhaseOf(j)' = IF j \in S THEN "waiting" ELSE PhaseOf(j)
    BY DEF CreateRunnerJobs, PhaseOf, Held, HELD
  <2> QED
    BY <2>1 DEF Phases
<1>4. calls' = calls /\ lease' = lease /\ attempt' = attempt
  BY DEF CreateRunnerJobs
<1> HIDE DEF S
<1>5. Lease!Offer(S)
  BY <1>2, <1>3, <1>4 DEF Phases, Lease!Offer
<1> QED
  BY <1>1, <1>5 DEF Lease!Next

\* Every step of the pool is a step of the lease, or none.
LEMMA LeaseStep == IInv /\ [Next]_vars => [Lease!Next]_Lease!vars
<1> SUFFICES ASSUME IInv, [Next]_vars PROVE [Lease!Next]_Lease!vars
  OBVIOUS
<1> USE DEF jobVars, RowsUntouched
<1>1. CASE UNCHANGED vars
  BY <1>1, StutterStep DEF vars
<1>2. CASE Time
  BY <1>2, StutterStep DEF Time, LeaseLapses, GracePasses, GoesSilent, Dies
<1>3. ASSUME NEW w \in Runner, ClaimStep(w) \/ ClaimAnswer(w)
      PROVE  [Lease!Next]_Lease!vars
  <2>1. CASE ClaimFind(w)
    BY <2>1, ReapLease DEF ClaimFind
  <2> QED
    BY <1>3, <2>1, TakeLease, StutterStep
       DEF ClaimStep, ClaimBegin, ClaimGiveUp, ClaimLost, ClaimAnswer
<1>4. ASSUME NEW w \in Runner, Admin(w) PROVE [Lease!Next]_Lease!vars
  BY <1>4, ReleaseLease, StutterStep DEF Admin, Revoke, Rotate, Reconfigure
<1>5. ASSUME NEW w \in Runner, NEW S \in SUBSET Job, Hello(w, S)
      PROVE  [Lease!Next]_Lease!vars
  BY <1>5, StutterStep DEF Hello
<1> QED
  BY <1>1, <1>2, <1>3, <1>4, <1>5, AgentLease, CallLease, SweepLease, CreateLease
     DEF Next, JobStep

\* An empty table offers nothing.
LEMMA LeaseInit == Init => Lease!Init
BY DEF Init, PhaseOf, Lease!Init, NoLease

\* The pool implements an exclusive lease: in every interleaving of handlers a
\* step either does to a job what JobLease allows, or nothing.
THEOREM ImplementsLease == Spec => LeaseSpec
BY LeaseInit, LeaseStep, Invariance, PTL DEF Spec, LeaseSpec, Lease!Spec
===============================================================================

------------------------------ MODULE RunnerJobs ------------------------------
(***************************************************************************)
(* The on-prem runner pool: the RunnerJob rows, the leases under which     *)
(* customer-hosted agents hold them, and every handler that writes them    *)
(* (apps/api/src/lib/runners.ts, apps/api/src/routes/runners.ts).          *)
(*                                                                         *)
(* One database statement is one step.  A handler that reads, awaits and   *)
(* writes is a process with a step per statement, so the handlers of       *)
(* several agents, of the sweep and of an administrator interleave exactly *)
(* where the code awaits.                                                  *)
(*                                                                         *)
(* Time is abstracted to three facts the code compares it for: lapsed[j]   *)
(* (leaseExpiresAt is in the past), aged[j] (queuedAt is more than         *)
(* RUNNER_UNSERVABLE_GRACE_MS ago) and online[w] (lastSeenAt is within     *)
(* RUNNER_ONLINE_MS).  Each changes by a step of its own, at any moment.   *)
(*                                                                         *)
(* The fencing token is a fresh UUID per claim and `attempt` counts the    *)
(* claims, so the lease minted by the n-th claim of a job is the number n. *)
(***************************************************************************)
EXTENDS Naturals, FiniteSets

CONSTANTS
    Job,          \* the RunnerJob rows: one per slice of a run
    Run,          \* the runs dispatched to the pool
    RunOf,        \* runId of each job
    Runner,       \* the registered runners
    Sweeper,      \* the API instances that may be sweeping the organisation
    Rank,         \* queuedAt order: Rank[j] < Rank[k] when j was queued first
    Take,         \* `take: 25` of the candidate query
    MaxAttempts,  \* RunnerJob.maxAttempts
    MaxClaims,    \* bound: claims of one job the model explores
    MaxCalls,     \* bound: agent calls in flight past their lease check
    Events,       \* which environment events the instance explores
    Outcomes,     \* what a reported test may come out as
    Completions,  \* what an agent may complete a job as
    NoJob,        \* no job
    NoRunner      \* no runner

EventNames == {"silent", "grace", "revoke", "rotate", "release", "hello", "crash",
               "die", "cancel", "cloudsweep"}
AllOutcomes == {"SKIPPED", "PASSED", "FAILED"}
AllCompletions == {"COMPLETED", "FAILED", "CANCELLED"}

ASSUME PoolAssumption ==
    /\ RunOf \in [Job -> Run]
    /\ Rank \in [Job -> Nat]
    /\ \A j, k \in Job : Rank[j] = Rank[k] => j = k
    /\ Take \in Nat \ {0}
    /\ MaxAttempts \in Nat \ {0}
    /\ MaxClaims \in Nat
    /\ MaxCalls \in Nat
    /\ Events \subseteq EventNames
    /\ Outcomes \subseteq AllOutcomes
    /\ Completions \subseteq AllCompletions
    /\ NoJob \notin Job
    /\ NoRunner \notin Runner

NoLease == 0

HELD == {"CLAIMED", "RUNNING"}
TERMINAL_JOB == {"COMPLETED", "FAILED", "CANCELLED", "ABANDONED", "SKIPPED"}
JobStatus == {"ABSENT", "QUEUED"} \cup HELD \cup TERMINAL_JOB

VARIABLES
    status,     \* RunnerJob.status; ABSENT is a row not created yet
    holder,     \* RunnerJob.runnerId: the last runner that claimed it
    lease,      \* RunnerJob.leaseId
    attempt,    \* RunnerJob.attempt: claims so far
    lapsed,     \* leaseExpiresAt < now
    answered,   \* the holder has been sent its lease
    aged,       \* queuedAt < now - RUNNER_UNSERVABLE_GRACE_MS
    result,     \* the verdict standing in the slice's TestResult rows
    cred,       \* whether the token the agent presents is accepted
    releasing,  \* runners whose rotate/revoke handler has yet to release jobs
    online,     \* lastSeenAt is recent
    dead,       \* agents whose host is gone for good
    serves,     \* the jobs whose pool and requirements the runner meets
    claim,      \* the long poll each runner has open
    calls,      \* agent calls past requireLease whose writes are still to come
    sweep       \* each API instance's sweep

jobVars == <<status, holder, lease, attempt, lapsed, answered>>
fleetVars == <<cred, releasing, online, dead, serves>>
vars == <<status, holder, lease, attempt, lapsed, answered, aged, result,
          cred, releasing, online, dead, serves, claim, calls, sweep>>

Call == [op : {"results", "renew", "release"}, job : Job, lease : Nat, arg : AllOutcomes]
        \cup [op : {"complete"}, job : Job, lease : Nat, arg : AllCompletions]
Claim == [phase : {"idle", "polling", "trying", "assigning"},
          able : SUBSET Job, cands : SUBSET Job, job : Job \cup {NoJob}]
Sweep == [phase : {"idle", "reaped", "read", "skipping", "stamping", "finalizing"},
          jobs : SUBSET Job, job : Job \cup {NoJob}]

TypeOK ==
    /\ status \in [Job -> JobStatus]
    /\ holder \in [Job -> Runner \cup {NoRunner}]
    /\ lease \in [Job -> Nat]
    /\ attempt \in [Job -> Nat]
    /\ lapsed \in [Job -> BOOLEAN]
    /\ answered \in [Job -> BOOLEAN]
    /\ aged \in [Job -> BOOLEAN]
    /\ result \in [Job -> AllOutcomes]
    /\ cred \in [Runner -> {"valid", "stale", "revoked"}]
    /\ releasing \subseteq Runner
    /\ online \in [Runner -> BOOLEAN]
    /\ dead \subseteq Runner
    /\ serves \in [Runner -> SUBSET Job]
    /\ claim \in [Runner -> Claim]
    /\ calls \subseteq Call
    /\ sweep \in [Sweeper -> Sweep]

IdleClaim == [phase |-> "idle", able |-> {}, cands |-> {}, job |-> NoJob]
Polling(S) == [phase |-> "polling", able |-> S, cands |-> {}, job |-> NoJob]
Trying(S, C) == [phase |-> "trying", able |-> S, cands |-> C, job |-> NoJob]
Assigning(j) == [phase |-> "assigning", able |-> {}, cands |-> {}, job |-> j]
IdleSweep == [phase |-> "idle", jobs |-> {}, job |-> NoJob]

(***************************************************************************)
(* A run starts as rows in Run and TestResult (each result a SKIPPED       *)
(* placeholder) with no job rows; the fleet has checked in and can serve   *)
(* everything.                                                             *)
(***************************************************************************)
Init ==
    /\ status = [j \in Job |-> "ABSENT"]
    /\ holder = [j \in Job |-> NoRunner]
    /\ lease = [j \in Job |-> NoLease]
    /\ attempt = [j \in Job |-> 0]
    /\ lapsed = [j \in Job |-> FALSE]
    /\ answered = [j \in Job |-> FALSE]
    /\ aged = [j \in Job |-> FALSE]
    /\ result = [j \in Job |-> "SKIPPED"]
    /\ cred = [w \in Runner |-> "valid"]
    /\ releasing = {}
    /\ online = [w \in Runner |-> TRUE]
    /\ dead = {}
    /\ serves = [w \in Runner |-> Job]
    /\ claim = [w \in Runner |-> IdleClaim]
    /\ calls = {}
    /\ sweep = [s \in Sweeper |-> IdleSweep]

Held(j) == status[j] \in HELD
Queued == {j \in Job : status[j] = "QUEUED"}
Slices(r) == {j \in Job : RunOf[j] = r}

-------------------------------------------------------------------------------
(***************************************************************************)
(* Time                                                                    *)
(***************************************************************************)

\* A held job's lease passes its deadline.
LeaseLapses(j) ==
    /\ Held(j)
    /\ ~lapsed[j]
    /\ lapsed' = [lapsed EXCEPT ![j] = TRUE]
    /\ UNCHANGED <<status, holder, lease, attempt, answered, aged, result, fleetVars, claim,
                   calls, sweep>>

\* The grace period since queuedAt runs out.  queuedAt is written once, at
\* creation, so this happens whatever the job is doing.
GracePasses(j) ==
    /\ "grace" \in Events
    /\ status[j] \in {"QUEUED"} \cup HELD
    /\ ~aged[j]
    /\ aged' = [aged EXCEPT ![j] = TRUE]
    /\ UNCHANGED <<jobVars, result, fleetVars, claim, calls, sweep>>

\* RUNNER_ONLINE_MS pass without an authenticated call from w.
GoesSilent(w) ==
    /\ "silent" \in Events
    /\ online[w]
    /\ online' = [online EXCEPT ![w] = FALSE]
    /\ UNCHANGED <<jobVars, aged, result, cred, releasing, dead, serves, claim, calls, sweep>>

\* The agent's host is lost and never calls again.
Dies(w) ==
    /\ "die" \in Events
    /\ w \notin dead
    /\ dead' = dead \cup {w}
    /\ UNCHANGED <<jobVars, aged, result, cred, releasing, online, serves, claim, calls, sweep>>

-------------------------------------------------------------------------------
(***************************************************************************)
(* Dispatch                                                                *)
(***************************************************************************)

\* createRunnerJobs, from dispatchOnPrem and from the repair endpoint: rows
\* whose dedupe key exists are skipped.
CreateRunnerJobs(r) ==
    /\ \E j \in Slices(r) : status[j] = "ABSENT"
    /\ status' = [j \in Job |-> IF j \in Slices(r) /\ status[j] = "ABSENT"
                                THEN "QUEUED" ELSE status[j]]
    /\ UNCHANGED <<holder, lease, attempt, lapsed, answered, aged, result, fleetVars, claim,
                   calls, sweep>>

-------------------------------------------------------------------------------
(***************************************************************************)
(* Agent authentication.  Every accepted call is proof of life.            *)
(***************************************************************************)

Accepted(w) == cred[w] = "valid" /\ w \notin dead
Seen(w) == online' = [online EXCEPT ![w] = TRUE]

\* POST /hello, or the capabilities sent with POST /claim: the agent reports
\* what it can do.
Hello(w, S) ==
    /\ "hello" \in Events
    /\ Accepted(w)
    /\ serves' = [serves EXCEPT ![w] = S]
    /\ Seen(w)
    /\ UNCHANGED <<jobVars, aged, result, cred, releasing, dead, claim, calls, sweep>>

-------------------------------------------------------------------------------
(***************************************************************************)
(* Reaping.  reapExpiredLeases is two updates with complementary attempt   *)
(* guards over the same `now`, so no row is in both and they are one step. *)
(***************************************************************************)

\* A slip: a job that has sent a heartbeat is no longer reaped.
ExpiredClaimedOnly == {j \in Job : status[j] = "CLAIMED" /\ lapsed[j]}

Expired == {j \in Job : Held(j) /\ lapsed[j]}

ReapedStatus ==
    [j \in Job |-> IF j \notin Expired THEN status[j]
                   ELSE IF attempt[j] < MaxAttempts THEN "QUEUED" ELSE "ABANDONED"]

ReapExpiredLeases ==
    /\ status' = ReapedStatus
    /\ lease' = [j \in Job |-> IF j \in Expired THEN NoLease ELSE lease[j]]
    /\ lapsed' = [j \in Job |-> lapsed[j] /\ ReapedStatus[j] # "QUEUED"]
    /\ UNCHANGED <<holder, attempt, answered>>

-------------------------------------------------------------------------------
(***************************************************************************)
(* Claiming: the long poll                                                 *)
(***************************************************************************)

\* POST /claim passes requireRunner once, here, and polls for up to
\* RUNNER_LONG_POLL_MS afterwards with the pools and capabilities of now.
ClaimBegin(w) ==
    /\ Accepted(w)
    /\ claim[w].phase = "idle"
    /\ claim' = [claim EXCEPT ![w] = Polling(serves[w])]
    /\ Seen(w)
    /\ UNCHANGED <<jobVars, aged, result, cred, releasing, dead, serves, calls, sweep>>

\* The `take` oldest of the jobs Q.
Window(Q) == {j \in Q : Cardinality({k \in Q : Rank[k] < Rank[j]}) < Take}

\* claimNextJob: reap, then read the candidates this runner can serve.
ClaimFind(w) ==
    /\ claim[w].phase = "polling"
    /\ ReapExpiredLeases
    /\ LET able == claim[w].able
           found == Window({j \in Job : ReapedStatus[j] = "QUEUED"}) \cap able
       IN  claim' = [claim EXCEPT ![w] =
                       IF found = {} THEN Polling(able) ELSE Trying(able, found)]
    /\ UNCHANGED <<aged, result, fleetVars, calls, sweep>>

\* A slip: the update names the row and not the status it was read with.
ClaimTakeUnguarded(w) ==
    /\ claim[w].phase = "trying"
    /\ \E j \in claim[w].cands :
          /\ \A k \in claim[w].cands : Rank[j] <= Rank[k]
          /\ attempt[j] < MaxClaims
          /\ status' = [status EXCEPT ![j] = "CLAIMED"]
          /\ holder' = [holder EXCEPT ![j] = w]
          /\ attempt' = [attempt EXCEPT ![j] = @ + 1]
          /\ lease' = [lease EXCEPT ![j] = attempt[j] + 1]
          /\ lapsed' = [lapsed EXCEPT ![j] = FALSE]
          /\ answered' = [answered EXCEPT ![j] = FALSE]
          /\ claim' = [claim EXCEPT ![w] = Assigning(j)]
    /\ UNCHANGED <<aged, result, fleetVars, calls, sweep>>

\* The conditional update that is the lock: the oldest remaining candidate,
\* if it is still QUEUED; otherwise the next one.
ClaimTake(w) ==
    /\ claim[w].phase = "trying"
    /\ \E j \in claim[w].cands :
          /\ \A k \in claim[w].cands : Rank[j] <= Rank[k]
          /\ \/ /\ status[j] = "QUEUED"
                /\ attempt[j] < MaxClaims
                /\ status' = [status EXCEPT ![j] = "CLAIMED"]
                /\ holder' = [holder EXCEPT ![j] = w]
                /\ attempt' = [attempt EXCEPT ![j] = @ + 1]
                /\ lease' = [lease EXCEPT ![j] = attempt[j] + 1]
                /\ lapsed' = [lapsed EXCEPT ![j] = FALSE]
                /\ answered' = [answered EXCEPT ![j] = FALSE]
                /\ claim' = [claim EXCEPT ![w] = Assigning(j)]
             \/ /\ status[j] # "QUEUED"
                /\ LET rest == claim[w].cands \ {j}
                   IN  claim' = [claim EXCEPT ![w] =
                                   IF rest = {} THEN Polling(claim[w].able)
                                   ELSE Trying(claim[w].able, rest)]
                /\ UNCHANGED jobVars
    /\ UNCHANGED <<aged, result, fleetVars, calls, sweep>>

\* The rest of the handler builds the assignment and answers the agent, which
\* learns the lease only now.
ClaimAnswer(w) ==
    /\ claim[w].phase = "assigning"
    /\ LET j == claim[w].job
       IN  answered' = [answered EXCEPT ![j] = @ \/ holder[j] = w]
    /\ claim' = [claim EXCEPT ![w] = IdleClaim]
    /\ UNCHANGED <<status, holder, lease, attempt, lapsed, aged, result, fleetVars, calls,
                   sweep>>

\* The poll's deadline passes or the agent hangs up: 204, or nothing at all.
ClaimGiveUp(w) ==
    /\ claim[w].phase = "polling"
    /\ claim' = [claim EXCEPT ![w] = IdleClaim]
    /\ UNCHANGED <<jobVars, aged, result, fleetVars, calls, sweep>>

-------------------------------------------------------------------------------
(***************************************************************************)
(* Calls about a held job.  Only the holder has the current lease, so a    *)
(* call that gets past the checks is the holder's; a call under any other  *)
(* lease is answered 409 and writes nothing.                               *)
(***************************************************************************)

\* The agent knows the lease of the job, and requireRunner lets it in.
Presents(j) == Held(j) /\ answered[j] /\ Accepted(holder[j])

\* requireLease too.
HoldsLease(j) == Presents(j) /\ ~lapsed[j]

\* The handler is past requireLease and has its first write ahead of it.
Begin(op, j, arg) ==
    /\ HoldsLease(j)
    /\ Cardinality(calls) < MaxCalls
    /\ calls' = calls \cup {[op |-> op, job |-> j, lease |-> lease[j], arg |-> arg]}
    /\ Seen(holder[j])
    /\ UNCHANGED <<jobVars, aged, result, cred, releasing, dead, serves, claim, sweep>>

ResultsBegin(j, o) == Begin("results", j, o)
RelayBegin(j) == Begin("renew", j, "SKIPPED")
ReleaseBegin(j) == "release" \in Events /\ Begin("release", j, "SKIPPED")
CompleteBegin(j, s) == Begin("complete", j, s)

\* The fence: an update whose where clause names this lease matches the row.
Fenced(c) == lease[c.job] = c.lease

Renewed(j) ==
    /\ status' = [status EXCEPT ![j] = "RUNNING"]
    /\ lapsed' = [lapsed EXCEPT ![j] = FALSE]
    /\ UNCHANGED <<holder, lease, attempt, answered>>

\* A slip: the row changes hands and keeps the lease it was held under.
DroppedKeepingLease(j, s) ==
    /\ status' = [status EXCEPT ![j] = s]
    /\ lapsed' = [lapsed EXCEPT ![j] = FALSE]
    /\ UNCHANGED <<holder, lease, attempt, answered>>

\* The lease is dropped and the row takes status s.
Dropped(j, s) ==
    /\ status' = [status EXCEPT ![j] = s]
    /\ lease' = [lease EXCEPT ![j] = NoLease]
    /\ lapsed' = [lapsed EXCEPT ![j] = FALSE]
    /\ UNCHANGED <<holder, attempt, answered>>

\* POST /heartbeat is the renewal alone: it does not look at the deadline, so
\* it revives a lease that has lapsed and not been reaped.
Heartbeat(j) ==
    /\ Presents(j)
    /\ Renewed(j)
    /\ Seen(holder[j])
    /\ UNCHANGED <<aged, result, cred, releasing, dead, serves, claim, calls, sweep>>

\* POST /results writes the rows of the slice, whatever became of the lease
\* since it was checked, and renews afterwards.
ResultsWrite(c) ==
    /\ c.op = "results"
    /\ result' = [result EXCEPT ![c.job] = c.arg]
    /\ calls' = (calls \ {c}) \cup
                  {[op |-> "renew", job |-> c.job, lease |-> c.lease, arg |-> "SKIPPED"]}
    /\ UNCHANGED <<jobVars, aged, fleetVars, claim, sweep>>

\* The trailing renewLease of /results, /logs and /artifacts.
RenewLease(c) ==
    /\ c.op = "renew"
    /\ IF Held(c.job) /\ Fenced(c) THEN Renewed(c.job) ELSE UNCHANGED jobVars
    /\ calls' = calls \ {c}
    /\ UNCHANGED <<aged, result, fleetVars, claim, sweep>>

\* A slip: a release refunds the attempt, and one retried after a lost answer
\* refunds it again.
ReleaseWriteRefunded(c) ==
    /\ c.op = "release"
    /\ status' = [status EXCEPT ![c.job] = "QUEUED"]
    /\ lease' = [lease EXCEPT ![c.job] = NoLease]
    /\ lapsed' = [lapsed EXCEPT ![c.job] = FALSE]
    /\ attempt' = [attempt EXCEPT ![c.job] = @ - 1]
    /\ calls' \in {calls, calls \ {c}}
    /\ UNCHANGED <<holder, answered, aged, result, fleetVars, claim, sweep>>

ReleaseWrite(c) ==
    /\ c.op = "release"
    /\ IF Fenced(c) THEN Dropped(c.job, "QUEUED") ELSE UNCHANGED jobVars
    /\ calls' = calls \ {c}
    /\ UNCHANGED <<aged, result, fleetVars, claim, sweep>>

\* A slip: the completion relies on the check it made before it awaited.
CompleteWriteUnfenced(c) ==
    /\ c.op = "complete"
    /\ Dropped(c.job, c.arg)
    /\ calls' = calls \ {c}
    /\ UNCHANGED <<aged, result, fleetVars, claim, sweep>>

CompleteWrite(c) ==
    /\ c.op = "complete"
    /\ IF Fenced(c) THEN Dropped(c.job, c.arg) ELSE UNCHANGED jobVars
    /\ calls' = calls \ {c}
    /\ UNCHANGED <<aged, result, fleetVars, claim, sweep>>

-------------------------------------------------------------------------------
(***************************************************************************)
(* Administration: two statements each, credential first, jobs second      *)
(***************************************************************************)

Revoke(w) ==
    /\ "revoke" \in Events
    /\ cred' = [cred EXCEPT ![w] = "revoked"]
    /\ releasing' = releasing \cup {w}
    /\ UNCHANGED <<jobVars, aged, result, online, dead, serves, claim, calls, sweep>>

Rotate(w) ==
    /\ "rotate" \in Events
    /\ cred[w] # "revoked"
    /\ cred' = [cred EXCEPT ![w] = "stale"]
    /\ releasing' = releasing \cup {w}
    /\ UNCHANGED <<jobVars, aged, result, online, dead, serves, claim, calls, sweep>>

\* The operator gives the agent the rotated token.
Reconfigure(w) ==
    /\ cred[w] = "stale"
    /\ cred' = [cred EXCEPT ![w] = "valid"]
    /\ UNCHANGED <<jobVars, aged, result, releasing, online, dead, serves, claim, calls, sweep>>

ReleaseRunnerJobs(w) ==
    /\ w \in releasing
    /\ releasing' = releasing \ {w}
    /\ LET mine == {j \in Job : Held(j) /\ holder[j] = w}
       IN  /\ status' = [j \in Job |-> IF j \in mine THEN "QUEUED" ELSE status[j]]
           /\ lease' = [j \in Job |-> IF j \in mine THEN NoLease ELSE lease[j]]
           /\ lapsed' = [j \in Job |-> IF j \in mine THEN FALSE ELSE lapsed[j]]
    /\ UNCHANGED <<holder, attempt, answered, aged, result, cred, online, dead, serves, claim,
                   calls, sweep>>

-------------------------------------------------------------------------------
(***************************************************************************)
(* The sweep: reap, skip what nobody can serve, finalise what is done      *)
(***************************************************************************)

\* describeUnservable has a reason: no unrevoked, online runner serves j.
Unservable(j) ==
    ~\E w \in Runner : cred[w] # "revoked" /\ online[w] /\ j \in serves[w]

SweepReap(s) ==
    /\ sweep[s].phase = "idle"
    /\ ReapExpiredLeases
    /\ sweep' = [sweep EXCEPT ![s] = [phase |-> "reaped", jobs |-> {}, job |-> NoJob]]
    /\ UNCHANGED <<aged, result, fleetVars, claim, calls>>

\* skipUnservableJobs reads the waiting jobs ...
SweepRead(s) ==
    /\ sweep[s].phase = "reaped"
    /\ LET waiting == {j \in Queued : aged[j]}
       IN  sweep' = [sweep EXCEPT ![s] =
                       [phase |-> IF waiting = {} THEN "finalizing" ELSE "read",
                        jobs |-> waiting, job |-> NoJob]]
    /\ UNCHANGED <<jobVars, aged, result, fleetVars, claim, calls>>

\* ... then the runners, which decide every job of the batch.
SweepJudge(s) ==
    /\ sweep[s].phase = "read"
    /\ sweep' = [sweep EXCEPT ![s] =
                    [phase |-> "skipping", jobs |-> {j \in sweep[s].jobs : Unservable(j)},
                     job |-> NoJob]]
    /\ UNCHANGED <<jobVars, aged, result, fleetVars, claim, calls>>

\* A slip: the write relies on the batch that was read.
SkipJobUnguarded(s, j) ==
    /\ sweep[s].phase = "skipping"
    /\ j \in sweep[s].jobs
    /\ status' = [status EXCEPT ![j] = "SKIPPED"]
    /\ sweep' = [sweep EXCEPT ![s] =
                    [phase |-> "stamping", jobs |-> sweep[s].jobs \ {j}, job |-> j]]
    /\ UNCHANGED <<holder, lease, attempt, lapsed, answered, aged, result, fleetVars, claim,
                   calls>>

\* The conditional write: a runner that took the job first keeps it.
SkipJob(s, j) ==
    /\ sweep[s].phase = "skipping"
    /\ j \in sweep[s].jobs
    /\ IF status[j] = "QUEUED"
       THEN /\ status' = [status EXCEPT ![j] = "SKIPPED"]
            /\ sweep' = [sweep EXCEPT ![s] =
                            [phase |-> "stamping", jobs |-> sweep[s].jobs \ {j}, job |-> j]]
       ELSE /\ sweep' = [sweep EXCEPT ![s] =
                            [phase |-> "skipping", jobs |-> sweep[s].jobs \ {j}, job |-> NoJob]]
            /\ UNCHANGED status
    /\ UNCHANGED <<holder, lease, attempt, lapsed, answered, aged, result, fleetVars, claim,
                   calls>>

\* The slice's TestResult rows, whatever they say, become SKIPPED.
StampSkipped(s) ==
    /\ sweep[s].phase = "stamping"
    /\ result' = [result EXCEPT ![sweep[s].job] = "SKIPPED"]
    /\ sweep' = [sweep EXCEPT ![s] =
                    [phase |-> "skipping", jobs |-> sweep[s].jobs, job |-> NoJob]]
    /\ UNCHANGED <<jobVars, aged, fleetVars, claim, calls>>

SweepSkipped(s) ==
    /\ sweep[s].phase = "skipping"
    /\ sweep[s].jobs = {}
    /\ sweep' = [sweep EXCEPT ![s] = [phase |-> "finalizing", jobs |-> {}, job |-> NoJob]]
    /\ UNCHANGED <<jobVars, aged, result, fleetVars, claim, calls>>

\* finalizePendingRuns is the run's business: OnPremRun.  Here the sweep ends.
SweepEnd(s) ==
    /\ sweep[s].phase = "finalizing"
    /\ sweep' = [sweep EXCEPT ![s] = IdleSweep]
    /\ UNCHANGED <<jobVars, aged, result, fleetVars, claim, calls>>

-------------------------------------------------------------------------------
(***************************************************************************)
(* An API process dies, or a statement fails, in the middle of a handler.  *)
(***************************************************************************)

CallLost(c) ==
    /\ "crash" \in Events
    /\ calls' = calls \ {c}
    /\ UNCHANGED <<jobVars, aged, result, fleetVars, claim, sweep>>

ClaimLost(w) ==
    /\ "crash" \in Events
    /\ claim[w].phase # "idle"
    /\ claim' = [claim EXCEPT ![w] = IdleClaim]
    /\ UNCHANGED <<jobVars, aged, result, fleetVars, calls, sweep>>

SweepLost(s) ==
    /\ "crash" \in Events
    /\ sweep[s].phase # "idle"
    /\ sweep' = [sweep EXCEPT ![s] = IdleSweep]
    /\ UNCHANGED <<jobVars, aged, result, fleetVars, claim, calls>>

\* sweepOrg swallows an error of skipUnservableJobs and goes on to finalise.
SkipFails(s) ==
    /\ "crash" \in Events
    /\ sweep[s].phase \in {"reaped", "read", "skipping", "stamping"}
    /\ sweep' = [sweep EXCEPT ![s] = [phase |-> "finalizing", jobs |-> {}, job |-> NoJob]]
    /\ UNCHANGED <<jobVars, aged, result, fleetVars, claim, calls>>

-------------------------------------------------------------------------------
Time ==
    \/ \E j \in Job : LeaseLapses(j) \/ GracePasses(j)
    \/ \E w \in Runner : GoesSilent(w) \/ Dies(w)

ClaimStep(w) ==
    \/ ClaimBegin(w)
    \/ ClaimFind(w)
    \/ ClaimTake(w)
    \/ ClaimGiveUp(w)
    \/ ClaimLost(w)

AgentCall(j) ==
    \/ Heartbeat(j)
    \/ \E o \in Outcomes : ResultsBegin(j, o)
    \/ RelayBegin(j)
    \/ ReleaseBegin(j)
    \/ \E s \in Completions : CompleteBegin(j, s)

CallStep(c) ==
    \/ ResultsWrite(c)
    \/ RenewLease(c)
    \/ ReleaseWrite(c)
    \/ CallLost(c)

Admin(w) ==
    \/ Revoke(w)
    \/ Rotate(w)
    \/ Reconfigure(w)
    \/ ReleaseRunnerJobs(w)

SweepStep(s) ==
    \/ SweepReap(s)
    \/ SweepRead(s)
    \/ SweepJudge(s)
    \/ \E j \in Job : SkipJob(s, j)
    \/ StampSkipped(s)
    \/ SweepSkipped(s)
    \/ SweepLost(s)
    \/ SkipFails(s)

\* Every step but the three that also concern the run's row.
JobStep ==
    \/ Time
    \/ \E w \in Runner : ClaimStep(w) \/ Admin(w) \/ \E S \in SUBSET Job : Hello(w, S)
    \/ \E j \in Job : AgentCall(j)
    \/ \E c \in calls : CallStep(c)
    \/ \E s \in Sweeper : SweepStep(s)

Next ==
    \/ JobStep
    \/ \E r \in Run : CreateRunnerJobs(r)
    \/ \E w \in Runner : ClaimAnswer(w)
    \/ \E c \in calls : CompleteWrite(c)
    \/ \E s \in Sweeper : SweepEnd(s)

Spec == Init /\ [][Next]_vars

-------------------------------------------------------------------------------
(***************************************************************************)
(* Properties                                                              *)
(***************************************************************************)

\* A row names a lease exactly while a runner holds it, and it is the lease of
\* the latest claim: every path that takes a job away (reaper, release,
\* completion, administration) also drops the fence, and no old one returns.
LeaseIntegrity ==
    \A j \in Job :
        /\ Held(j) <=> lease[j] # NoLease
        /\ Held(j) => lease[j] = attempt[j] /\ holder[j] \in Runner

\* A job leaves its holder only because its lease lapsed, because that runner
\* is being revoked or rotated, or by a release or completion made under the
\* lease in force: a call that was overtaken by a reap and a new claim never
\* takes the work away from the runner now executing it.
HolderKeepsJob ==
    [][\A j \in Job :
         Held(j) /\ (status'[j] \notin HELD \/ lease'[j] # lease[j]) =>
            \/ lapsed[j]
            \/ holder[j] \in releasing
            \/ \E c \in calls : /\ c.job = j
                               /\ c.lease = lease[j]
                               /\ c.op \in {"release", "complete"}]_vars

\* A terminal job is never offered, held or relabelled again, whatever calls,
\* sweeps and administration are still under way when it ends.
TerminalIsFinal ==
    [][\A j \in Job : status[j] \in TERMINAL_JOB => status'[j] = status[j]]_vars

\* A job is given up as ABANDONED only after maxAttempts claims.
AbandonedWhenSpent ==
    \A j \in Job : status[j] = "ABANDONED" => attempt[j] >= MaxAttempts

PhaseOf(j) ==
    IF status[j] = "ABSENT" THEN "absent"
    ELSE IF status[j] = "QUEUED" THEN "waiting"
    ELSE IF Held(j) THEN "leased" ELSE "done"

\* The rows, the leases and the calls in flight implement the exclusive lease:
\* each handler, however it is interleaved, does to the rows one of the things
\* JobLease allows, and a call made under a lease no longer in force nothing.
Lease == INSTANCE JobLease WITH
    phase <- [j \in Job |-> PhaseOf(j)],
    token <- lease,
    grants <- attempt,
    pending <- {<<c.job, c.lease>> : c \in calls}

LeaseSpec == Lease!Spec
===============================================================================

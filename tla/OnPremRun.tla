------------------------------- MODULE OnPremRun -------------------------------
(***************************************************************************)
(* The run an on-prem pool executes: how the handlers of RunnerJobs start, *)
(* cancel and finalise the Run row (finalizeIfComplete and                 *)
(* finalizePendingRuns in apps/api/src/lib/runners.ts, the tail of         *)
(* POST /claim in apps/api/src/routes/runners.ts, POST /runs/:id/cancel in *)
(* apps/api/src/routes/runs.ts, and the cloud worker's sweep, which sees   *)
(* the same row) and what they announce to subscribers.                    *)
(*                                                                         *)
(* Every step of RunnerJobs is a step here.  The handlers that also touch  *)
(* the run are conjoined with what they do to it.                          *)
(***************************************************************************)
EXTENDS RunnerJobs

CONSTANT NoRun

ASSUME RunAssumption ==
    /\ NoRun \notin Run
    /\ Job \cap Sweeper = {}

VARIABLES
    runStatus,   \* Run.status
    started,     \* Run.startedAt is set
    finalized,   \* Run.finalizedAt is set
    fin,         \* finalizeIfComplete in progress, by who called it
    todo,        \* the runs a sweep read as pending and has yet to try
    cancelling,  \* the cancel handler of each run, between its statements
    shards,      \* the RunShard rows of a sharded run, which no worker claims
    cloud,       \* the cloud worker's sweep of the run in progress
    startedFrames,  \* run.started frames published so far
    finishedFrames  \* run.finished frames published so far

published == <<startedFrames, finishedFrames>>
runVars == <<runStatus, started, finalized, fin, todo, cancelling, shards, cloud, published>>
cloudVars == <<shards, cloud>>
allVars == <<vars, runVars>>

RunStatus == {"QUEUED", "RUNNING", "PASSED", "FAILED", "ERRORED", "CANCELLED"}
Verdict == {"PASSED", "FAILED", "ERRORED"}

\* A job's own completion call finalises, and so does a sweep.
Finalizer == Job \cup Sweeper
Fin == [phase : {"idle"}, run : {NoRun}, verdict : {"NONE"}]
       \cup [phase : {"due", "claimed"}, run : Run, verdict : {"NONE"}]
       \cup [phase : {"scored", "written"}, run : Run, verdict : Verdict]

RunTypeOK ==
    /\ runStatus \in [Run -> RunStatus]
    /\ started \in [Run -> BOOLEAN]
    /\ finalized \in [Run -> BOOLEAN]
    /\ fin \in [Finalizer -> Fin]
    /\ todo \in [Sweeper -> SUBSET Run]
    /\ cancelling \in [Run -> {"no", "read", "written"}]
    /\ shards \in [Run -> {"QUEUED", "ABANDONED", "CANCELLED"}]
    /\ cloud \in [Run -> {"idle", "reaped", "claimed", "ERRORED", "CANCELLED"}]
    /\ startedFrames \in [Run -> Nat]
    /\ finishedFrames \in [Run -> Nat]

IdleFin == [phase |-> "idle", run |-> NoRun, verdict |-> "NONE"]
Due(r) == [phase |-> "due", run |-> r, verdict |-> "NONE"]

RunInit ==
    /\ Init
    /\ runStatus = [r \in Run |-> "QUEUED"]
    /\ started = [r \in Run |-> FALSE]
    /\ finalized = [r \in Run |-> FALSE]
    /\ fin = [a \in Finalizer |-> IdleFin]
    /\ todo = [s \in Sweeper |-> {}]
    /\ cancelling = [r \in Run |-> "no"]
    /\ shards = [r \in Run |-> "QUEUED"]
    /\ cloud = [r \in Run |-> "idle"]
    /\ startedFrames = [r \in Run |-> 0]
    /\ finishedFrames = [r \in Run |-> 0]

Terminal(j) == status[j] \in TERMINAL_JOB

-------------------------------------------------------------------------------
(***************************************************************************)
(* Starting and cancelling                                                 *)
(***************************************************************************)

\* A slip: publishing for every claim, "which is what this did before".
StartRunEveryClaim(w) ==
    /\ ClaimAnswer(w)
    /\ LET r == RunOf[claim[w].job]
       IN  /\ runStatus' = [runStatus EXCEPT ![r] = "RUNNING"]
           /\ started' = [started EXCEPT ![r] = TRUE]
           /\ startedFrames' = [startedFrames EXCEPT ![r] = @ + 1]
    /\ UNCHANGED <<finishedFrames, finalized, fin, todo, cancelling, cloudVars>>

\* The tail of POST /claim: whoever finds startedAt null starts the run and
\* announces it.
StartRun(w) ==
    /\ ClaimAnswer(w)
    /\ LET r == RunOf[claim[w].job]
       IN  IF started[r]
           THEN UNCHANGED <<runStatus, started, startedFrames>>
           ELSE /\ runStatus' = [runStatus EXCEPT ![r] = "RUNNING"]
                /\ started' = [started EXCEPT ![r] = TRUE]
                /\ startedFrames' = [startedFrames EXCEPT ![r] = @ + 1]
    /\ UNCHANGED <<finishedFrames, finalized, fin, todo, cancelling, cloudVars>>

\* POST /runs/:runId/cancel reads the status ...
CancelRead(r) ==
    /\ "cancel" \in Events
    /\ runStatus[r] \in {"QUEUED", "RUNNING"}
    /\ cancelling[r] = "no"
    /\ cancelling' = [cancelling EXCEPT ![r] = "read"]
    /\ UNCHANGED <<vars, runStatus, started, finalized, fin, todo, cloudVars, published>>

\* ... writes CANCELLED, whatever the status is by then ...
CancelWrite(r) ==
    /\ cancelling[r] = "read"
    /\ cancelling' = [cancelling EXCEPT ![r] = "written"]
    /\ runStatus' = [runStatus EXCEPT ![r] = "CANCELLED"]
    /\ UNCHANGED <<vars, started, finalized, fin, todo, cloudVars, published>>

\* ... and the shards that are not over.  The jobs of the pool are left alone.
CancelShards(r) ==
    /\ cancelling[r] = "written"
    /\ cancelling' = [cancelling EXCEPT ![r] = "no"]
    /\ shards' = [shards EXCEPT ![r] = IF @ = "QUEUED" THEN "CANCELLED" ELSE @]
    /\ UNCHANGED <<vars, runStatus, started, finalized, fin, todo, cloud, published>>

-------------------------------------------------------------------------------
(***************************************************************************)
(* Finalising                                                              *)
(***************************************************************************)

\* POST /complete writes the job and then calls finalizeIfComplete, whether or
\* not the write matched.
CompleteRun(c) ==
    /\ CompleteWrite(c)
    /\ fin[c.job].phase = "idle"
    /\ fin' = [fin EXCEPT ![c.job] = Due(RunOf[c.job])]
    /\ UNCHANGED <<runStatus, started, finalized, todo, cancelling, cloudVars, published>>

\* A slip: the sweep waits for a job that an agent completed.
FinalizePendingCompleted(s) ==
    /\ SweepEnd(s)
    /\ todo[s] = {}
    /\ fin[s].phase = "idle"
    /\ todo' = [todo EXCEPT ![s] =
                  {r \in Run : ~finalized[r] /\ \E j \in Slices(r) : status[j] = "COMPLETED"}]
    /\ UNCHANGED <<runStatus, started, finalized, fin, cancelling, cloudVars, published>>

\* finalizePendingRuns: unreported runs with some terminal job.
FinalizePendingRuns(s) ==
    /\ SweepEnd(s)
    /\ todo[s] = {}
    /\ fin[s].phase = "idle"
    /\ todo' = [todo EXCEPT ![s] =
                  {r \in Run : ~finalized[r] /\ \E j \in Slices(r) : Terminal(j)}]
    /\ UNCHANGED <<runStatus, started, finalized, fin, cancelling, cloudVars, published>>

FinalizeNext(s, r) ==
    /\ fin[s].phase = "idle"
    /\ r \in todo[s]
    /\ todo' = [todo EXCEPT ![s] = @ \ {r}]
    /\ fin' = [fin EXCEPT ![s] = Due(r)]
    /\ UNCHANGED <<vars, runStatus, started, finalized, cancelling, cloudVars, published>>

\* A slip: nothing waits, and nobody looks at what is still held.
NoneQueued(r) == Slices(r) # {} /\ \A j \in Slices(r) : status[j] \notin {"ABSENT", "QUEUED"}

\* A run with no job rows at all is not done.
AllDone(r) == Slices(r) # {} /\ \A j \in Slices(r) : Terminal(j)

\* A slip: finalizedAt is written without asking whether it is null.
FinalizeClaimUnguarded(a) ==
    /\ fin[a].phase = "due"
    /\ LET r == fin[a].run
       IN  IF AllDone(r)
           THEN /\ finalized' = [finalized EXCEPT ![r] = TRUE]
                /\ fin' = [fin EXCEPT ![a] = [phase |-> "claimed", run |-> r,
                                            verdict |-> "NONE"]]
           ELSE /\ fin' = [fin EXCEPT ![a] = IdleFin]
                /\ UNCHANGED finalized
    /\ UNCHANGED <<vars, runStatus, started, todo, cancelling, cloudVars, published>>

\* finalizeIfComplete, up to its claim on finalizedAt.  A terminal job stays
\* terminal, so reading the jobs and claiming the run are one step.
FinalizeClaim(a) ==
    /\ fin[a].phase = "due"
    /\ LET r == fin[a].run
       IN  IF AllDone(r) /\ ~finalized[r]
           THEN /\ finalized' = [finalized EXCEPT ![r] = TRUE]
                /\ fin' = [fin EXCEPT ![a] = [phase |-> "claimed", run |-> r,
                                            verdict |-> "NONE"]]
           ELSE /\ fin' = [fin EXCEPT ![a] = IdleFin]
                /\ UNCHANGED finalized
    /\ UNCHANGED <<vars, runStatus, started, todo, cancelling, cloudVars, published>>

\* A slip: only the tests' own results decide.
OutcomeOfResults(r) ==
    IF \E j \in Slices(r) : result[j] = "FAILED" THEN {"FAILED"} ELSE {"PASSED", "FAILED"}

\* runOutcome over the rows as they stand.  A gate of the project may block a
\* run in which nothing failed.
Outcome(r) ==
    IF \/ \E j \in Slices(r) : status[j] = "ABANDONED"
       \/ \A j \in Slices(r) : status[j] = "SKIPPED"
    THEN {"ERRORED"}
    ELSE IF \E j \in Slices(r) : result[j] = "FAILED"
         THEN {"FAILED"}
         ELSE {"PASSED", "FAILED"}

FinalizeScore(a) ==
    /\ fin[a].phase = "claimed"
    /\ \E v \in Outcome(fin[a].run) :
          fin' = [fin EXCEPT ![a] = [phase |-> "scored", run |-> fin[a].run, verdict |-> v]]
    /\ UNCHANGED <<vars, runStatus, started, finalized, todo, cancelling, cloudVars, published>>

\* A slip: the row is written before it has been scored.
FinalizeWriteEarly(a) ==
    /\ fin[a].phase \in {"claimed", "scored"}
    /\ runStatus' = [runStatus EXCEPT ![fin[a].run] = fin[a].verdict]
    /\ fin' = [fin EXCEPT ![a] = [phase |-> "written", run |-> fin[a].run,
                                verdict |-> fin[a].verdict]]
    /\ UNCHANGED <<vars, started, finalized, todo, cancelling, cloudVars, published>>

FinalizeWrite(a) ==
    /\ fin[a].phase = "scored"
    /\ runStatus' = [runStatus EXCEPT ![fin[a].run] = fin[a].verdict]
    /\ fin' = [fin EXCEPT ![a] = [phase |-> "written", run |-> fin[a].run,
                                verdict |-> fin[a].verdict]]
    /\ UNCHANGED <<vars, started, finalized, todo, cancelling, cloudVars, published>>

FinalizePublish(a) ==
    /\ fin[a].phase = "written"
    /\ finishedFrames' = [finishedFrames EXCEPT ![fin[a].run] = @ + 1]
    /\ fin' = [fin EXCEPT ![a] = IdleFin]
    /\ UNCHANGED <<vars, runStatus, started, finalized, todo, cancelling, cloudVars, startedFrames>>

\* The API process dies, or the database refuses a statement; the error is
\* logged and swallowed.
FinalizeLost(a) ==
    /\ "crash" \in Events
    /\ fin[a].phase # "idle"
    /\ fin' = [fin EXCEPT ![a] = IdleFin]
    /\ UNCHANGED <<vars, runStatus, started, finalized, todo, cancelling, cloudVars, published>>

CancelLost(r) ==
    /\ "crash" \in Events
    /\ cancelling' = [cancelling EXCEPT ![r] = "no"]
    /\ UNCHANGED <<vars, runStatus, started, finalized, fin, todo, cloudVars, published>>

-------------------------------------------------------------------------------
(***************************************************************************)
(* The cloud worker's sweepStalledShardedRuns (apps/worker/src/processors/ *)
(* run.ts) looks at every sharded run that is live and unreported, and not *)
(* only at the cloud's own.  An on-prem sharded run has RunShard rows too, *)
(* QUEUED for ever because no worker is given them.                        *)
(***************************************************************************)

\* A candidate's shards queued for STALE_QUEUED_SHARD_MS are given up.
CloudReap(r) ==
    /\ "cloudsweep" \in Events
    /\ Cardinality(Slices(r)) > 1
    /\ runStatus[r] \in {"QUEUED", "RUNNING"}
    /\ ~finalized[r]
    /\ cloud[r] = "idle"
    /\ cloud' = [cloud EXCEPT ![r] = "reaped"]
    /\ shards' = [shards EXCEPT ![r] = IF @ = "QUEUED" THEN "ABANDONED" ELSE @]
    /\ UNCHANGED <<vars, runStatus, started, finalized, fin, todo, cancelling, published>>

\* completeShardedRun: every shard is over, so whoever sets finalizedAt reports.
CloudClaim(r) ==
    /\ cloud[r] = "reaped"
    /\ cloud' = [cloud EXCEPT ![r] = IF finalized[r] THEN "idle" ELSE "claimed"]
    /\ finalized' = [finalized EXCEPT ![r] = TRUE]
    /\ UNCHANGED <<vars, runStatus, started, fin, todo, cancelling, shards, published>>

CloudScore(r) ==
    /\ cloud[r] = "claimed"
    /\ cloud' = [cloud EXCEPT ![r] =
                    IF runStatus[r] = "CANCELLED" \/ shards[r] = "CANCELLED"
                    THEN "CANCELLED" ELSE "ERRORED"]
    /\ UNCHANGED <<vars, runStatus, started, finalized, fin, todo, cancelling, shards, published>>

\* finalizeRun writes and announces, unless the run was cancelled meanwhile.
CloudReport(r) ==
    /\ cloud[r] \in {"ERRORED", "CANCELLED"}
    /\ cloud' = [cloud EXCEPT ![r] = "idle"]
    /\ IF cloud[r] = "ERRORED" /\ runStatus[r] = "CANCELLED"
       THEN UNCHANGED <<runStatus, published>>
       ELSE /\ runStatus' = [runStatus EXCEPT ![r] = cloud[r]]
            /\ finishedFrames' = [finishedFrames EXCEPT ![r] = @ + 1]
    /\ UNCHANGED <<vars, started, finalized, fin, todo, cancelling, shards, startedFrames>>

-------------------------------------------------------------------------------
FinalizeStep(a) ==
    \/ FinalizeClaim(a)
    \/ FinalizeScore(a)
    \/ FinalizeWrite(a)
    \/ FinalizePublish(a)
    \/ FinalizeLost(a)

RunNext ==
    \/ JobStep /\ UNCHANGED runVars
    \/ \E r \in Run :
          \/ ~finalized[r] /\ CreateRunnerJobs(r) /\ UNCHANGED runVars
          \/ CancelRead(r) \/ CancelWrite(r) \/ CancelShards(r) \/ CancelLost(r)
          \/ CloudReap(r) \/ CloudClaim(r) \/ CloudScore(r) \/ CloudReport(r)
    \/ \E w \in Runner : StartRun(w)
    \/ \E c \in calls : CompleteRun(c)
    \/ \E s \in Sweeper : FinalizePendingRuns(s) \/ \E r \in Run : FinalizeNext(s, r)
    \/ \E a \in Finalizer : FinalizeStep(a)

RunSpec == RunInit /\ [][RunNext]_allVars

(***************************************************************************)
(* Fairness.  Time passes for what nobody renews; a handler that has begun *)
(* goes on; sweeps happen, because agents poll or somebody has the queue   *)
(* screen open (GET /queue and GET /pools sweep before they answer).       *)
(* Nothing makes an agent call, an administrator act, or a live agent go   *)
(* silent.                                                                 *)
(***************************************************************************)
SweepGoesOn(s) ==
    \/ SweepReap(s)
    \/ SweepRead(s)
    \/ SweepJudge(s)
    \/ \E j \in Job : SkipJob(s, j)
    \/ StampSkipped(s)
    \/ SweepSkipped(s)

FinalizeGoesOn(a) ==
    \/ FinalizeClaim(a)
    \/ FinalizeScore(a)
    \/ FinalizeWrite(a)
    \/ FinalizePublish(a)

Fairness ==
    /\ \A j \in Job : WF_allVars(LeaseLapses(j) /\ holder[j] \in dead /\ UNCHANGED runVars)
    /\ \A j \in Job : WF_allVars(GracePasses(j) /\ UNCHANGED runVars)
    /\ \A w \in Runner : WF_allVars(GoesSilent(w) /\ w \in dead /\ UNCHANGED runVars)
    /\ \A w \in Runner : WF_allVars(ClaimTake(w) /\ UNCHANGED runVars)
    /\ \A w \in Runner : WF_allVars(StartRun(w))
    /\ WF_allVars(\E c \in calls : CallStep(c) /\ UNCHANGED runVars)
    /\ WF_allVars(\E c \in calls : CompleteRun(c))
    /\ \A s \in Sweeper : WF_allVars(SweepGoesOn(s) /\ UNCHANGED runVars)
    /\ \A s \in Sweeper : WF_allVars(FinalizePendingRuns(s))
    /\ \A s \in Sweeper : WF_allVars(\E r \in Run : FinalizeNext(s, r))
    /\ \A a \in Finalizer : WF_allVars(FinalizeGoesOn(a))

FairRunSpec == RunSpec /\ Fairness

-------------------------------------------------------------------------------
(***************************************************************************)
(* Properties                                                              *)
(***************************************************************************)

\* Whoever has claimed finalizedAt and has yet to announce the run.
Finishing(r) ==
    {a \in Finalizer : fin[a].run = r /\ fin[a].phase \in {"claimed", "scored", "written"}}
CloudFinishing(r) == cloud[r] \in {"claimed", "ERRORED", "CANCELLED"}

\* A run is finished when EVERY job is finished, never before: from the moment a
\* completion or a sweep has claimed the right to report it, and for as long as it
\* is PASSED or FAILED, no job of it is waiting, held or can come back, whatever
\* agents, reapers and sweeps still have in flight.  Only the cloud sweep, which
\* says ERRORED, does not wait.
FinalisedOnlyWhenDone ==
    \A r \in Run :
        Finishing(r) # {} \/ runStatus[r] \in {"PASSED", "FAILED"} =>
            \A j \in Slices(r) : Terminal(j)

\* However many completions, sweeps and cloud sweeps find the run done at the
\* same moment, one of them writes its verdict and announces it.
OneVerdict ==
    \A r \in Run :
        /\ \A a, b \in Finishing(r) : a = b
        /\ ~(Finishing(r) # {} /\ CloudFinishing(r))
        /\ Finishing(r) # {} \/ CloudFinishing(r) =>
               finalized[r] /\ finishedFrames[r] = 0
        /\ finishedFrames[r] > 0 => finalized[r]
        /\ finishedFrames[r] <= 1

\* The right to report a run, as RunReport sees it.
ReportOf(r) ==
    IF finishedFrames[r] > 0 THEN "announced"
    ELSE IF ~finalized[r] THEN "open"
    ELSE IF Finishing(r) # {} \/ CloudFinishing(r) THEN "claimed"
    ELSE "silent"

Report == INSTANCE RunReport WITH report <- [r \in Run |-> ReportOf(r)]

\* The pool's finalisers and the cloud worker's sweep promise together what either
\* executor promises alone: a run is reported by the one process that claimed the right
\* to (the conditional update of finalizedAt in finalizeIfComplete and in
\* completeShardedRun), and once.
ReportSpec == Report!Spec

\* Several runners claim slices of a run at once, and the run is started once.
StartsOnce == \A r \in Run : startedFrames[r] <= 1

\* A run with a job every runner dropped is never green, also when the rows of its
\* slices look fine, nor is one whose jobs were all skipped (nothingRan and abandoned
\* in finalizeIfComplete).  Of a job that completed it says nothing: an agent may
\* complete without having reported a result.
NeverGreenUntested ==
    \A r \in Run :
        runStatus[r] = "PASSED" =>
            /\ \A j \in Slices(r) : status[j] # "ABANDONED"
            /\ \E j \in Slices(r) : status[j] # "SKIPPED"

\* A job held by an agent that is gone for good is taken from it.
DeadHolderLosesJob ==
    \A j \in Job, w \in Runner :
        (Held(j) /\ holder[j] = w /\ w \in dead) ~> ~(Held(j) /\ holder[j] = w)

\* A run whose whole fleet is gone is reported all the same, by the sweep: its
\* leases lapse, its waiting jobs become unservable, and the last terminal job
\* has nobody to complete it.
DeadFleetReports ==
    \A r \in Run :
        (dead = Runner /\ \E j \in Slices(r) : status[j] # "ABSENT")
            ~> (finishedFrames[r] > 0)
===============================================================================

-------------------------------- MODULE CloudRun --------------------------------
(***************************************************************************)
(* One run on QAAI's own workers (apps/worker/src/processors/run.ts): the  *)
(* jobs of its slices are delivered, perhaps twice; workers claim, execute *)
(* and record their slices; whoever finds every slice over reports.  The   *)
(* scheduler sweeps, the API cancels, processes die and stall.             *)
(*                                                                         *)
(* A run that is not sharded has one slice, no RunShard row, and nobody    *)
(* but its own execution, or the listener for dead jobs, to report it.     *)
(***************************************************************************)
EXTENDS Naturals, FiniteSets

CONSTANTS
    Slice,      \* shard indexes
    Whole,      \* the one slice of a run that is not sharded
    Exec,       \* deliveries of jobs; bounds how often one is redelivered
    SliceOf,    \* the slice each delivery carries
    Mortal,     \* deliveries whose worker may die
    Slow,       \* deliveries whose worker may miss its beats and live
    Test,
    PartOf,     \* TestResult.shardIndex
    Results,    \* what a test may come to
    Gates,      \* what the gates may say of a run without failures
    Refusals,   \* what queueRun may be refused, and what of it is not queued
    Sweep,      \* sweepStalledShardedRuns of the scheduler
    Events      \* what the environment may do

ASSUME CloudAssumption ==
    /\ Whole \in Slice
    /\ SliceOf \in [Exec -> Slice]
    /\ Mortal \subseteq Exec
    /\ Slow \subseteq Exec
    /\ PartOf \in [Test -> Slice]
    /\ Sweep \notin Exec
    /\ Results \subseteq {"PASSED", "FAILED", "SKIPPED"}
    /\ Gates \subseteq {"PASSED", "FAILED"}
    /\ Refusals \subseteq [lost : SUBSET Slice \ {{}}, gone : SUBSET Slice]

VARIABLES
    sharded,     \* Run.shardCount > 1
    queueing,    \* queueRun, once the enqueueing of every slice is settled:
                 \* what it has yet to write, and the slices that were refused
    runStatus,   \* Run.status
    startedAt,   \* Run.startedAt is set
    finalizedAt, \* "null", or who set it
    stop,        \* Run.stopRequestedAt is set
    shard,       \* RunShard.status
    stale,       \* heartbeatAt older than STALE_SHARD_MS while RUNNING, or
                 \* queuedAt older than STALE_QUEUED_SHARD_MS while QUEUED
    result,      \* TestResult.status; "placeholder" is the SKIPPED of POST /runs
    job,         \* the BullMQ job of each slice: waiting, gone, or delivered
    exec,        \* processRun, by delivery
    fin,         \* completeShardedRun, finalizeRun and failRunFromDeadJob
    cancelling,  \* POST /runs/:id/cancel, between its statements
    finishedFrames  \* run.finished frames and notifications sent

run == <<runStatus, startedAt, finalizedAt, stop>>
rows == <<shard, stale, result>>
vars == <<sharded, queueing, run, rows, job, exec, fin, cancelling, finishedFrames>>

Live == {"QUEUED", "RUNNING"}
Verdict == {"PASSED", "FAILED", "ERRORED", "CANCELLED"}
RUN_SHARD_TERMINAL == {"COMPLETED", "FAILED", "CANCELLED", "ABANDONED"}

Slices == IF sharded THEN Slice ELSE {Whole}
Tests(s) == IF sharded THEN {t \in Test : PartOf[t] = s} ELSE Test

ExecPhase == {"idle", "claim", "start", "poll", "test", "record", "done", "dead"}
Queueing == [phase : {"over", "mark", "close"}, lost : SUBSET Slice]
FinPhase == {"idle", "reap", "reapqueued", "look", "claim", "count", "write",
             "publish", "rescue"}

Execution == [phase : ExecPhase, todo : SUBSET Test, failed : BOOLEAN,
              why : {"end", "cancelled", "stopped", "errored"}]
Reporting == [phase : FinPhase, broken : BOOLEAN, cancelled : BOOLEAN,
              verdict : Verdict \cup {"NONE"}]

CloudTypeOK ==
    /\ sharded \in BOOLEAN
    /\ queueing \in Queueing
    /\ runStatus \in Live \cup Verdict
    /\ startedAt \in BOOLEAN
    /\ finalizedAt \in {"null", "completion", "deadjob", "unqueued"}
    /\ stop \in BOOLEAN
    /\ shard \in [Slice -> Live \cup RUN_SHARD_TERMINAL]
    /\ stale \in [Slice -> BOOLEAN]
    /\ result \in [Test -> Results \cup {"placeholder"}]
    /\ job \in [Slice -> Exec \cup {"waiting", "gone"}]
    /\ exec \in [Exec -> Execution]
    /\ fin \in [Exec \cup {Sweep} -> Reporting]
    /\ cancelling \in {"no", "read", "written"}
    /\ finishedFrames \in Nat

IdleExec == [phase |-> "idle", todo |-> {}, failed |-> FALSE, why |-> "end"]
IdleFin == [phase |-> "idle", broken |-> FALSE, cancelled |-> FALSE, verdict |-> "NONE"]
Fin(p) == [IdleFin EXCEPT !.phase = p]
Writing(v) == [Fin("write") EXCEPT !.verdict = v]

\* The run and its rows as POST /runs, or queueRun after its enqueueing, leave
\* them: placeholders, and jobs.  POST /runs that fails to enqueue a slice leaves
\* it to the sweep: its job is one that is never delivered.  queueRun has the
\* refused slices in hand, and a refusal may come of a job that is there.
Init ==
    /\ sharded \in BOOLEAN
    /\ \/ /\ queueing = [phase |-> "over", lost |-> {}]
          /\ job = [s \in Slice |-> "waiting"]
       \/ \E refusal \in Refusals :
             /\ sharded
             /\ queueing = [phase |-> "mark", lost |-> refusal.lost]
             /\ job = [s \in Slice |-> IF s \in refusal.gone THEN "gone" ELSE "waiting"]
    /\ runStatus = "QUEUED"
    /\ startedAt = FALSE
    /\ finalizedAt = "null"
    /\ stop = FALSE
    /\ shard = [s \in Slice |-> "QUEUED"]
    /\ stale = [s \in Slice |-> FALSE]
    /\ result = [t \in Test |-> "placeholder"]
    /\ exec = [e \in Exec |-> IdleExec]
    /\ fin = [f \in Exec \cup {Sweep} |-> IdleFin]
    /\ cancelling = "no"
    /\ finishedFrames = 0

Executing(e) == exec[e].phase \in {"claim", "start", "poll", "test", "record"}
Holds(e) == exec[e].phase \in {"start", "poll", "test", "record"}
Claimed(f) == fin[f].phase \in {"count", "write", "publish"}

-------------------------------------------------------------------------------
(***************************************************************************)
(* processRun                                                              *)
(***************************************************************************)

Goes(e, p) == exec' = [exec EXCEPT ![e].phase = p]

Ends(e, p) == exec' = [exec EXCEPT ![e] = [IdleExec EXCEPT !.phase = p]]

\* The job is over, unless BullMQ has given it to somebody else meanwhile.
JobOver(e) == job' = [s \in Slice |-> IF job[s] = e THEN "gone" ELSE job[s]]

\* processRun returns without having executed anything.
Declines(e) == Ends(e, "done") /\ JobOver(e) /\ UNCHANGED fin

\* The job is delivered and the run is read.  A job that was never enqueued, or
\* was lost with Redis, is one that is never delivered.
Deliver(e) ==
    LET s == SliceOf[e]
    IN  /\ s \in Slices
        /\ exec[e].phase = "idle"
        /\ job[s] = "waiting"
        /\ IF runStatus = "CANCELLED" \/ (sharded /\ finalizedAt # "null")
           THEN /\ Ends(e, "done")
                /\ job' = [job EXCEPT ![s] = "gone"]
           ELSE /\ job' = [job EXCEPT ![s] = e]
                /\ exec' = [exec EXCEPT ![e].phase = IF sharded THEN "claim" ELSE "start",
                                        ![e].todo = Tests(s)]
        /\ UNCHANGED <<sharded, queueing, run, rows, fin, cancelling, finishedFrames>>

\* The rows change, and of these the clock starts anew.
Mark(new, fresh) ==
    /\ shard' = new
    /\ stale' = [s \in Slice |-> stale[s] /\ s \notin fresh]

Abandon(dead) == Mark([s \in Slice |-> IF s \in dead THEN "ABANDONED" ELSE shard[s]], dead)

Claimable(s) == shard[s] = "QUEUED" \/ (shard[s] = "RUNNING" /\ stale[s])

\* The conditional update of claimShard is the lock.
ClaimShard(e) ==
    LET s == SliceOf[e]
    IN  /\ exec[e].phase = "claim"
        /\ \/ /\ Claimable(s)
              /\ Mark([shard EXCEPT ![s] = "RUNNING"], {s})
              /\ Goes(e, "start")
              /\ UNCHANGED <<job, fin>>
           \/ /\ ~Claimable(s)
              /\ Declines(e)
              /\ UNCHANGED <<shard, stale>>
        /\ UNCHANGED <<sharded, queueing, run, result, cancelling, finishedFrames>>

\* The start is conditional on startedAt, and without shards on the status.
Start(e) ==
    /\ exec[e].phase = "start"
    /\ \/ /\ IF sharded THEN ~startedAt ELSE runStatus \in Live
          /\ runStatus' = "RUNNING"
          /\ startedAt' = TRUE
          /\ Goes(e, "poll")
          /\ UNCHANGED <<job, fin>>
       \/ /\ sharded /\ startedAt
          /\ Goes(e, "poll")
          /\ UNCHANGED <<runStatus, startedAt, job, fin>>
       \/ /\ ~sharded /\ runStatus \notin Live
          /\ Declines(e)
          /\ UNCHANGED <<runStatus, startedAt>>
    /\ UNCHANGED <<sharded, queueing, finalizedAt, stop, rows, cancelling,
                   finishedFrames>>

\* Before each test the loop looks whether it should stop.
Stops == runStatus = "CANCELLED" \/ stop \/ (sharded /\ finalizedAt # "null")

Poll(e) ==
    /\ exec[e].phase = "poll"
    /\ exec' = [exec EXCEPT ![e] =
         IF @.todo = {} THEN [@ EXCEPT !.phase = "record"]
         ELSE IF ~Stops THEN [@ EXCEPT !.phase = "test"]
         ELSE [@ EXCEPT !.phase = "record",
                        !.why = IF runStatus = "CANCELLED" THEN "cancelled"
                                ELSE IF stop THEN "stopped" ELSE "end"]]
    /\ UNCHANGED <<sharded, queueing, run, rows, job, fin, cancelling, finishedFrames>>

\* A test is executed and its result persisted; SKIPPED where it cannot run here.
Persist(e) ==
    /\ exec[e].phase = "test"
    /\ \E t \in exec[e].todo, v \in Results :
          /\ result' = [result EXCEPT ![t] = v]
          /\ exec' = [exec EXCEPT ![e].phase = "poll", ![e].todo = @ \ {t},
                                  ![e].failed = @ \/ v = "FAILED"]
    /\ UNCHANGED <<sharded, queueing, run, shard, stale, job, fin, cancelling,
                   finishedFrames>>

\* Something throws inside the try, or the preflight finds nothing attemptable.
Errs(e) ==
    /\ "throw" \in Events
    /\ exec[e].phase \in {"start", "poll", "test"}
    /\ exec' = [exec EXCEPT ![e].phase = "record", ![e].why = "errored"]
    /\ UNCHANGED <<sharded, queueing, run, rows, job, fin, cancelling, finishedFrames>>

ShardStatus(why) ==
    IF why = "cancelled" THEN "CANCELLED" ELSE IF why = "errored" THEN "FAILED" ELSE "COMPLETED"

\* The shard is marked, by its index and whatever it says, before anybody asks
\* whether the run is over.
RecordShard(e) ==
    /\ sharded
    /\ exec[e].phase = "record"
    /\ Mark([shard EXCEPT ![SliceOf[e]] = ShardStatus(exec[e].why)], {SliceOf[e]})
    /\ Ends(e, "done")
    /\ fin' = [fin EXCEPT ![e] = Fin("reap")]
    /\ UNCHANGED <<sharded, queueing, run, result, job, cancelling, finishedFrames>>

AnyFailed == \E t \in Test : result[t] = "FAILED"

\* runOutcome.  A gate may block what has not failed; failures may all be
\* triaged as the environment's.
Outcome(failed) == IF failed THEN {"FAILED", "ERRORED"} ELSE Gates

\* The counts of the process, or of the rows where it did not get to the end.
FinalizeWhole(e) ==
    /\ ~sharded
    /\ exec[e].phase = "record"
    /\ Ends(e, "done")
    /\ \E v \in Outcome(IF exec[e].why \in {"cancelled", "stopped"}
                        THEN AnyFailed ELSE exec[e].failed) :
          fin' = [fin EXCEPT ![e] = Writing(
                    CASE exec[e].why = "cancelled" -> "CANCELLED"
                      [] exec[e].why = "errored" -> "ERRORED"
                      [] OTHER -> v)]
    /\ UNCHANGED <<sharded, queueing, run, rows, job, cancelling, finishedFrames>>

-------------------------------------------------------------------------------
(***************************************************************************)
(* Reporting: completeShardedRun by an execution or by the sweep,          *)
(* finalizeRun, and failRunFromDeadJob                                     *)
(***************************************************************************)

FinGoes(f, p) == fin' = [fin EXCEPT ![f].phase = p]

FinEnds(f) ==
    /\ fin' = [fin EXCEPT ![f] = IdleFin]
    /\ JobOver(f)

\* A slip: the sweep that looked only at runs already started.
SweepBeginsRunning ==
    /\ sharded /\ fin[Sweep].phase = "idle"
    /\ runStatus = "RUNNING" /\ finalizedAt = "null"
    /\ FinGoes(Sweep, "reap")
    /\ UNCHANGED <<sharded, queueing, run, rows, job, exec, cancelling, finishedFrames>>

SweepBegins ==
    /\ sharded /\ fin[Sweep].phase = "idle"
    /\ runStatus \in Live /\ finalizedAt = "null"
    /\ FinGoes(Sweep, "reap")
    /\ UNCHANGED <<sharded, queueing, run, rows, job, exec, cancelling, finishedFrames>>

\* reapDeadShards: the silent ones ...
ReapSilent(f) ==
    /\ fin[f].phase = "reap"
    /\ Abandon({s \in Slice : shard[s] = "RUNNING" /\ stale[s]})
    /\ FinGoes(f, IF f = Sweep THEN "reapqueued" ELSE "look")
    /\ UNCHANGED <<sharded, queueing, run, result, job, exec, cancelling,
                   finishedFrames>>

\* ... and, for the sweep alone, those nobody ever picked up.
ReapQueued(f) ==
    /\ fin[f].phase = "reapqueued"
    /\ Abandon({s \in Slice : shard[s] = "QUEUED" /\ stale[s]})
    /\ FinGoes(f, "look")
    /\ UNCHANGED <<sharded, queueing, run, result, job, exec, cancelling,
                   finishedFrames>>

\* A slip: a slice that waits its turn is not waited for.
PendingRunning == {s \in Slice : shard[s] = "RUNNING"}

Pending == {s \in Slice : shard[s] \notin RUN_SHARD_TERMINAL}

\* A slip: a slice whose worker died counts as done.
BrokenFailed == \E s \in Slice : shard[s] = "FAILED"

Broken == \E s \in Slice : shard[s] \in {"ABANDONED", "FAILED"}

\* The rows are read once; what is reported is what they say now.
LookAtShards(f) ==
    /\ fin[f].phase = "look"
    /\ \/ /\ Pending # {}
          /\ FinEnds(f)
       \/ /\ Pending = {}
          /\ fin' = [fin EXCEPT ![f] = [Fin("claim") EXCEPT
                !.broken = Broken, !.cancelled = \E s \in Slice : shard[s] = "CANCELLED"]]
          /\ UNCHANGED job
    /\ UNCHANGED <<sharded, queueing, run, rows, exec, cancelling, finishedFrames>>

\* A slip: everyone who finds the run over reports it.
ClaimRunUnguarded(f) ==
    /\ fin[f].phase = "claim"
    /\ finalizedAt' = "completion"
    /\ FinGoes(f, "count")
    /\ UNCHANGED <<sharded, queueing, runStatus, startedAt, stop, rows, job,
                   exec, cancelling, finishedFrames>>

ClaimRun(f) ==
    /\ fin[f].phase = "claim"
    /\ \/ /\ finalizedAt = "null"
          /\ finalizedAt' = "completion"
          /\ FinGoes(f, "count")
          /\ UNCHANGED job
       \/ /\ finalizedAt # "null"
          /\ FinEnds(f)
          /\ UNCHANGED finalizedAt
    /\ UNCHANGED <<sharded, queueing, runStatus, startedAt, stop, rows, exec,
                   cancelling, finishedFrames>>

Count(f) ==
    /\ fin[f].phase = "count"
    /\ \E v \in Outcome(AnyFailed) :
          fin' = [fin EXCEPT ![f] = Writing(
                    IF fin[f].cancelled \/ runStatus = "CANCELLED" THEN "CANCELLED"
                    ELSE IF fin[f].broken THEN "ERRORED" ELSE v)]
    /\ UNCHANGED <<sharded, queueing, run, rows, job, exec, cancelling, finishedFrames>>

\* A slip: the row is written before it is scored.
WriteVerdictEarly(f) ==
    /\ fin[f].phase \in {"count", "write"}
    /\ runStatus' = fin[f].verdict
    /\ FinGoes(f, "publish")
    /\ UNCHANGED <<sharded, queueing, startedAt, finalizedAt, stop, rows, job,
                   exec, cancelling, finishedFrames>>

\* finalizeRun never relabels a cancelled run, and then says nothing of it.
WriteVerdict(f) ==
    /\ fin[f].phase = "write"
    /\ \/ /\ runStatus # "CANCELLED" \/ fin[f].verdict = "CANCELLED"
          /\ runStatus' = fin[f].verdict
          /\ FinGoes(f, "publish")
          /\ UNCHANGED job
       \/ /\ runStatus = "CANCELLED" /\ fin[f].verdict # "CANCELLED"
          /\ FinEnds(f)
          /\ UNCHANGED runStatus
    /\ UNCHANGED <<sharded, queueing, startedAt, finalizedAt, stop, rows, exec,
                   cancelling, finishedFrames>>

Publish(f) ==
    /\ fin[f].phase = "publish"
    /\ finishedFrames' = finishedFrames + 1
    /\ FinEnds(f)
    /\ UNCHANGED <<sharded, queueing, run, rows, exec, cancelling>>

\* failRunFromDeadJob.
Rescue(f) ==
    /\ fin[f].phase = "rescue"
    /\ \/ /\ finalizedAt = "null" /\ runStatus \in Live
          /\ finalizedAt' = "deadjob"
          /\ fin' = [fin EXCEPT ![f] = Writing("ERRORED")]
          /\ UNCHANGED job
       \/ /\ finalizedAt # "null" \/ runStatus \notin Live
          /\ FinEnds(f)
          /\ UNCHANGED finalizedAt
    /\ UNCHANGED <<sharded, queueing, runStatus, startedAt, stop, rows, exec,
                   cancelling, finishedFrames>>

-------------------------------------------------------------------------------
(***************************************************************************)
(* Jobs, processes and time                                                *)
(***************************************************************************)

MayFail(f) == Claimed(f) => "lostclaim" \in Events

\* processRun throws outside its try.  A sharded job has one attempt; the API
\* gives an unsharded one three.
JobThrows(e) ==
    LET s == SliceOf[e]
    IN  /\ "throw" \in Events
        /\ exec[e].phase \in {"claim", "record"} \/ fin[e].phase \notin {"idle", "rescue"}
        /\ job[s] = e /\ MayFail(e)
        /\ Ends(e, "done")
        /\ \/ fin' = [fin EXCEPT ![e] = Fin("rescue")] /\ UNCHANGED job
           \/ /\ ~sharded
              /\ fin' = [fin EXCEPT ![e] = IdleFin]
              /\ job' = [job EXCEPT ![s] = "waiting"]
        /\ UNCHANGED <<sharded, queueing, run, rows, cancelling, finishedFrames>>

WorkerDies(e) ==
    /\ e \in Mortal
    /\ Executing(e) \/ fin[e].phase # "idle"
    /\ MayFail(e)
    /\ Ends(e, "dead")
    /\ fin' = [fin EXCEPT ![e] = IdleFin]
    /\ UNCHANGED <<sharded, queueing, run, rows, job, cancelling, finishedFrames>>

SweepDies ==
    /\ "sweepdie" \in Events
    /\ fin[Sweep].phase # "idle" /\ MayFail(Sweep)
    /\ fin' = [fin EXCEPT ![Sweep] = IdleFin]
    /\ UNCHANGED <<sharded, queueing, run, rows, job, exec, cancelling, finishedFrames>>

\* BullMQ misses the renewal of the job's lock and delivers it again, or gives
\* the job up and fires 'failed'.
Stalled(e) ==
    LET s == SliceOf[e]
    IN  /\ job[s] = e
        /\ exec[e].phase = "dead" \/ e \in Slow
        /\ \/ job' = [job EXCEPT ![s] = "waiting"] /\ UNCHANGED fin
           \/ /\ exec[e].phase = "dead" /\ fin[e].phase = "idle"
              /\ fin' = [fin EXCEPT ![e] = Fin("rescue")]
              /\ UNCHANGED job
        /\ UNCHANGED <<sharded, queueing, run, rows, exec, cancelling, finishedFrames>>

\* Five minutes without a beat: the worker is dead, or paused, or has not come
\* to the point where the beats begin.  Or two hours in the queue.
FallsSilent(s) ==
    /\ sharded /\ shard[s] \in Live /\ ~stale[s]
    /\ shard[s] = "RUNNING" => \A e \in Exec \ Slow : SliceOf[e] = s => ~Holds(e)
    /\ stale' = [stale EXCEPT ![s] = TRUE]
    /\ UNCHANGED <<sharded, queueing, run, shard, result, job, exec, fin,
                   cancelling, finishedFrames>>

Beat(e) ==
    LET s == SliceOf[e]
    IN  /\ sharded /\ exec[e].phase \in {"poll", "test"}
        /\ shard[s] = "RUNNING" /\ stale[s]
        /\ stale' = [stale EXCEPT ![s] = FALSE]
        /\ UNCHANGED <<sharded, queueing, run, shard, result, job, exec, fin,
                       cancelling, finishedFrames>>

-------------------------------------------------------------------------------
(***************************************************************************)
(* The API                                                                 *)
(***************************************************************************)

CancelRead ==
    /\ "cancel" \in Events /\ cancelling = "no"
    /\ runStatus \in Live
    /\ cancelling' = "read"
    /\ UNCHANGED <<sharded, queueing, run, rows, job, exec, fin, finishedFrames>>

CancelWrite ==
    /\ cancelling = "read"
    /\ runStatus' = "CANCELLED"
    /\ cancelling' = "written"
    /\ UNCHANGED <<sharded, queueing, startedAt, finalizedAt, stop, rows, job,
                   exec, fin, finishedFrames>>

CancelShards ==
    /\ cancelling = "written"
    /\ LET running == {s \in Slice : sharded /\ shard[s] \in Live}
       IN  Mark([s \in Slice |-> IF s \in running THEN "CANCELLED" ELSE shard[s]], running)
    /\ cancelling' = "no"
    /\ UNCHANGED <<sharded, queueing, run, result, job, exec, fin, finishedFrames>>

\* Fail-fast in the loop, its sweep, or a person: one conditional update.
RequestStop ==
    /\ "stop" \in Events
    /\ ~stop /\ runStatus \in Live
    /\ stop' = TRUE
    /\ UNCHANGED <<sharded, queueing, runStatus, startedAt, finalizedAt, rows,
                   job, exec, fin, cancelling, finishedFrames>>

-------------------------------------------------------------------------------
(***************************************************************************)
(* queueRun, with the slices that were refused                             *)
(***************************************************************************)

\* By their indexes and whatever they say: a slice whose job was taken after all
\* may be running.
MarkUnqueued ==
    /\ queueing.phase = "mark"
    /\ Abandon(queueing.lost)
    /\ queueing' = [queueing EXCEPT !.phase = IF queueing.lost = Slice THEN "close" ELSE "over"]
    /\ UNCHANGED <<sharded, run, result, job, exec, fin, cancelling, finishedFrames>>

\* With every slice refused it closes the run, whatever the run says, and sends
\* no frame.
CloseUnqueued ==
    /\ queueing.phase = "close"
    /\ queueing' = [queueing EXCEPT !.phase = "over"]
    /\ runStatus' = "ERRORED"
    /\ finalizedAt' = IF finalizedAt = "null" THEN "unqueued" ELSE finalizedAt
    /\ UNCHANGED <<sharded, startedAt, stop, rows, job, exec, fin, cancelling,
                   finishedFrames>>

-------------------------------------------------------------------------------
Execute(e) ==
    \/ ClaimShard(e) \/ Start(e) \/ Poll(e) \/ Persist(e)
    \/ RecordShard(e) \/ FinalizeWhole(e)

Finalize(f) ==
    \/ ReapSilent(f) \/ ReapQueued(f) \/ LookAtShards(f) \/ ClaimRun(f)
    \/ Count(f) \/ WriteVerdict(f) \/ Publish(f) \/ Rescue(f)

Next ==
    \/ \E e \in Exec : Deliver(e) \/ Execute(e) \/ Errs(e)
    \/ SweepBegins
    \/ \E f \in Exec \cup {Sweep} : Finalize(f)
    \/ \E e \in Exec : JobThrows(e) \/ WorkerDies(e) \/ Stalled(e) \/ Beat(e)
    \/ SweepDies
    \/ \E s \in Slice : FallsSilent(s)
    \/ CancelRead \/ CancelWrite \/ CancelShards \/ RequestStop
    \/ MarkUnqueued \/ CloseUnqueued

Spec == Init /\ [][Next]_vars

\* Whoever executes or reports goes on, and tests end; time passes; the
\* scheduler ticks.  Nothing has a job delivered, or queueRun come to its end.
FairSpec ==
    /\ Spec
    /\ \A e \in Exec : WF_vars(Execute(e))
    /\ \A f \in Exec \cup {Sweep} : WF_vars(Finalize(f))
    /\ \A s \in Slice : WF_vars(FallsSilent(s))
    /\ WF_vars(SweepBegins)

-------------------------------------------------------------------------------
(***************************************************************************)
(* What reporting promises                                                 *)
(***************************************************************************)

\* The right to report a sharded run is finalizedAt, and its holder is whoever
\* set it; there is no such right for a run that is not sharded.
ReportOf ==
    IF ~sharded \/ finalizedAt = "null" THEN "open"
    ELSE IF finalizedAt = "unqueued" THEN "closed"
    ELSE IF finishedFrames = 1 THEN "announced"
    ELSE IF \E f \in Exec \cup {Sweep} : Claimed(f) THEN "claimed"
    ELSE "silent"

Report == INSTANCE RunReport WITH Run <- {Whole}, report <- [r \in {Whole} |-> ReportOf]

\* A sharded run is reported by one process, once, whichever executions, sweeps
\* and dead jobs find it over, and whatever dies meanwhile (finalizedAt in
\* completeShardedRun and failRunFromDeadJob).
ReportSpec == Report!Spec

\* "A sharded run is finished when EVERY shard is finished. Never before": the
\* conditional updates of the shards keep a slice that was given up, taken over
\* or cancelled from starting once the run was found over.
FinalisedWhenAllDone ==
    sharded /\ finalizedAt = "completion" => Pending = {}

\* A run is green only over a suite somebody went through: not over slices that
\* died, were given up, or stopped because the run was already reported.  Only
\* a stop that was asked for leaves placeholders in a green run.
NeverGreenUnexecuted ==
    runStatus = "PASSED" /\ ~stop => \A t \in Test : result[t] # "placeholder"

\* Workers die, jobs are refused, lost, throw or are redelivered, and with nobody
\* left to execute it the scheduler still has a sharded run reported, unless
\* queueRun itself closed it because no slice of it could be queued.
ShardedRunReports == sharded => <>(finishedFrames > 0 \/ finalizedAt = "unqueued")
===============================================================================

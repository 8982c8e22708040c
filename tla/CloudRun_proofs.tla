---------------------------- MODULE CloudRun_proofs ----------------------------
(***************************************************************************)
(* What holds of CloudRun for any number of slices, tests and deliveries,  *)
(* whatever the environment may do.                                        *)
(***************************************************************************)
EXTENDS CloudRun, TLAPS

Reporter == Exec \cup {Sweep}

ExecTyped == exec \in [Exec -> Execution]

\* A verdict is decided before it is written.
FinTyped ==
    /\ fin \in [Reporter -> Reporting]
    /\ \A f \in Reporter : fin[f].phase \in {"write", "publish"} => fin[f].verdict \in Verdict

RowsTyped ==
    /\ shard \in [Slice -> Live \cup RUN_SHARD_TERMINAL]
    /\ stale \in [Slice -> BOOLEAN]
    /\ result \in [Test -> Results \cup {"placeholder"}]
    /\ job \in [Slice -> Exec \cup {"waiting", "gone"}]

RunTyped ==
    /\ sharded \in BOOLEAN
    /\ queueing \in Queueing
    /\ runStatus \in Live \cup Verdict
    /\ startedAt \in BOOLEAN
    /\ finalizedAt \in {"null", "completion", "deadjob", "unqueued"}
    /\ stop \in BOOLEAN
    /\ cancelling \in {"no", "read", "written"}
    /\ finishedFrames \in Nat

\* A process reports once it no longer executes.
Separate == \A e \in Exec : exec[e].phase \notin {"done", "dead"} => fin[e].phase = "idle"

CloudInv == ExecTyped /\ FinTyped /\ RowsTyped /\ RunTyped /\ Separate

-------------------------------------------------------------------------------
(***************************************************************************)
(* The helpers of the handlers                                             *)
(***************************************************************************)

\* An execution moves, and no other does.
LEMMA ExecMoves ==
    ASSUME ExecTyped, NEW e \in Exec, NEW x \in Execution, exec' = [exec EXCEPT ![e] = x]
    PROVE  /\ ExecTyped'
           /\ exec'[e] = x
           /\ \A d \in Exec : d # e => exec'[d] = exec[d]
BY DEF ExecTyped

\* One execution changes its phase and nothing else.
LEMMA GoesMoves ==
    ASSUME ExecTyped, NEW e \in Exec, NEW p \in ExecPhase, Goes(e, p)
    PROVE  /\ ExecTyped'
           /\ exec'[e].phase = p /\ exec'[e].todo = exec[e].todo /\ exec'[e].why = exec[e].why
           /\ \A d \in Exec : d # e => exec'[d] = exec[d]
BY DEF ExecTyped, Execution, Goes

\* One execution ends, forgetting what it had in hand.
LEMMA EndsMoves ==
    ASSUME ExecTyped, NEW e \in Exec, NEW p \in {"done", "dead"}, Ends(e, p)
    PROVE  /\ ExecTyped'
           /\ exec'[e].phase = p
           /\ \A d \in Exec : d # e => exec'[d] = exec[d]
<1>1. PICK x : x = [IdleExec EXCEPT !.phase = p]
  OBVIOUS
<1>2. x \in Execution /\ x.phase = p
  BY <1>1 DEF IdleExec, Execution, ExecPhase
<1> QED  BY <1>1, <1>2, ExecMoves DEF Ends

\* A report moves, and no other does.
LEMMA FinMoves ==
    ASSUME FinTyped, NEW f \in Reporter, NEW y \in Reporting, fin' = [fin EXCEPT ![f] = y],
           y.phase \in {"write", "publish"} => y.verdict \in Verdict
    PROVE  /\ FinTyped'
           /\ fin'[f] = y
           /\ \A g \in Reporter : g # f => fin'[g] = fin[g]
BY DEF FinTyped

\* One report changes its phase and keeps what it knows.
LEMMA FinGoesMoves ==
    ASSUME FinTyped, NEW f \in Reporter, NEW p \in FinPhase, FinGoes(f, p),
           p \in {"write", "publish"} => fin[f].verdict \in Verdict
    PROVE  /\ FinTyped'
           /\ fin'[f].phase = p /\ fin'[f].broken = fin[f].broken
           /\ fin'[f].cancelled = fin[f].cancelled /\ fin'[f].verdict = fin[f].verdict
           /\ \A g \in Reporter : g # f => fin'[g] = fin[g]
<1>1. fin'[f].phase = p /\ fin'[f].broken = fin[f].broken
      /\ fin'[f].cancelled = fin[f].cancelled /\ fin'[f].verdict = fin[f].verdict
  BY DEF FinTyped, Reporting, FinGoes
<1>2. fin' \in [Reporter -> Reporting] /\ \A g \in Reporter : g # f => fin'[g] = fin[g]
  BY DEF FinTyped, Reporting, FinGoes
<1> QED  BY <1>1, <1>2 DEF FinTyped

\* What a report may begin as.
LEMMA FinRows ==
    /\ IdleFin \in Reporting /\ IdleFin.phase = "idle"
    /\ \A p \in FinPhase : Fin(p) \in Reporting /\ Fin(p).phase = p /\ Fin(p).verdict = "NONE"
    /\ \A v \in Verdict : /\ Writing(v) \in Reporting /\ Writing(v).phase = "write"
                          /\ Writing(v).verdict = v
<1>1. IdleFin \in Reporting /\ IdleFin.phase = "idle"
  BY DEF IdleFin, Reporting, FinPhase
<1>2. ASSUME NEW p \in FinPhase
      PROVE  Fin(p) \in Reporting /\ Fin(p).phase = p /\ Fin(p).verdict = "NONE"
  BY DEF Fin, IdleFin, Reporting
<1>3. ASSUME NEW v \in Verdict
      PROVE  Writing(v) \in Reporting /\ Writing(v).phase = "write" /\ Writing(v).verdict = v
  BY DEF Writing, Fin, IdleFin, Reporting, FinPhase
<1> QED  BY <1>1, <1>2, <1>3

\* A verdict is decided.
LEMMA FinWrites ==
    ASSUME FinTyped, NEW f \in Reporter, NEW v \in Verdict, fin' = [fin EXCEPT ![f] = Writing(v)]
    PROVE  /\ FinTyped'
           /\ fin'[f] = Writing(v)
           /\ \A g \in Reporter : g # f => fin'[g] = fin[g]
<1>1. PICK y \in Reporting : y = Writing(v) /\ y.verdict \in Verdict
  BY FinRows
<1> QED  BY <1>1, FinMoves

\* One report ends, and with it the job it belonged to.
LEMMA FinEndsMoves ==
    ASSUME FinTyped, RowsTyped, NEW f \in Reporter, FinEnds(f)
    PROVE  /\ FinTyped' /\ job' \in [Slice -> Exec \cup {"waiting", "gone"}]
           /\ fin'[f] = IdleFin
           /\ \A g \in Reporter : g # f => fin'[g] = fin[g]
<1>1. FinTyped' /\ fin'[f] = IdleFin /\ \A g \in Reporter : g # f => fin'[g] = fin[g]
  BY FinRows, FinMoves DEF FinEnds
<1>2. job' \in [Slice -> Exec \cup {"waiting", "gone"}]
  BY DEF RowsTyped, FinEnds, JobOver
<1> QED  BY <1>1, <1>2

\* Slices are marked with a status they may have.
LEMMA MarkTyped ==
    ASSUME RowsTyped, NEW new \in [Slice -> Live \cup RUN_SHARD_TERMINAL], NEW fresh,
           Mark(new, fresh), result' \in [Test -> Results \cup {"placeholder"}],
           job' \in [Slice -> Exec \cup {"waiting", "gone"}]
    PROVE  RowsTyped'
BY DEF RowsTyped, Mark

-------------------------------------------------------------------------------
(***************************************************************************)
(* Types, and the separation of executing from reporting                   *)
(***************************************************************************)

\* A step of one execution that does not report.
LEMMA ExecKeeps ==
    ASSUME CloudInv, NEW e \in Exec, UNCHANGED fin, ExecTyped', RowsTyped', RunTyped',
           exec[e].phase \notin {"done", "dead"},
           \A d \in Exec : d # e => exec'[d] = exec[d]
    PROVE  CloudInv'
BY DEF CloudInv, Separate, FinTyped

\* A step of one report that executes nothing.
LEMMA FinKeeps ==
    ASSUME CloudInv, NEW f \in Reporter, UNCHANGED exec, FinTyped', RowsTyped', RunTyped',
           fin[f].phase # "idle" \/ f = Sweep \/ exec[f].phase = "dead",
           \A g \in Reporter : g # f => fin'[g] = fin[g]
    PROVE  CloudInv'
<1>1. Separate'
  BY CloudAssumption DEF CloudInv, Separate, Reporter
<1> QED  BY <1>1 DEF CloudInv, ExecTyped

\* A step in which one execution comes to an end, and may go on to report.
LEMMA EndKeeps ==
    ASSUME CloudInv, NEW e \in Exec, ExecTyped', FinTyped', RowsTyped', RunTyped',
           exec'[e].phase \in {"done", "dead"},
           \A d \in Exec : d # e => exec'[d] = exec[d] /\ fin'[d] = fin[d]
    PROVE  CloudInv'
BY DEF CloudInv, Separate

\* A step that moves neither.
LEMMA NeitherMoves ==
    ASSUME CloudInv, UNCHANGED <<exec, fin>>, RowsTyped', RunTyped'
    PROVE  CloudInv'
BY DEF CloudInv, ExecTyped, FinTyped, Separate

\* A step that leaves the run alone leaves its columns typed.
LEMMA RunStays ==
    ASSUME RunTyped, UNCHANGED <<sharded, queueing, run, cancelling, finishedFrames>>
    PROVE  RunTyped'
BY DEF RunTyped, run

\* So does one that leaves the rows of its slices and tests alone.
LEMMA RowsStay == ASSUME RowsTyped, UNCHANGED <<rows, job>> PROVE RowsTyped'
BY DEF RowsTyped, rows

\* A job that is declined ends its execution, and executes nothing.
LEMMA DeclinesTyped ==
    ASSUME ExecTyped, RowsTyped, NEW e \in Exec, Declines(e)
    PROVE  /\ ExecTyped' /\ exec'[e].phase = "done" /\ UNCHANGED fin
           /\ job' \in [Slice -> Exec \cup {"waiting", "gone"}]
           /\ \A d \in Exec : d # e => exec'[d] = exec[d]
BY EndsMoves DEF Declines, JobOver, RowsTyped

\* A job is delivered and the run is read.
LEMMA DeliverKeeps ==
    ASSUME CloudInv, NEW e \in Exec, Deliver(e)
    PROVE  CloudInv'
<1> DEFINE s == SliceOf[e]
<1>1. /\ s \in Slice /\ exec[e].phase = "idle" /\ RunTyped' /\ UNCHANGED <<rows, fin>>
  BY CloudAssumption, RunStays DEF Deliver, CloudInv
<1>2. CASE Ends(e, "done") /\ job' = [job EXCEPT ![s] = "gone"]
  <2>1. ExecTyped' /\ \A d \in Exec : d # e => exec'[d] = exec[d]
    BY <1>2, EndsMoves DEF CloudInv
  <2>2. RowsTyped'
    BY <1>1, <1>2 DEF CloudInv, RowsTyped, rows
  <2> QED  BY <1>1, <2>1, <2>2, ExecKeeps
<1>3. CASE /\ job' = [job EXCEPT ![s] = e]
           /\ exec' = [exec EXCEPT ![e].phase = IF sharded THEN "claim" ELSE "start",
                                   ![e].todo = Tests(s)]
  <2>1. PICK p \in {"claim", "start"}, todo \in SUBSET Test :
           exec' = [exec EXCEPT ![e].phase = p, ![e].todo = todo]
    BY <1>3 DEF Tests
  <2>2. ExecTyped' /\ \A d \in Exec : d # e => exec'[d] = exec[d]
    BY <2>1 DEF CloudInv, ExecTyped, Execution, ExecPhase
  <2>3. RowsTyped'
    BY <1>1, <1>3 DEF CloudInv, RowsTyped, rows
  <2> QED  BY <1>1, <2>2, <2>3, ExecKeeps
<1> QED  BY <1>2, <1>3 DEF Deliver

\* The conditional update of a claim takes the slice, or the job is declined.
LEMMA ClaimShardKeeps ==
    ASSUME CloudInv, NEW e \in Exec, ClaimShard(e)
    PROVE  CloudInv'
<1>1. SliceOf[e] \in Slice /\ exec[e].phase = "claim" /\ RunTyped' /\ UNCHANGED result
  BY CloudAssumption, RunStays DEF ClaimShard, CloudInv
<1>2. ASSUME Mark([shard EXCEPT ![SliceOf[e]] = "RUNNING"], {SliceOf[e]}), Goes(e, "start"),
             UNCHANGED <<job, fin>>
      PROVE  CloudInv'
  <2>1. [shard EXCEPT ![SliceOf[e]] = "RUNNING"] \in [Slice -> Live \cup RUN_SHARD_TERMINAL]
    BY DEF CloudInv, RowsTyped, Live
  <2>2. RowsTyped'
    BY <1>1, <1>2, <2>1, MarkTyped DEF CloudInv, RowsTyped
  <2>3. ExecTyped' /\ \A d \in Exec : d # e => exec'[d] = exec[d]
    BY <1>2, GoesMoves DEF CloudInv, ExecPhase
  <2> QED  BY <1>1, <1>2, <2>2, <2>3, ExecKeeps
<1>3. ASSUME Declines(e), UNCHANGED <<shard, stale>>
      PROVE  CloudInv'
  <2>1. /\ ExecTyped' /\ UNCHANGED fin /\ job' \in [Slice -> Exec \cup {"waiting", "gone"}]
        /\ \A d \in Exec : d # e => exec'[d] = exec[d]
    BY <1>3, DeclinesTyped DEF CloudInv
  <2>2. RowsTyped'
    BY <1>1, <1>3, <2>1 DEF CloudInv, RowsTyped
  <2> QED  BY <1>1, <2>1, <2>2, ExecKeeps
<1> QED  BY <1>2, <1>3 DEF ClaimShard

\* The run is announced as started, or found to be so, or the job is declined.
LEMMA StartKeeps ==
    ASSUME CloudInv, NEW e \in Exec, Start(e)
    PROVE  CloudInv'
<1>1. /\ exec[e].phase = "start"
      /\ UNCHANGED <<sharded, queueing, finalizedAt, stop, rows, cancelling, finishedFrames>>
  BY DEF Start
<1>2. RunTyped'
  BY <1>1 DEF Start, CloudInv, RunTyped, Live
<1>3. CASE Goes(e, "poll") /\ UNCHANGED <<job, fin>>
  <2>1. ExecTyped' /\ \A d \in Exec : d # e => exec'[d] = exec[d]
    BY <1>3, GoesMoves DEF CloudInv, ExecPhase
  <2>2. RowsTyped'
    BY <1>1, <1>3, RowsStay DEF CloudInv
  <2> QED  BY <1>1, <1>2, <1>3, <2>1, <2>2, ExecKeeps
<1>4. CASE Declines(e)
  <2>1. /\ ExecTyped' /\ UNCHANGED fin /\ job' \in [Slice -> Exec \cup {"waiting", "gone"}]
        /\ \A d \in Exec : d # e => exec'[d] = exec[d]
    BY <1>4, DeclinesTyped DEF CloudInv
  <2>2. RowsTyped'
    BY <1>1, <2>1 DEF CloudInv, RowsTyped, rows
  <2> QED  BY <1>1, <1>2, <2>1, <2>2, ExecKeeps
<1> QED  BY <1>3, <1>4 DEF Start

\* The loop looks whether to stop.
LEMMA PollKeeps ==
    ASSUME CloudInv, NEW e \in Exec, Poll(e)
    PROVE  CloudInv'
<1>1. exec[e].phase = "poll" /\ UNCHANGED fin /\ RunTyped' /\ RowsTyped' /\ exec[e] \in Execution
  BY RunStays, RowsStay DEF Poll, CloudInv, ExecTyped
<1>2. PICK x : /\ exec' = [exec EXCEPT ![e] = x]
               /\ x = IF exec[e].todo = {} THEN [exec[e] EXCEPT !.phase = "record"]
                      ELSE IF ~Stops THEN [exec[e] EXCEPT !.phase = "test"]
                      ELSE [exec[e] EXCEPT !.phase = "record",
                               !.why = IF runStatus = "CANCELLED" THEN "cancelled"
                                       ELSE IF stop THEN "stopped" ELSE "end"]
  BY DEF Poll, CloudInv, ExecTyped
<1>3. x \in Execution
  BY <1>1, <1>2 DEF Execution, ExecPhase
<1>4. ExecTyped' /\ \A d \in Exec : d # e => exec'[d] = exec[d]
  BY <1>2, <1>3, ExecMoves DEF CloudInv
<1> QED  BY <1>1, <1>4, ExecKeeps

\* A result is persisted.
LEMMA PersistKeeps ==
    ASSUME CloudInv, NEW e \in Exec, Persist(e)
    PROVE  CloudInv'
<1>1. exec[e].phase = "test" /\ UNCHANGED <<shard, stale, job, fin>> /\ RunTyped'
      /\ exec[e] \in Execution
  BY RunStays DEF Persist, CloudInv, ExecTyped
<1>2. PICK t \in exec[e].todo, v \in Results :
          /\ result' = [result EXCEPT ![t] = v]
          /\ exec' = [exec EXCEPT ![e].phase = "poll", ![e].todo = @ \ {t},
                                  ![e].failed = @ \/ v = "FAILED"]
  BY DEF Persist
<1>3. PICK x : x = [exec[e] EXCEPT !.phase = "poll", !.todo = exec[e].todo \ {t},
                                   !.failed = exec[e].failed \/ v = "FAILED"]
  OBVIOUS
<1>4. exec' = [exec EXCEPT ![e] = x]
  BY <1>2, <1>3 DEF CloudInv, ExecTyped, Execution
<1>5. x \in Execution
  BY <1>1, <1>3 DEF Execution, ExecPhase
<1>6. ExecTyped' /\ \A d \in Exec : d # e => exec'[d] = exec[d]
  BY <1>4, <1>5, ExecMoves DEF CloudInv
<1>7. RowsTyped'
  BY <1>1, <1>2 DEF CloudInv, RowsTyped, Execution
<1> QED  BY <1>1, <1>6, <1>7, ExecKeeps

\* Something throws inside the try.
LEMMA ErrsKeeps ==
    ASSUME CloudInv, NEW e \in Exec, Errs(e)
    PROVE  CloudInv'
<1>1. exec[e].phase \in {"start", "poll", "test"} /\ UNCHANGED fin /\ RunTyped' /\ RowsTyped'
  BY RunStays, RowsStay DEF Errs, CloudInv
<1>2. ExecTyped' /\ \A d \in Exec : d # e => exec'[d] = exec[d]
  BY DEF Errs, CloudInv, ExecTyped, Execution, ExecPhase
<1> QED  BY <1>1, <1>2, ExecKeeps

\* A slice is marked, and its execution goes on to report.
LEMMA RecordShardKeeps ==
    ASSUME CloudInv, NEW e \in Exec, RecordShard(e)
    PROVE  CloudInv'
<1>1. RunTyped' /\ UNCHANGED <<result, job>>
  BY RunStays DEF RecordShard, CloudInv
<1>2. [shard EXCEPT ![SliceOf[e]] = ShardStatus(exec[e].why)]
         \in [Slice -> Live \cup RUN_SHARD_TERMINAL]
  BY DEF CloudInv, RowsTyped, ShardStatus, RUN_SHARD_TERMINAL
<1>3. RowsTyped'
  BY <1>1, <1>2, MarkTyped DEF RecordShard, CloudInv, RowsTyped
<1>4. ExecTyped' /\ exec'[e].phase = "done" /\ \A d \in Exec : d # e => exec'[d] = exec[d]
  BY EndsMoves DEF RecordShard, CloudInv
<1>5. FinTyped' /\ \A g \in Reporter : g # e => fin'[g] = fin[g]
  <2>1. "reap" \in FinPhase /\ e \in Reporter
    BY DEF FinPhase, Reporter
  <2> QED  BY <2>1, FinRows, FinMoves DEF RecordShard, CloudInv
<1> QED  BY <1>1, <1>3, <1>4, <1>5, EndKeeps DEF Reporter

\* What the counts say is a verdict.
LEMMA OutcomeVerdict == \A b \in BOOLEAN : Outcome(b) \subseteq {"PASSED", "FAILED", "ERRORED"}
BY CloudAssumption DEF Outcome

\* A run without shards has its verdict decided by its own execution.
LEMMA FinalizeWholeKeeps ==
    ASSUME CloudInv, NEW e \in Exec, FinalizeWhole(e)
    PROVE  CloudInv'
<1>1. RunTyped' /\ RowsTyped' /\ e \in Reporter
  BY RunStays, RowsStay DEF FinalizeWhole, CloudInv, Reporter
<1>2. ExecTyped' /\ exec'[e].phase = "done" /\ \A d \in Exec : d # e => exec'[d] = exec[d]
  BY EndsMoves DEF FinalizeWhole, CloudInv
<1>3. PICK w \in Verdict : fin' = [fin EXCEPT ![e] = Writing(w)]
  <2>1. PICK v \in {"PASSED", "FAILED", "ERRORED"} :
           fin' = [fin EXCEPT ![e] = Writing(
                     CASE exec[e].why = "cancelled" -> "CANCELLED"
                       [] exec[e].why = "errored" -> "ERRORED"
                       [] OTHER -> v)]
    <3>1. exec[e].failed \in BOOLEAN /\ AnyFailed \in BOOLEAN
      BY DEF CloudInv, ExecTyped, Execution, AnyFailed
    <3> QED  BY <3>1, OutcomeVerdict DEF FinalizeWhole
  <2> QED  BY <2>1 DEF Verdict
<1>4. FinTyped' /\ \A g \in Reporter : g # e => fin'[g] = fin[g]
  BY <1>1, <1>3, FinWrites DEF CloudInv
<1> QED  BY <1>1, <1>2, <1>4, EndKeeps DEF Reporter

\* The sweep takes up a run.
LEMMA SweepBeginsKeeps == CloudInv /\ SweepBegins => CloudInv'
<1> SUFFICES ASSUME CloudInv, SweepBegins PROVE CloudInv'
  OBVIOUS
<1>1. RunTyped' /\ RowsTyped' /\ UNCHANGED exec /\ Sweep \in Reporter
  BY RunStays, RowsStay DEF SweepBegins, CloudInv, Reporter
<1>2. FinTyped' /\ \A g \in Reporter : g # Sweep => fin'[g] = fin[g]
  BY <1>1, FinGoesMoves DEF SweepBegins, CloudInv, FinPhase
<1> QED  BY <1>1, <1>2, FinKeeps

\* Giving slices up leaves the rows typed.
LEMMA AbandonTyped ==
    ASSUME RowsTyped, NEW dead, Abandon(dead), UNCHANGED <<result, job>>
    PROVE  RowsTyped'
<1>1. [s \in Slice |-> IF s \in dead THEN "ABANDONED" ELSE shard[s]]
         \in [Slice -> Live \cup RUN_SHARD_TERMINAL]
  BY DEF RowsTyped, RUN_SHARD_TERMINAL
<1> QED  BY <1>1, MarkTyped DEF Abandon, RowsTyped

\* Slices that fell silent are given up.
LEMMA ReapKeeps ==
    ASSUME CloudInv, NEW f \in Reporter, ReapSilent(f) \/ ReapQueued(f)
    PROVE  CloudInv'
<1>1. /\ RunTyped' /\ RowsTyped' /\ UNCHANGED exec /\ fin[f].phase # "idle"
  BY RunStays, AbandonTyped DEF ReapSilent, ReapQueued, CloudInv
<1>2. \E p \in {"reapqueued", "look"} : FinGoes(f, p)
  BY DEF ReapSilent, ReapQueued
<1>3. FinTyped' /\ \A g \in Reporter : g # f => fin'[g] = fin[g]
  BY <1>2, FinGoesMoves DEF CloudInv, FinPhase
<1> QED  BY <1>1, <1>3, FinKeeps

\* The rows are read, and are over or not.
LEMMA LookKeeps ==
    ASSUME CloudInv, NEW f \in Reporter, LookAtShards(f)
    PROVE  CloudInv'
<1>1. /\ RunTyped' /\ UNCHANGED <<rows, exec>> /\ fin[f].phase # "idle"
  BY RunStays DEF LookAtShards, CloudInv
<1>2. CASE FinEnds(f)
  <2>1. /\ FinTyped' /\ job' \in [Slice -> Exec \cup {"waiting", "gone"}]
        /\ \A g \in Reporter : g # f => fin'[g] = fin[g]
    BY <1>2, FinEndsMoves DEF CloudInv
  <2>2. RowsTyped'
    BY <1>1, <2>1 DEF CloudInv, RowsTyped, rows
  <2> QED  BY <1>1, <2>1, <2>2, FinKeeps
<1>3. CASE /\ fin' = [fin EXCEPT ![f] = [Fin("claim") EXCEPT
                 !.broken = Broken, !.cancelled = \E s \in Slice : shard[s] = "CANCELLED"]]
           /\ UNCHANGED job
  <2>1. PICK b \in BOOLEAN, c \in BOOLEAN :
           fin' = [fin EXCEPT ![f] = [Fin("claim") EXCEPT !.broken = b, !.cancelled = c]]
    BY <1>3 DEF Broken
  <2>2. PICK y : y = [Fin("claim") EXCEPT !.broken = b, !.cancelled = c]
    OBVIOUS
  <2>3. Fin("claim") \in Reporting /\ Fin("claim").phase = "claim"
    BY FinRows DEF FinPhase
  <2>4. y \in Reporting /\ y.phase = "claim"
    BY <2>2, <2>3 DEF Reporting
  <2>5. FinTyped' /\ \A g \in Reporter : g # f => fin'[g] = fin[g]
    BY <2>1, <2>2, <2>4, FinMoves DEF CloudInv
  <2>6. RowsTyped'
    BY <1>1, <1>3, RowsStay DEF CloudInv
  <2> QED  BY <1>1, <2>5, <2>6, FinKeeps
<1> QED  BY <1>2, <1>3 DEF LookAtShards

\* A report that ends, or goes on without touching a slice.
LEMMA ReportKeeps ==
    ASSUME CloudInv, NEW f \in Reporter, fin[f].phase # "idle", UNCHANGED <<rows, exec>>,
           RunTyped',
           \/ FinEnds(f)
           \/ /\ UNCHANGED job
              /\ \/ \E p \in {"count", "publish"} : /\ FinGoes(f, p)
                                                    /\ p = "publish" => fin[f].verdict \in Verdict
                 \/ \E v \in Verdict : fin' = [fin EXCEPT ![f] = Writing(v)]
    PROVE  CloudInv'
<1>1. CASE FinEnds(f)
  <2>1. /\ FinTyped' /\ job' \in [Slice -> Exec \cup {"waiting", "gone"}]
        /\ \A g \in Reporter : g # f => fin'[g] = fin[g]
    BY <1>1, FinEndsMoves DEF CloudInv
  <2>2. RowsTyped'
    BY <2>1 DEF CloudInv, RowsTyped, rows
  <2> QED  BY <2>1, <2>2, FinKeeps
<1>2. ASSUME UNCHANGED job, NEW p \in {"count", "publish"}, FinGoes(f, p),
             p = "publish" => fin[f].verdict \in Verdict
      PROVE  CloudInv'
  <2>1. FinTyped' /\ \A g \in Reporter : g # f => fin'[g] = fin[g]
    BY <1>2, FinGoesMoves DEF CloudInv, FinPhase
  <2>2. RowsTyped'
    BY <1>2, RowsStay DEF CloudInv
  <2> QED  BY <2>1, <2>2, FinKeeps
<1>3. ASSUME UNCHANGED job, NEW v \in Verdict, fin' = [fin EXCEPT ![f] = Writing(v)]
      PROVE  CloudInv'
  <2>1. FinTyped' /\ \A g \in Reporter : g # f => fin'[g] = fin[g]
    BY <1>3, FinWrites DEF CloudInv
  <2>2. RowsTyped'
    BY <1>3, RowsStay DEF CloudInv
  <2> QED  BY <2>1, <2>2, FinKeeps
<1> QED  BY <1>1, <1>2, <1>3

\* The report is claimed, or somebody else has it.
LEMMA ClaimRunKeeps ==
    ASSUME CloudInv, NEW f \in Reporter, ClaimRun(f)
    PROVE  CloudInv'
<1>1. fin[f].phase = "claim" /\ UNCHANGED <<rows, exec>> /\ RunTyped'
  BY DEF ClaimRun, CloudInv, RunTyped
<1> QED  BY <1>1, ReportKeeps DEF ClaimRun

\* The results are counted to a verdict.
LEMMA CountKeeps ==
    ASSUME CloudInv, NEW f \in Reporter, Count(f)
    PROVE  CloudInv'
<1>1. fin[f].phase = "count" /\ UNCHANGED <<rows, exec, job>> /\ RunTyped'
  BY RunStays DEF Count, CloudInv
<1>2. PICK v \in {"PASSED", "FAILED", "ERRORED"} :
         fin' = [fin EXCEPT ![f] = Writing(
                   IF fin[f].cancelled \/ runStatus = "CANCELLED" THEN "CANCELLED"
                   ELSE IF fin[f].broken THEN "ERRORED" ELSE v)]
  <2>1. AnyFailed \in BOOLEAN
    BY DEF AnyFailed
  <2> QED  BY <2>1, OutcomeVerdict DEF Count
<1>3. \E v2 \in Verdict : fin' = [fin EXCEPT ![f] = Writing(v2)]
  BY <1>2 DEF Verdict
<1> QED  BY <1>1, <1>3, ReportKeeps

\* The verdict is written, unless the run was cancelled.
LEMMA WriteVerdictKeeps ==
    ASSUME CloudInv, NEW f \in Reporter, WriteVerdict(f)
    PROVE  CloudInv'
<1>1. fin[f].phase = "write" /\ UNCHANGED <<rows, exec>> /\ fin[f].verdict \in Verdict
  BY DEF WriteVerdict, CloudInv, FinTyped
<1>2. RunTyped'
  BY <1>1 DEF WriteVerdict, CloudInv, RunTyped
<1> QED  BY <1>1, <1>2, ReportKeeps DEF WriteVerdict

\* The end of the run is announced.
LEMMA PublishKeeps ==
    ASSUME CloudInv, NEW f \in Reporter, Publish(f)
    PROVE  CloudInv'
<1>1. fin[f].phase = "publish" /\ UNCHANGED <<rows, exec>> /\ RunTyped'
  BY DEF Publish, CloudInv, RunTyped, run
<1> QED  BY <1>1, ReportKeeps DEF Publish

\* The listener for dead jobs claims the report, or leaves it.
LEMMA RescueKeeps ==
    ASSUME CloudInv, NEW f \in Reporter, Rescue(f)
    PROVE  CloudInv'
<1>1. fin[f].phase = "rescue" /\ UNCHANGED <<rows, exec>> /\ RunTyped' /\ "ERRORED" \in Verdict
  BY DEF Rescue, CloudInv, RunTyped, Verdict
<1> QED  BY <1>1, ReportKeeps DEF Rescue

\* A report is dropped or handed to the listener.
LEMMA FinResets ==
    ASSUME FinTyped, NEW f \in Reporter,
           fin' = [fin EXCEPT ![f] = IdleFin] \/ fin' = [fin EXCEPT ![f] = Fin("rescue")]
    PROVE  /\ FinTyped'
           /\ fin'[f].phase \in {"idle", "rescue"}
           /\ \A g \in Reporter : g # f => fin'[g] = fin[g]
<1>1. PICK y \in Reporting : fin' = [fin EXCEPT ![f] = y] /\ y.phase \in {"idle", "rescue"}
  BY FinRows DEF FinPhase
<1> QED  BY <1>1, FinMoves

\* A job throws outside its try and is rescued or tried again.
LEMMA JobThrowsKeeps ==
    ASSUME CloudInv, NEW e \in Exec, JobThrows(e)
    PROVE  CloudInv'
<1>1. e \in Reporter /\ RunTyped' /\ UNCHANGED rows
  BY RunStays DEF JobThrows, CloudInv, Reporter
<1>2. ExecTyped' /\ exec'[e].phase = "done" /\ \A d \in Exec : d # e => exec'[d] = exec[d]
  BY EndsMoves DEF JobThrows, CloudInv
<1>3. FinTyped' /\ \A g \in Reporter : g # e => fin'[g] = fin[g]
  BY <1>1, FinResets DEF JobThrows, CloudInv
<1>4. RowsTyped'
  BY <1>1, CloudAssumption DEF JobThrows, CloudInv, RowsTyped, rows
<1> QED  BY <1>1, <1>2, <1>3, <1>4, EndKeeps DEF Reporter

\* A worker dies with what it was doing.
LEMMA WorkerDiesKeeps ==
    ASSUME CloudInv, NEW e \in Exec, WorkerDies(e)
    PROVE  CloudInv'
<1>1. e \in Reporter /\ RunTyped' /\ RowsTyped'
  BY RunStays, RowsStay DEF WorkerDies, CloudInv, Reporter
<1>2. ExecTyped' /\ exec'[e].phase = "dead" /\ \A d \in Exec : d # e => exec'[d] = exec[d]
  BY EndsMoves DEF WorkerDies, CloudInv
<1>3. FinTyped' /\ \A g \in Reporter : g # e => fin'[g] = fin[g]
  BY <1>1, FinResets DEF WorkerDies, CloudInv
<1> QED  BY <1>1, <1>2, <1>3, EndKeeps DEF Reporter

\* The scheduler dies in the middle of its sweep.
LEMMA SweepDiesKeeps == CloudInv /\ SweepDies => CloudInv'
<1> SUFFICES ASSUME CloudInv, SweepDies PROVE CloudInv'
  OBVIOUS
<1>1. Sweep \in Reporter /\ RunTyped' /\ RowsTyped' /\ UNCHANGED exec
  BY RunStays, RowsStay DEF SweepDies, CloudInv, Reporter
<1>2. FinTyped' /\ \A g \in Reporter : g # Sweep => fin'[g] = fin[g]
  BY <1>1, FinResets DEF SweepDies, CloudInv
<1> QED  BY <1>1, <1>2, FinKeeps

\* A job stalls, to be delivered again or given up.
LEMMA StalledKeeps ==
    ASSUME CloudInv, NEW e \in Exec, Stalled(e)
    PROVE  CloudInv'
<1>1. e \in Reporter /\ RunTyped' /\ UNCHANGED <<rows, exec>>
  BY RunStays DEF Stalled, CloudInv, Reporter
<1>2. CASE UNCHANGED fin /\ job' = [job EXCEPT ![SliceOf[e]] = "waiting"]
  <2>1. RowsTyped'
    BY <1>1, <1>2 DEF CloudInv, RowsTyped, rows
  <2> QED  BY <1>1, <1>2, <2>1, NeitherMoves
<1>3. CASE exec[e].phase = "dead" /\ fin' = [fin EXCEPT ![e] = Fin("rescue")] /\ UNCHANGED job
  <2>1. FinTyped' /\ \A g \in Reporter : g # e => fin'[g] = fin[g]
    BY <1>1, <1>3, FinResets DEF CloudInv
  <2>2. RowsTyped'
    BY <1>1, <1>3, RowsStay DEF CloudInv
  <2> QED  BY <1>1, <1>3, <2>1, <2>2, FinKeeps
<1> QED  BY <1>2, <1>3 DEF Stalled

\* Clocks run and beat; the API cancels and stops; queueRun gives refused slices up.
LEMMA OthersKeep ==
    ASSUME CloudInv,
           \/ \E s \in Slice : FallsSilent(s)
           \/ \E e \in Exec : Beat(e)
           \/ CancelRead \/ CancelWrite \/ CancelShards \/ RequestStop
           \/ MarkUnqueued \/ CloseUnqueued
    PROVE  CloudInv'
<1>1. ASSUME NEW s \in Slice, FallsSilent(s) PROVE CloudInv'
  <2>1. RunTyped' /\ UNCHANGED <<exec, fin>>
    BY <1>1, RunStays DEF FallsSilent, CloudInv
  <2>2. RowsTyped'
    BY <1>1 DEF FallsSilent, CloudInv, RowsTyped
  <2> QED  BY <2>1, <2>2, NeitherMoves
<1>2. ASSUME NEW e \in Exec, Beat(e) PROVE CloudInv'
  <2>1. RunTyped' /\ UNCHANGED <<exec, fin>>
    BY <1>2, RunStays DEF Beat, CloudInv
  <2>2. RowsTyped'
    BY <1>2 DEF Beat, CloudInv, RowsTyped
  <2> QED  BY <2>1, <2>2, NeitherMoves
<1>3. CASE CancelRead \/ CancelWrite \/ RequestStop
  <2>1. UNCHANGED <<exec, fin>> /\ RowsTyped'
    BY <1>3, RowsStay DEF CancelRead, CancelWrite, RequestStop, CloudInv
  <2>2. RunTyped'
    BY <1>3 DEF CancelRead, CancelWrite, RequestStop, CloudInv, RunTyped, run, Verdict
  <2> QED  BY <2>1, <2>2, NeitherMoves
<1>4. CASE CancelShards
  <2> DEFINE running == {s \in Slice : sharded /\ shard[s] \in Live}
             new == [s \in Slice |-> IF s \in running THEN "CANCELLED" ELSE shard[s]]
  <2>1. Mark(new, running) /\ UNCHANGED <<exec, fin, result, job>>
    BY <1>4 DEF CancelShards
  <2>2. new \in [Slice -> Live \cup RUN_SHARD_TERMINAL]
    BY DEF CloudInv, RowsTyped, RUN_SHARD_TERMINAL
  <2> HIDE DEF new, running
  <2>3. RowsTyped'
    BY <2>1, <2>2, MarkTyped DEF CloudInv, RowsTyped
  <2>4. RunTyped'
    BY <1>4 DEF CancelShards, CloudInv, RunTyped, run
  <2> QED  BY <2>1, <2>3, <2>4, NeitherMoves
<1>5. CASE MarkUnqueued
  <2>1. UNCHANGED <<exec, fin>> /\ RowsTyped'
    BY <1>5, AbandonTyped DEF MarkUnqueued, CloudInv
  <2>2. queueing' \in Queueing
    BY <1>5 DEF MarkUnqueued, CloudInv, RunTyped, Queueing
  <2>3. RunTyped'
    BY <1>5, <2>2 DEF MarkUnqueued, CloudInv, RunTyped, run
  <2> QED  BY <2>1, <2>3, NeitherMoves
<1>6. CASE CloseUnqueued
  <2>1. UNCHANGED <<exec, fin>> /\ RowsTyped'
    BY <1>6, RowsStay DEF CloseUnqueued, CloudInv
  <2>2. queueing' \in Queueing
    BY <1>6 DEF CloseUnqueued, CloudInv, RunTyped, Queueing
  <2>3. RunTyped'
    BY <1>6, <2>2 DEF CloseUnqueued, CloudInv, RunTyped, Verdict
  <2> QED  BY <2>1, <2>3, NeitherMoves
<1> QED  BY <1>1, <1>2, <1>3, <1>4, <1>5, <1>6

\* It holds at first.
LEMMA CloudInit == Init => CloudInv
<1> SUFFICES ASSUME Init PROVE CloudInv
  OBVIOUS
<1>1. IdleExec \in Execution /\ IdleExec.phase = "idle"
  BY DEF IdleExec, Execution, ExecPhase
<1>2. ExecTyped
  BY <1>1 DEF Init, ExecTyped
<1>3. FinTyped /\ \A f \in Reporter : fin[f].phase = "idle"
  BY FinRows DEF Init, FinTyped, Reporter
<1>4. RowsTyped
  BY DEF Init, RowsTyped, Live
<1>5. RunTyped
  <2>1. queueing \in Queueing
    BY CloudAssumption DEF Init, Queueing
  <2> QED  BY <2>1 DEF Init, RunTyped, Live
<1> QED  BY <1>2, <1>3, <1>4, <1>5 DEF CloudInv, Separate, Reporter

\* It is kept by every step.
LEMMA CloudStep == CloudInv /\ [Next]_vars => CloudInv'
<1> SUFFICES ASSUME CloudInv, [Next]_vars PROVE CloudInv'
  OBVIOUS
<1>1. ASSUME NEW e \in Exec, Deliver(e) \/ Execute(e) \/ Errs(e) PROVE CloudInv'
  BY <1>1, DeliverKeeps, ClaimShardKeeps, StartKeeps, PollKeeps, PersistKeeps, ErrsKeeps,
     RecordShardKeeps, FinalizeWholeKeeps DEF Execute
<1>2. ASSUME NEW f \in Reporter, Finalize(f) PROVE CloudInv'
  BY <1>2, ReapKeeps, LookKeeps, ClaimRunKeeps, CountKeeps, WriteVerdictKeeps, PublishKeeps,
     RescueKeeps DEF Finalize
<1>3. ASSUME NEW e \in Exec, JobThrows(e) \/ WorkerDies(e) \/ Stalled(e) \/ Beat(e) PROVE CloudInv'
  BY <1>3, JobThrowsKeeps, WorkerDiesKeeps, StalledKeeps, OthersKeep
<1>4. CASE UNCHANGED vars
  BY <1>4, NeitherMoves, RunStays, RowsStay DEF vars, CloudInv
<1> QED
  BY <1>1, <1>2, <1>3, <1>4, SweepBeginsKeeps, SweepDiesKeeps, OthersKeep DEF Next, Reporter

\* So it holds always.
LEMMA CloudInvariant == Spec => []CloudInv
BY CloudInit, CloudStep, PTL DEF Spec

\* In every reachable state the run, its rows, the executions and the reports are of
\* their types; no run gets a status that is not a verdict (run.ts, finalizeRun: the
\* row is written once the verdict has been decided).
THEOREM CloudTyped == Spec => []CloudTypeOK
<1>1. CloudInv => CloudTypeOK
  BY DEF CloudInv, ExecTyped, FinTyped, RowsTyped, RunTyped, CloudTypeOK, Reporter
<1> QED  BY <1>1, CloudInvariant, PTL

-------------------------------------------------------------------------------
(***************************************************************************)
(* One report: what a step does to the right to report a run               *)
(***************************************************************************)

Others(f) == \A g \in Reporter : g # f => fin'[g] = fin[g]

\* Nobody has claimed the right to report, or nobody ever will.
Unclaimed == {"null", "unqueued"}

Stays ==
    /\ UNCHANGED <<finalizedAt, finishedFrames>>
    /\ \A g \in Reporter : Claimed(g)' <=> Claimed(g)

Takes(f) ==
    /\ finalizedAt = "null" /\ finalizedAt' \notin Unclaimed /\ UNCHANGED finishedFrames
    /\ Claimed(f)' /\ Others(f)

Announces(f) ==
    /\ Claimed(f) /\ ~Claimed(f)' /\ Others(f)
    /\ UNCHANGED finalizedAt /\ finishedFrames' = finishedFrames + 1

Silences(f) ==
    /\ Claimed(f) /\ ~Claimed(f)' /\ Others(f)
    /\ UNCHANGED <<finalizedAt, finishedFrames>>

Closes ==
    /\ finalizedAt = "null" /\ finalizedAt' = "unqueued"
    /\ UNCHANGED <<fin, finishedFrames>>

Right ==
    /\ finalizedAt \in Unclaimed => finishedFrames = 0 /\ \A f \in Reporter : ~Claimed(f)
    /\ finishedFrames \in {0, 1}
    /\ finishedFrames = 1 => \A f \in Reporter : ~Claimed(f)
    /\ \A f, g \in Reporter : Claimed(f) /\ Claimed(g) => f = g

\* Whether a run is sharded is decided when it is made.
LEMMA ShardedStays == [Next]_vars => sharded' = sharded
BY DEF Next, Deliver, Execute, Errs, ClaimShard, Start, Poll, Persist, RecordShard, FinalizeWhole,
   SweepBegins, Finalize, ReapSilent, ReapQueued, LookAtShards, ClaimRun, Count, WriteVerdict,
   Publish, Rescue, JobThrows, WorkerDies, Stalled, Beat, SweepDies, FallsSilent, CancelRead,
   CancelWrite, CancelShards, RequestStop, MarkUnqueued, CloseUnqueued, vars

\* A process that does not hold the right goes on, and does not come to hold it.
LEMMA ClaimStays ==
    ASSUME NEW f \in Reporter, Others(f), Claimed(f)' <=> Claimed(f),
           UNCHANGED <<finalizedAt, finishedFrames>>
    PROVE  Stays
BY DEF Stays, Others, Claimed

\* Where no report moves, the right to report stays where it is.
LEMMA FinStays ==
    ASSUME UNCHANGED <<fin, finalizedAt, finishedFrames>>
    PROVE  Stays
BY DEF Stays, Claimed

\* The steps of a report.
LEMMA FinalizeEffect ==
    ASSUME CloudInv, sharded, NEW f \in Reporter, Finalize(f)
    PROVE  Stays \/ Takes(f) \/ Announces(f) \/ Silences(f)
<1>1. FinTyped /\ RowsTyped
  BY DEF CloudInv
<1>2. CASE ReapSilent(f) \/ ReapQueued(f)
  <2>1. PICK p \in {"reapqueued", "look"} : FinGoes(f, p)
    BY <1>2 DEF ReapSilent, ReapQueued
  <2>2. fin'[f].phase = p /\ Others(f)
    BY <1>1, <2>1, FinGoesMoves DEF FinPhase, Others
  <2>3. fin[f].phase \in {"reap", "reapqueued"} /\ UNCHANGED <<finalizedAt, finishedFrames>>
    BY <1>2 DEF ReapSilent, ReapQueued, run
  <2> QED  BY <2>2, <2>3, ClaimStays DEF Claimed
<1>3. CASE LookAtShards(f)
  <2>1. fin[f].phase = "look" /\ UNCHANGED <<finalizedAt, finishedFrames>>
    BY <1>3 DEF LookAtShards, run
  <2>2. CASE FinEnds(f)
    <3>1. fin'[f].phase = "idle" /\ Others(f)
      BY <1>1, <2>2, FinEndsMoves, FinRows DEF Others
    <3> QED  BY <2>1, <3>1, ClaimStays DEF Claimed
  <2>3. CASE fin' = [fin EXCEPT ![f] = [Fin("claim") EXCEPT
                 !.broken = Broken, !.cancelled = \E s \in Slice : shard[s] = "CANCELLED"]]
    <3>1. PICK b, c :
             fin' = [fin EXCEPT ![f] = [Fin("claim") EXCEPT !.broken = b, !.cancelled = c]]
      BY <2>3
    <3>2. Fin("claim") \in Reporting /\ Fin("claim").phase = "claim"
      BY FinRows DEF FinPhase
    <3>3. [Fin("claim") EXCEPT !.broken = b, !.cancelled = c].phase = "claim"
      BY <3>2 DEF Reporting
    <3>4. fin'[f].phase = "claim" /\ Others(f)
      BY <1>1, <3>1, <3>3 DEF FinTyped, Others
    <3> QED  BY <2>1, <3>4, ClaimStays DEF Claimed
  <2> QED  BY <1>3, <2>2, <2>3 DEF LookAtShards
<1>4. CASE ClaimRun(f)
  <2>1. fin[f].phase = "claim" /\ UNCHANGED finishedFrames
    BY <1>4 DEF ClaimRun
  <2>2. CASE finalizedAt = "null" /\ finalizedAt' = "completion" /\ FinGoes(f, "count")
    <3>1. fin'[f].phase = "count" /\ Others(f)
      BY <1>1, <2>2, FinGoesMoves DEF FinPhase, Others
    <3> QED  BY <2>1, <2>2, <3>1 DEF Takes, Claimed, Unclaimed
  <2>3. CASE FinEnds(f) /\ UNCHANGED finalizedAt
    <3>1. fin'[f].phase = "idle" /\ Others(f)
      BY <1>1, <2>3, FinEndsMoves, FinRows DEF Others
    <3> QED  BY <2>1, <2>3, <3>1, ClaimStays DEF Claimed
  <2> QED  BY <1>4, <2>2, <2>3 DEF ClaimRun
<1>5. CASE Count(f)
  <2>1. fin[f].phase = "count" /\ UNCHANGED <<finalizedAt, finishedFrames>>
    BY <1>5 DEF Count, run
  <2>2. PICK v : fin' = [fin EXCEPT ![f] = Writing(v)]
    BY <1>5 DEF Count
  <2>3. Writing(v).phase = "write"
    BY DEF Writing, Fin, IdleFin
  <2>4. fin'[f].phase = "write" /\ Others(f)
    BY <1>1, <2>2, <2>3 DEF FinTyped, Others
  <2> QED  BY <2>1, <2>4, ClaimStays DEF Claimed
<1>6. CASE WriteVerdict(f)
  <2>1. fin[f].phase = "write" /\ UNCHANGED <<finalizedAt, finishedFrames>>
    BY <1>6 DEF WriteVerdict
  <2>2. CASE FinGoes(f, "publish")
    <3>1. fin'[f].phase = "publish" /\ Others(f)
      BY <1>1, <2>1, <2>2, FinGoesMoves DEF FinPhase, Others, FinTyped
    <3> QED  BY <2>1, <3>1, ClaimStays DEF Claimed
  <2>3. CASE FinEnds(f)
    <3>1. fin'[f].phase = "idle" /\ Others(f)
      BY <1>1, <2>3, FinEndsMoves, FinRows DEF Others
    <3> QED  BY <2>1, <3>1 DEF Silences, Claimed
  <2> QED  BY <1>6, <2>2, <2>3 DEF WriteVerdict
<1>7. CASE Publish(f)
  <2>1. fin[f].phase = "publish" /\ finishedFrames' = finishedFrames + 1 /\ UNCHANGED finalizedAt
    BY <1>7 DEF Publish, run
  <2>2. fin'[f].phase = "idle" /\ Others(f)
    BY <1>1, <1>7, FinEndsMoves, FinRows DEF Others, Publish
  <2> QED  BY <2>1, <2>2 DEF Announces, Claimed
<1>8. CASE Rescue(f)
  <2>1. fin[f].phase = "rescue" /\ UNCHANGED finishedFrames
    BY <1>8 DEF Rescue
  <2>2. CASE finalizedAt = "null" /\ finalizedAt' = "deadjob"
             /\ fin' = [fin EXCEPT ![f] = Writing("ERRORED")]
    <3>1. Writing("ERRORED").phase = "write"
      BY DEF Writing, Fin, IdleFin
    <3>2. fin'[f].phase = "write" /\ Others(f)
      BY <1>1, <2>2, <3>1 DEF FinTyped, Others
    <3> QED  BY <2>1, <2>2, <3>2 DEF Takes, Claimed, Unclaimed
  <2>3. CASE FinEnds(f) /\ UNCHANGED finalizedAt
    <3>1. fin'[f].phase = "idle" /\ Others(f)
      BY <1>1, <2>3, FinEndsMoves, FinRows DEF Others
    <3> QED  BY <2>1, <2>3, <3>1, ClaimStays DEF Claimed
  <2> QED  BY <1>8, <2>2, <2>3 DEF Rescue
<1> QED  BY <1>2, <1>3, <1>4, <1>5, <1>6, <1>7, <1>8 DEF Finalize

\* What an execution does, and what happens to a process.
LEMMA ExecEffect ==
    ASSUME CloudInv, sharded, NEW e \in Exec, Deliver(e) \/ Execute(e) \/ Errs(e)
    PROVE  Stays
<1>1. CASE RecordShard(e)
  <2>1. fin[e].phase = "idle" /\ e \in Reporter
    BY <1>1 DEF RecordShard, CloudInv, Separate, Reporter
  <2>2. Fin("reap").phase = "reap"
    BY DEF Fin, IdleFin
  <2>3. fin'[e].phase = "reap" /\ Others(e)
    BY <1>1, <2>1, <2>2 DEF RecordShard, CloudInv, FinTyped, Others
  <2>4. UNCHANGED <<finalizedAt, finishedFrames>>
    BY <1>1 DEF RecordShard, run
  <2> QED  BY <2>1, <2>3, <2>4, ClaimStays DEF Claimed
<1>2. CASE Deliver(e) \/ ClaimShard(e) \/ Start(e) \/ Poll(e) \/ Persist(e) \/ Errs(e)
  <2>1. UNCHANGED <<fin, finalizedAt, finishedFrames>>
    BY <1>2 DEF Deliver, ClaimShard, Start, Poll, Persist, Errs, Declines, run
  <2> QED  BY <2>1, FinStays
<1>3. ~FinalizeWhole(e)
  BY DEF FinalizeWhole
<1> QED  BY <1>1, <1>2, <1>3 DEF Execute

\* A process that dies or throws can only lose the right it held.
LEMMA ProcessEffect ==
    ASSUME CloudInv, sharded, NEW e \in Exec, JobThrows(e) \/ WorkerDies(e) \/ Stalled(e)
    PROVE  Stays \/ Silences(e)
<1>1. e \in Reporter /\ UNCHANGED <<finalizedAt, finishedFrames>> /\ FinTyped
  BY DEF JobThrows, WorkerDies, Stalled, run, Reporter, CloudInv
<1>2. CASE UNCHANGED fin
  BY <1>1, <1>2, FinStays
<1>3. CASE fin' = [fin EXCEPT ![e] = IdleFin] \/ fin' = [fin EXCEPT ![e] = Fin("rescue")]
  <2>1. fin'[e].phase \in {"idle", "rescue"} /\ Others(e)
    BY <1>1, <1>3, FinResets DEF Others
  <2>2. CASE Claimed(e)
    BY <1>1, <2>1, <2>2 DEF Silences, Claimed
  <2>3. CASE ~Claimed(e)
    <3>1. ~Claimed(e)'
      BY <2>1 DEF Claimed
    <3> QED  BY <1>1, <2>1, <2>3, <3>1, ClaimStays
  <2> QED  BY <2>2, <2>3
<1> QED  BY <1>2, <1>3 DEF JobThrows, WorkerDies, Stalled

\* So can a sweep; one that begins holds none.
LEMMA SweepEffect ==
    ASSUME CloudInv, sharded, SweepBegins \/ SweepDies
    PROVE  Stays \/ Silences(Sweep)
<1>1. Sweep \in Reporter /\ UNCHANGED <<finalizedAt, finishedFrames>> /\ FinTyped
  BY DEF SweepBegins, SweepDies, run, Reporter, CloudInv
<1>2. CASE SweepBegins
  <2>1. fin'[Sweep].phase = "reap" /\ Others(Sweep) /\ fin[Sweep].phase = "idle"
    BY <1>1, <1>2, FinGoesMoves DEF SweepBegins, FinPhase, Others
  <2> QED  BY <1>1, <2>1, ClaimStays DEF Claimed
<1>3. CASE SweepDies
  <2>1. fin'[Sweep].phase \in {"idle", "rescue"} /\ Others(Sweep)
    BY <1>1, <1>3, FinResets DEF Others, SweepDies
  <2>2. CASE Claimed(Sweep)
    BY <1>1, <2>1, <2>2 DEF Silences, Claimed
  <2>3. CASE ~Claimed(Sweep)
    <3>1. ~Claimed(Sweep)'
      BY <2>1 DEF Claimed
    <3> QED  BY <1>1, <2>1, <2>3, <3>1, ClaimStays
  <2> QED  BY <2>2, <2>3
<1> QED  BY <1>2, <1>3

\* Every step of a sharded run does one of five things to the right to report it.
LEMMA NextEffect ==
    ASSUME CloudInv, sharded, [Next]_vars
    PROVE  Stays \/ Closes \/ \E f \in Reporter : Takes(f) \/ Announces(f) \/ Silences(f)
<1>1. CASE \/ \E s \in Slice : FallsSilent(s)
           \/ \E e \in Exec : Beat(e)
           \/ CancelRead \/ CancelWrite \/ CancelShards \/ RequestStop
           \/ MarkUnqueued \/ UNCHANGED vars
  <2>1. UNCHANGED <<fin, finalizedAt, finishedFrames>>
    BY <1>1 DEF FallsSilent, Beat, CancelRead, CancelWrite, CancelShards, RequestStop, MarkUnqueued,
                vars, run
  <2> QED  BY <2>1, FinStays
<1>2. CASE CloseUnqueued
  <2>1. CASE finalizedAt = "null"
    BY <1>2, <2>1 DEF CloseUnqueued, Closes
  <2>2. CASE finalizedAt # "null"
    BY <1>2, <2>2, FinStays DEF CloseUnqueued
  <2> QED  BY <2>1, <2>2
<1> QED
  BY <1>1, <1>2, FinalizeEffect, ExecEffect, ProcessEffect, SweepEffect DEF Next, Reporter

\* The right to report a sharded run is held by one process at a time, and not again
\* by anybody once it has been used or lost.
RightOne == sharded => Right

\* Nobody holds it at first.
LEMMA RightInit == Init => RightOne
BY FinRows DEF Init, RightOne, Right, Claimed, Reporter

\* No step gives it to a second one, or again once it was used or lost.
LEMMA RightStep == CloudInv /\ RightOne /\ [Next]_vars => RightOne'
<1> SUFFICES ASSUME CloudInv, RightOne, [Next]_vars, sharded' PROVE Right'
  BY DEF RightOne
<1>1. sharded /\ Right
  BY ShardedStays DEF RightOne
<1>2. CASE Stays
  BY <1>1, <1>2 DEF Stays, Right
<1>3. ASSUME NEW f \in Reporter, Takes(f) PROVE Right'
  <2>1. \A g \in Reporter : g # f => ~Claimed(g)'
    BY <1>1, <1>3 DEF Takes, Right, Others, Claimed, Unclaimed
  <2>2. finishedFrames' = 0 /\ finalizedAt' \notin Unclaimed
    BY <1>1, <1>3 DEF Takes, Right, Unclaimed
  <2> QED  BY <2>1, <2>2 DEF Right
<1>4. ASSUME NEW f \in Reporter, Announces(f) \/ Silences(f) PROVE Right'
  <2>1. \A g \in Reporter : ~Claimed(g)'
    BY <1>1, <1>4 DEF Announces, Silences, Right, Others, Claimed
  <2>2. finalizedAt' \notin Unclaimed /\ finishedFrames = 0
    BY <1>1, <1>4 DEF Announces, Silences, Right
  <2>3. finishedFrames' \in {0, 1}
    BY <1>4, <2>2 DEF Announces, Silences
  <2> QED  BY <2>1, <2>2, <2>3 DEF Right
<1>5. CASE Closes
  BY <1>1, <1>5 DEF Closes, Right, Claimed, Unclaimed
<1> QED  BY <1>1, <1>2, <1>3, <1>4, <1>5, NextEffect

\* Each of the five maps to a step of RunReport, or to none.
LEMMA ReportStep ==
    ASSUME CloudInv, RightOne, RightOne', [Next]_vars
    PROVE  [Report!Next]_([r \in {Whole} |-> ReportOf])
<1> DEFINE mapped == [r \in {Whole} |-> ReportOf]
<1>1. CASE ~sharded
  <2>1. ~sharded'
    BY <1>1, ShardedStays
  <2>2. ReportOf = "open" /\ ReportOf' = "open"
    BY <1>1, <2>1 DEF ReportOf
  <2> QED  BY <2>2
<1>2. CASE sharded
  <2>1. sharded' /\ Right /\ Right'
    BY <1>2, ShardedStays DEF RightOne
  <2>2. /\ finalizedAt = "null" => ReportOf = "open"
        /\ finalizedAt = "unqueued" => ReportOf = "closed"
        /\ finalizedAt \notin Unclaimed /\ finishedFrames = 1 => ReportOf = "announced"
        /\ finalizedAt \notin Unclaimed /\ finishedFrames = 0 /\ (\E f \in Reporter : Claimed(f))
              => ReportOf = "claimed"
        /\ finalizedAt \notin Unclaimed /\ finishedFrames = 0 /\ (\A f \in Reporter : ~Claimed(f))
              => ReportOf = "silent"
    BY <1>2 DEF ReportOf, Reporter, Unclaimed
  <2>3. /\ finalizedAt' = "null" => ReportOf' = "open"
        /\ finalizedAt' = "unqueued" => ReportOf' = "closed"
        /\ finalizedAt' \notin Unclaimed /\ finishedFrames' = 1 => ReportOf' = "announced"
        /\ finalizedAt' \notin Unclaimed /\ finishedFrames' = 0 /\ (\E f \in Reporter : Claimed(f)')
              => ReportOf' = "claimed"
        /\ finalizedAt' \notin Unclaimed /\ finishedFrames' = 0 /\ (\A f \in Reporter : ~Claimed(f)')
              => ReportOf' = "silent"
    BY <2>1 DEF ReportOf, Reporter, Unclaimed
  <2>4. CASE Stays
    <3>1. /\ finalizedAt' = finalizedAt
          /\ finishedFrames' = finishedFrames
          /\ \A f \in Reporter : Claimed(f)' <=> Claimed(f)
      BY <2>4 DEF Stays
    <3>2. finishedFrames \in {0, 1}
      BY <2>1 DEF Right
    <3>3. CASE finalizedAt \in Unclaimed
      BY <2>2, <2>3, <3>1, <3>3 DEF Unclaimed
    <3>4. CASE finalizedAt \notin Unclaimed /\ finishedFrames = 1
      BY <2>2, <2>3, <3>1, <3>4
    <3>5. CASE finalizedAt \notin Unclaimed /\ finishedFrames = 0
      BY <2>2, <2>3, <3>1, <3>5
    <3> QED  BY <3>2, <3>3, <3>4, <3>5
  <2>5. ASSUME NEW f \in Reporter, Takes(f) PROVE Report!Next
    <3>1. ReportOf = "open" /\ ReportOf' = "claimed"
      BY <2>1, <2>2, <2>3, <2>5 DEF Takes, Right, Unclaimed
    <3>2. Report!Claim(Whole)
      BY <3>1 DEF Report!Claim
    <3> QED  BY <3>2 DEF Report!Next
  <2>6. ASSUME NEW f \in Reporter, Announces(f) PROVE Report!Next
    <3>1. ReportOf = "claimed" /\ ReportOf' = "announced"
      BY <2>1, <2>2, <2>3, <2>6 DEF Announces, Right
    <3>2. Report!Announce(Whole)
      BY <3>1 DEF Report!Announce
    <3> QED  BY <3>2 DEF Report!Next
  <2>7. ASSUME NEW f \in Reporter, Silences(f) PROVE Report!Next
    <3>1. \A g \in Reporter : ~Claimed(g)'
      BY <2>1, <2>7 DEF Silences, Right, Others, Claimed
    <3>2. ReportOf = "claimed" /\ ReportOf' = "silent"
      BY <2>1, <2>2, <2>3, <2>7, <3>1 DEF Silences, Right
    <3>3. Report!FallSilent(Whole)
      BY <3>2 DEF Report!FallSilent
    <3> QED  BY <3>3 DEF Report!Next
  <2>8. CASE Closes
    <3>1. ReportOf = "open" /\ ReportOf' = "closed"
      BY <2>2, <2>3, <2>8 DEF Closes
    <3>2. Report!Close(Whole)
      BY <3>1 DEF Report!Close
    <3> QED  BY <3>2 DEF Report!Next
  <2> QED  BY <1>2, <2>4, <2>5, <2>6, <2>7, <2>8, NextEffect
<1> QED  BY <1>1, <1>2

\* At first the right to report is open.
LEMMA ReportInit == Init => Report!Init
BY DEF Init, ReportOf, Report!Init

\* A sharded run is reported by one process, once, whichever executions, sweeps and
\* dead jobs find it over, and whatever dies meanwhile: every behaviour of the workers
\* is one of RunReport (finalizedAt in completeShardedRun, failRunFromDeadJob and
\* queueRun).
THEOREM CloudReportsOnce == Spec => ReportSpec
<1>1. Spec => [](CloudInv /\ RightOne)
  BY CloudInvariant, RightInit, RightStep, PTL DEF Spec
<1>2. CloudInv /\ RightOne /\ (CloudInv /\ RightOne)' /\ [Next]_vars
         => [Report!Next]_([r \in {Whole} |-> ReportOf])
  BY ReportStep
<1> QED  BY <1>1, <1>2, ReportInit, PTL DEF Spec, ReportSpec, Report!Spec

-------------------------------------------------------------------------------
(***************************************************************************)
(* Finished when every slice is                                            *)
(***************************************************************************)

\* Whoever is about to claim the report has found every slice over.
AllOver ==
    /\ \A f \in Reporter : fin[f].phase = "claim" => Pending = {}
    /\ finalizedAt = "completion" => Pending = {}

\* A slice that is over stays over: what marks the rows marks them terminal, and the
\* conditional update of a claim takes only those that are not.
LEMMA PendingShrinks ==
    ASSUME CloudInv, [Next]_vars
    PROVE  Pending' \subseteq Pending
<1>1. SUFFICES ASSUME NEW s \in Slice, shard[s] \in RUN_SHARD_TERMINAL
               PROVE  shard'[s] \in RUN_SHARD_TERMINAL
  BY DEF Pending
<1>2. ASSUME NEW dead, Abandon(dead) PROVE shard'[s] \in RUN_SHARD_TERMINAL
  BY <1>1, <1>2 DEF Abandon, Mark, RUN_SHARD_TERMINAL
<1>3. ASSUME NEW f \in Reporter, ReapSilent(f) \/ ReapQueued(f)
      PROVE  shard'[s] \in RUN_SHARD_TERMINAL
  BY <1>2, <1>3 DEF ReapSilent, ReapQueued
<1>4. ASSUME NEW e \in Exec, RecordShard(e) PROVE shard'[s] \in RUN_SHARD_TERMINAL
  BY <1>1, <1>4 DEF RecordShard, Mark, ShardStatus, RUN_SHARD_TERMINAL, CloudInv, RowsTyped
<1>5. ASSUME NEW e \in Exec, ClaimShard(e) PROVE shard'[s] \in RUN_SHARD_TERMINAL
  BY <1>1, <1>5 DEF ClaimShard, Claimable, Mark, RUN_SHARD_TERMINAL, CloudInv, RowsTyped
<1>6. ASSUME CancelShards PROVE shard'[s] \in RUN_SHARD_TERMINAL
  BY <1>1, <1>6 DEF CancelShards, Mark, RUN_SHARD_TERMINAL
<1>7. ASSUME MarkUnqueued PROVE shard'[s] \in RUN_SHARD_TERMINAL
  BY <1>2, <1>7 DEF MarkUnqueued
<1>8. CASE UNCHANGED shard
  BY <1>1, <1>8
<1> QED
  BY <1>3, <1>4, <1>5, <1>6, <1>7, <1>8
  DEF Next, Deliver, Execute, Errs, Start, Poll, Persist, FinalizeWhole,
      SweepBegins, Finalize, LookAtShards, ClaimRun, Count, WriteVerdict, Publish, Rescue,
      JobThrows, WorkerDies, Stalled, Beat, SweepDies, FallsSilent, CancelRead, CancelWrite,
      RequestStop, CloseUnqueued, Reporter, rows, vars

\* What a step makes of the reports: one of them goes on, or none.
LEMMA OnlyLookingClaims ==
    ASSUME CloudInv, [Next]_vars, NEW f \in Reporter, fin'[f].phase = "claim"
    PROVE  fin[f].phase = "claim" \/ (LookAtShards(f) /\ Pending = {})
<1>1. FinTyped
  BY DEF CloudInv
<1>2. CASE UNCHANGED fin
  BY <1>2
<1>3. ASSUME NEW g \in Reporter, NEW y, y.phase # "claim", fin' = [fin EXCEPT ![g] = y]
      PROVE  fin[f].phase = "claim"
  BY <1>1, <1>3 DEF FinTyped
<1>4. ASSUME NEW g \in Reporter, NEW p \in FinPhase, p # "claim", FinGoes(g, p)
      PROVE  fin[f].phase = "claim"
  BY <1>1, <1>4 DEF FinTyped, Reporting, FinGoes
<1>5. /\ IdleFin.phase # "claim" /\ \A v : Writing(v).phase # "claim"
      /\ \A p : Fin(p).phase = p
  BY DEF IdleFin, Fin, Writing
<1>6. ASSUME NEW g \in Reporter, FinEnds(g) PROVE fin[f].phase = "claim"
  BY <1>3, <1>5, <1>6 DEF FinEnds
<1>7. ASSUME NEW e \in Exec, RecordShard(e) \/ FinalizeWhole(e) PROVE fin[f].phase = "claim"
  <2>1. e \in Reporter
    BY DEF Reporter
  <2>2. CASE RecordShard(e)
    BY <1>3, <1>5, <2>1, <2>2 DEF RecordShard
  <2>3. CASE FinalizeWhole(e)
    <3>1. PICK v : fin' = [fin EXCEPT ![e] = Writing(v)]
      BY <2>3 DEF FinalizeWhole
    <3> QED  BY <1>3, <1>5, <2>1, <3>1
  <2> QED  BY <1>7, <2>2, <2>3
<1>8. ASSUME NEW e \in Exec, JobThrows(e) \/ WorkerDies(e) \/ Stalled(e)
      PROVE  fin[f].phase = "claim"
  <2>1. e \in Reporter
    BY DEF Reporter
  <2> QED  BY <1>2, <1>3, <1>5, <1>8, <2>1 DEF JobThrows, WorkerDies, Stalled
<1>9. ASSUME SweepBegins \/ SweepDies PROVE fin[f].phase = "claim"
  <2>1. Sweep \in Reporter /\ "reap" \in FinPhase
    BY DEF Reporter, FinPhase
  <2> QED  BY <1>3, <1>4, <1>5, <1>9, <2>1 DEF SweepBegins, SweepDies
<1>10. ASSUME NEW g \in Reporter, ReapSilent(g) \/ ReapQueued(g) PROVE fin[f].phase = "claim"
  <2>1. PICK p \in {"reapqueued", "look"} : FinGoes(g, p)
    BY <1>10 DEF ReapSilent, ReapQueued
  <2> QED  BY <1>4, <2>1 DEF FinPhase
<1>11. ASSUME NEW g \in Reporter, LookAtShards(g)
       PROVE  fin[f].phase = "claim" \/ (LookAtShards(f) /\ Pending = {})
  <2>1. CASE FinEnds(g)
    BY <1>6, <2>1
  <2>2. CASE Pending = {} /\ g = f
    BY <1>11, <2>2
  <2>3. CASE g # f /\ ~FinEnds(g)
    <3>1. PICK y : fin' = [fin EXCEPT ![g] = y]
      BY <1>11, <2>3 DEF LookAtShards
    <3> QED  BY <1>1, <2>3, <3>1 DEF FinTyped
  <2> QED  BY <1>11, <2>1, <2>2, <2>3 DEF LookAtShards
<1>12. ASSUME NEW g \in Reporter,
              ClaimRun(g) \/ Count(g) \/ WriteVerdict(g) \/ Publish(g) \/ Rescue(g)
       PROVE  fin[f].phase = "claim"
  <2>1. CASE FinEnds(g)
    BY <1>6, <2>1
  <2>2. CASE \E p \in {"count", "publish"} : FinGoes(g, p)
    BY <1>4, <2>2 DEF FinPhase
  <2>3. CASE \E v : fin' = [fin EXCEPT ![g] = Writing(v)]
    BY <1>3, <1>5, <2>3
  <2> QED  BY <1>12, <2>1, <2>2, <2>3 DEF ClaimRun, Count, WriteVerdict, Publish, Rescue
<1>13. ASSUME NEW g \in Reporter, Finalize(g)
       PROVE  fin[f].phase = "claim" \/ (LookAtShards(f) /\ Pending = {})
  BY <1>10, <1>11, <1>12, <1>13 DEF Finalize
<1>14. ASSUME NEW e \in Exec, Deliver(e) \/ Execute(e) \/ Errs(e) PROVE fin[f].phase = "claim"
  BY <1>2, <1>7, <1>14 DEF Deliver, Execute, Errs, ClaimShard, Declines, Start, Poll, Persist
<1>15. CASE \/ \E s \in Slice : FallsSilent(s)
            \/ \E e \in Exec : Beat(e)
            \/ CancelRead \/ CancelWrite \/ CancelShards \/ RequestStop
            \/ MarkUnqueued \/ CloseUnqueued \/ UNCHANGED vars
  BY <1>2, <1>15 DEF FallsSilent, Beat, CancelRead, CancelWrite, CancelShards, RequestStop,
                     MarkUnqueued, CloseUnqueued, vars
<1> QED  BY <1>8, <1>9, <1>13, <1>14, <1>15 DEF Next, Reporter

\* finalizedAt is set for completion by one who had the claim to make.
LEMMA OnlyClaimsComplete ==
    ASSUME CloudInv, [Next]_vars, finalizedAt' = "completion", finalizedAt # "completion"
    PROVE  \E f \in Reporter : ClaimRun(f)
<1>1. ~UNCHANGED finalizedAt
  OBVIOUS
<1>2. (\A f \in Reporter : ~Rescue(f)) /\ ~CloseUnqueued
  BY <1>1 DEF Rescue, CloseUnqueued
<1> QED
  BY <1>1, <1>2
  DEF Next, Deliver, Execute, Errs, ClaimShard, Start, Poll, Persist, RecordShard, FinalizeWhole,
      SweepBegins, Finalize, ReapSilent, ReapQueued, LookAtShards, Count, WriteVerdict, Publish,
      JobThrows, WorkerDies, Stalled, Beat, SweepDies, FallsSilent, CancelRead, CancelWrite,
      CancelShards, RequestStop, MarkUnqueued, CloseUnqueued, Reporter, run, vars

\* Nobody may claim a report at first.
LEMMA OverInit == Init => AllOver
BY FinRows DEF Init, AllOver, Reporter

\* Whoever claims it found the slices over, and they stay so.
LEMMA OverStep == CloudInv /\ AllOver /\ [Next]_vars => AllOver'
<1> SUFFICES ASSUME CloudInv, AllOver, [Next]_vars PROVE AllOver'
  OBVIOUS
<1>1. Pending = {} => Pending' = {}
  BY PendingShrinks
<1>2. ASSUME NEW f \in Reporter, fin'[f].phase = "claim" PROVE Pending' = {}
  BY <1>1, <1>2, OnlyLookingClaims DEF AllOver
<1>3. ASSUME finalizedAt' = "completion" PROVE Pending' = {}
  <2>1. Pending = {}
    BY <1>3, OnlyClaimsComplete DEF AllOver, ClaimRun
  <2> QED  BY <1>1, <2>1
<1> QED  BY <1>2, <1>3 DEF AllOver

\* A sharded run is finished when every shard is finished, and never before: a slice
\* that was given up, taken over or cancelled does not start once the run was found
\* over (completeShardedRun; claimShard's conditional update).
THEOREM CloudFinishedWhenAllDone == Spec => []FinalisedWhenAllDone
<1>1. Spec => [](CloudInv /\ AllOver)
  BY CloudInvariant, OverInit, OverStep, PTL DEF Spec
<1>2. AllOver => FinalisedWhenAllDone
  BY DEF AllOver, FinalisedWhenAllDone
<1> QED  BY <1>1, <1>2, PTL

-------------------------------------------------------------------------------
(***************************************************************************)
(* Never green over what nobody executed                                   *)
(***************************************************************************)

Untouched == {t \in Test : result[t] = "placeholder"}

\* Somebody asked for the stop that left them so, or all of these have a result.
Excused(T) == stop \/ T \cap Untouched = {}

\* What an execution has in hand is all that is untouched of its slice, and it comes to
\* record a slice as executed only with nothing left, a stop, or the run reported.
ExecSound(e) ==
    /\ exec[e].phase # "record" => exec[e].why = "end"
    /\ Executing(e) => Tests(SliceOf[e]) \cap Untouched \subseteq exec[e].todo
    /\ exec[e].phase = "record" =>
          /\ exec[e].why = "stopped" => stop
          /\ exec[e].why = "end" => exec[e].todo = {} \/ (sharded /\ finalizedAt # "null")

ShardSound(s) == sharded /\ finalizedAt = "null" /\ shard[s] = "COMPLETED" => Excused(Tests(s))

\* Who reports has seen a slice that was not executed, or vouches for every test.
FinSound(f) ==
    /\ fin[f].phase \in {"reap", "reapqueued", "look", "claim", "count"} => sharded
    /\ fin[f].phase = "count" \/ (fin[f].phase = "claim" /\ finalizedAt = "null") =>
          fin[f].broken \/ fin[f].cancelled \/ Excused(Test)
    /\ fin[f].phase \in {"write", "publish"} /\ fin[f].verdict = "PASSED" => Excused(Test)

Sound ==
    /\ \A e \in Exec : ExecSound(e)
    /\ \A s \in Slice : ShardSound(s)
    /\ \A f \in Reporter : FinSound(f)
    /\ runStatus = "PASSED" => Excused(Test)

\* A stop is not taken back, a test that has a result keeps one, and a run that was
\* reported stays so.
LEMMA Lasting ==
    ASSUME CloudInv, [Next]_vars
    PROVE  /\ stop => stop'
           /\ finalizedAt' = "null" => finalizedAt = "null"
           /\ Untouched' \subseteq Untouched
           /\ \A T : Excused(T) => Excused(T)'
           /\ \A s : Tests(s)' = Tests(s)
<1>1. stop => stop'
  BY DEF Next, Deliver, Execute, Errs, ClaimShard, Start, Poll, Persist, RecordShard, FinalizeWhole,
     SweepBegins, Finalize, ReapSilent, ReapQueued, LookAtShards, ClaimRun, Count, WriteVerdict,
     Publish, Rescue, JobThrows, WorkerDies, Stalled, Beat, SweepDies, FallsSilent, CancelRead,
     CancelWrite, CancelShards, RequestStop, MarkUnqueued, CloseUnqueued, run, vars
<1>2. finalizedAt' = "null" => finalizedAt = "null"
  BY DEF Next, Deliver, Execute, Errs, ClaimShard, Start, Poll, Persist, RecordShard, FinalizeWhole,
     SweepBegins, Finalize, ReapSilent, ReapQueued, LookAtShards, ClaimRun, Count, WriteVerdict,
     Publish, Rescue, JobThrows, WorkerDies, Stalled, Beat, SweepDies, FallsSilent, CancelRead,
     CancelWrite, CancelShards, RequestStop, MarkUnqueued, CloseUnqueued, run, vars
<1>3. Untouched' \subseteq Untouched
  <2>1. CASE UNCHANGED result
    BY <2>1 DEF Untouched
  <2>2. ASSUME NEW e \in Exec, Persist(e) PROVE Untouched' \subseteq Untouched
    <3>1. PICK t \in exec[e].todo, v \in Results : result' = [result EXCEPT ![t] = v]
      BY <2>2 DEF Persist
    <3>2. v # "placeholder"
      BY CloudAssumption
    <3> QED  BY <3>1, <3>2 DEF Untouched, CloudInv, RowsTyped
  <2> QED
    BY <2>1, <2>2
    DEF Next, Deliver, Execute, Errs, ClaimShard, Start, Poll, RecordShard, FinalizeWhole,
        SweepBegins, Finalize, ReapSilent, ReapQueued, LookAtShards, ClaimRun, Count, WriteVerdict,
        Publish, Rescue, JobThrows, WorkerDies, Stalled, Beat, SweepDies, FallsSilent, CancelRead,
        CancelWrite, CancelShards, RequestStop, MarkUnqueued, CloseUnqueued, rows, vars
<1>4. ASSUME NEW T, Excused(T) PROVE Excused(T)'
  BY <1>1, <1>3, <1>4 DEF Excused
<1>5. ASSUME NEW s PROVE Tests(s)' = Tests(s)
  BY ShardedStays DEF Tests
<1> QED  BY <1>1, <1>2, <1>3, <1>4, <1>5

\* An execution is moved by itself, or ended by what happens to its job or process.
LEMMA ExecutionMoves ==
    ASSUME CloudInv, [Next]_vars, NEW e \in Exec
    PROVE  \/ exec'[e] = exec[e]
           \/ Deliver(e) \/ Execute(e) \/ Errs(e)
           \/ exec'[e].phase \in {"done", "dead"} /\ exec'[e].why = "end"
<1>1. ExecTyped
  BY DEF CloudInv
<1>2. ASSUME NEW d \in Exec, NEW p, Ends(d, p)
      PROVE  /\ d # e => exec'[e] = exec[e]
             /\ d = e => exec'[e].phase = p /\ exec'[e].why = "end"
  BY <1>1, <1>2 DEF Ends, IdleExec, ExecTyped
<1>3. ASSUME NEW d \in Exec, d # e, Deliver(d) \/ Execute(d) \/ Errs(d)
      PROVE  exec'[e] = exec[e]
  <2>1. CASE \E p : Ends(d, p)
    BY <1>2, <1>3, <2>1
  <2>2. CASE \E p : Goes(d, p)
    BY <1>1, <1>3, <2>2 DEF Goes, ExecTyped
  <2>3. CASE Errs(d)
    BY <1>1, <1>3, <2>3 DEF Errs, ExecTyped
  <2>4. CASE Deliver(d)
    BY <1>1, <1>3, <2>1, <2>4 DEF Deliver, ExecTyped
  <2>5. CASE Persist(d)
    BY <1>1, <1>3, <2>5 DEF Persist, ExecTyped
  <2>6. CASE Poll(d)
    BY <1>1, <1>3, <2>6 DEF Poll, ExecTyped
  <2> QED
    BY <1>3, <2>1, <2>2, <2>3, <2>4, <2>5, <2>6
    DEF Execute, ClaimShard, Declines, Start, RecordShard, FinalizeWhole
<1>4. ASSUME NEW d \in Exec, JobThrows(d) \/ WorkerDies(d)
      PROVE  \/ exec'[e] = exec[e]
             \/ exec'[e].phase \in {"done", "dead"} /\ exec'[e].why = "end"
  BY <1>2, <1>4 DEF JobThrows, WorkerDies
<1>5. CASE UNCHANGED exec
  BY <1>5
<1> QED
  BY <1>3, <1>4, <1>5
  DEF Next, SweepBegins, Finalize, ReapSilent, ReapQueued, LookAtShards, ClaimRun, Count,
      WriteVerdict, Publish, Rescue, Stalled, Beat, SweepDies, FallsSilent, CancelRead,
      CancelWrite, CancelShards, RequestStop, MarkUnqueued, CloseUnqueued, vars

\* An execution that ends owes nothing.
LEMMA EndedSound ==
    ASSUME NEW e \in Exec, exec'[e].phase \in {"done", "dead"}, exec'[e].why = "end"
    PROVE  ExecSound(e)'
BY DEF ExecSound, Executing

\* An execution that ends does so for no reason of its own.
LEMMA EndsWhy ==
    ASSUME ExecTyped, NEW e \in Exec, NEW p \in {"done", "dead"}, Ends(e, p)
    PROVE  exec'[e].phase = p /\ exec'[e].why = "end"
BY DEF Ends, IdleExec, ExecTyped

\* No step, its own or of others, leaves an execution vouching for too much.
LEMMA ExecSoundStep ==
    ASSUME CloudInv, Sound, [Next]_vars, NEW e \in Exec
    PROVE  ExecSound(e)'
<1>1. ExecTyped /\ ExecSound(e) /\ sharded' = sharded
  BY ShardedStays DEF CloudInv, Sound
<1>2. /\ stop => stop'
      /\ finalizedAt' = "null" => finalizedAt = "null"
      /\ Untouched' \subseteq Untouched
      /\ Tests(SliceOf[e])' = Tests(SliceOf[e])
  BY Lasting
<1>3. CASE exec'[e] = exec[e]
  BY <1>1, <1>2, <1>3 DEF ExecSound, Executing
<1>4. CASE Deliver(e)
  <2>1. CASE Ends(e, "done")
    BY <1>1, <2>1, EndsWhy, EndedSound
  <2>2. CASE exec' = [exec EXCEPT ![e].phase = IF sharded THEN "claim" ELSE "start",
                                  ![e].todo = Tests(SliceOf[e])]
    <3>1. PICK p \in {"claim", "start"} :
             exec' = [exec EXCEPT ![e].phase = p, ![e].todo = Tests(SliceOf[e])]
      BY <2>2
    <3>2. /\ exec'[e].phase = p /\ exec'[e].todo = Tests(SliceOf[e])
          /\ exec'[e].why = exec[e].why /\ exec[e].phase = "idle"
      BY <1>1, <1>4, <3>1 DEF ExecTyped, Execution, Deliver
    <3> QED  BY <1>1, <1>2, <3>2 DEF ExecSound, Executing
  <2> QED  BY <1>4, <2>1, <2>2 DEF Deliver
<1>5. CASE ClaimShard(e) \/ Start(e)
  <2>1. CASE Declines(e)
    BY <1>1, <2>1, EndsWhy, EndedSound DEF Declines
  <2>2. CASE \E p \in {"start", "poll"} : Goes(e, p)
    <3>1. PICK p \in {"start", "poll"} : Goes(e, p)
      BY <2>2
    <3>2. /\ exec'[e].phase = p /\ exec'[e].todo = exec[e].todo /\ exec'[e].why = exec[e].why
          /\ exec[e].phase \in {"claim", "start"}
      BY <1>1, <1>5, <3>1, GoesMoves DEF ExecPhase, ClaimShard, Start
    <3> QED  BY <1>1, <1>2, <3>2 DEF ExecSound, Executing
  <2> QED  BY <1>5, <2>1, <2>2 DEF ClaimShard, Start
<1>6. CASE Poll(e)
  <2>1. /\ exec[e].phase = "poll" /\ exec[e] \in Execution
        /\ exec'[e] = IF exec[e].todo = {} THEN [exec[e] EXCEPT !.phase = "record"]
                      ELSE IF ~Stops THEN [exec[e] EXCEPT !.phase = "test"]
                      ELSE [exec[e] EXCEPT !.phase = "record",
                               !.why = IF runStatus = "CANCELLED" THEN "cancelled"
                                       ELSE IF stop THEN "stopped" ELSE "end"]
    BY <1>1, <1>6 DEF Poll, ExecTyped
  <2>2. exec[e].why = "end" /\ Tests(SliceOf[e]) \cap Untouched \subseteq exec[e].todo
        /\ UNCHANGED <<stop, finalizedAt, Untouched>>
    BY <1>1, <1>6, <2>1 DEF ExecSound, Executing, Poll, run, rows, Untouched
  <2>3. CASE exec[e].todo = {} \/ ~Stops
    <3>1. /\ exec'[e].todo = exec[e].todo /\ exec'[e].why = "end"
          /\ exec'[e].phase = IF exec[e].todo = {} THEN "record" ELSE "test"
      BY <2>1, <2>2, <2>3 DEF Execution
    <3> QED  BY <1>1, <1>2, <2>2, <3>1 DEF ExecSound, Executing
  <2>4. CASE exec[e].todo # {} /\ Stops
    <3>1. /\ exec'[e].todo = exec[e].todo /\ exec'[e].phase = "record"
          /\ exec'[e].why = IF runStatus = "CANCELLED" THEN "cancelled"
                            ELSE IF stop THEN "stopped" ELSE "end"
      BY <2>1, <2>4 DEF Execution
    <3>2. exec'[e].why = "stopped" => stop
      BY <3>1
    <3>3. exec'[e].why = "end" => sharded /\ finalizedAt # "null"
      BY <2>4, <3>1 DEF Stops
    <3> QED  BY <1>1, <1>2, <2>2, <3>1, <3>2, <3>3 DEF ExecSound, Executing
  <2> QED  BY <2>3, <2>4
<1>7. CASE Persist(e)
  <2>1. PICK t \in exec[e].todo, v \in Results :
           /\ result' = [result EXCEPT ![t] = v]
           /\ exec' = [exec EXCEPT ![e].phase = "poll", ![e].todo = @ \ {t},
                                   ![e].failed = @ \/ v = "FAILED"]
    BY <1>7 DEF Persist
  <2>2. /\ exec[e].phase = "test" /\ exec'[e].phase = "poll" /\ exec'[e].why = exec[e].why
        /\ exec'[e].todo = exec[e].todo \ {t} /\ t \in Test
    BY <1>1, <1>7, <2>1 DEF Persist, ExecTyped, Execution
  <2>3. t \notin Untouched'
    BY <2>1, <2>2, CloudAssumption DEF Untouched, CloudInv, RowsTyped
  <2> QED  BY <1>1, <1>2, <2>2, <2>3 DEF ExecSound, Executing
<1>8. CASE Errs(e)
  <2>1. /\ exec[e].phase \in {"start", "poll", "test"} /\ exec'[e].phase = "record"
        /\ exec'[e].why = "errored" /\ exec'[e].todo = exec[e].todo
    BY <1>1, <1>8 DEF Errs, ExecTyped, Execution
  <2> QED  BY <1>1, <1>2, <2>1 DEF ExecSound, Executing
<1>9. CASE RecordShard(e) \/ FinalizeWhole(e)
  BY <1>1, <1>9, EndsWhy, EndedSound DEF RecordShard, FinalizeWhole
<1> QED
  BY <1>3, <1>4, <1>5, <1>6, <1>7, <1>8, <1>9, ExecutionMoves, EndedSound DEF Execute

\* Only its own execution marks a slice as executed.
LEMMA OnlyRecordsComplete ==
    ASSUME CloudInv, [Next]_vars, NEW s \in Slice, shard'[s] = "COMPLETED", shard[s] # "COMPLETED"
    PROVE  \E e \in Exec : /\ RecordShard(e) /\ SliceOf[e] = s
                           /\ ShardStatus(exec[e].why) = "COMPLETED"
<1>1. ~UNCHANGED shard /\ RowsTyped
  BY DEF CloudInv
<1>2. ASSUME NEW dead PROVE ~Abandon(dead)
  BY <1>1 DEF Abandon, Mark
<1>3. \A e \in Exec : ~ClaimShard(e)
  BY <1>1 DEF ClaimShard, Mark, RowsTyped
<1>4. ~CancelShards
  BY <1>1 DEF CancelShards, Mark
<1>5. PICK e \in Exec : RecordShard(e)
  BY <1>1, <1>2, <1>3, <1>4
  DEF Next, Deliver, Execute, Errs, Start, Poll, Persist, FinalizeWhole,
      SweepBegins, Finalize, ReapSilent, ReapQueued, LookAtShards, ClaimRun, Count, WriteVerdict,
      Publish, Rescue, JobThrows, WorkerDies, Stalled, Beat, SweepDies, FallsSilent, CancelRead,
      CancelWrite, RequestStop, MarkUnqueued, CloseUnqueued, rows, vars
<1> QED  BY <1>1, <1>5 DEF RecordShard, Mark, RowsTyped

\* A slice marked as executed was, while the run is not yet reported.
LEMMA ShardSoundStep ==
    ASSUME CloudInv, Sound, [Next]_vars, NEW s \in Slice
    PROVE  ShardSound(s)'
<1> SUFFICES ASSUME sharded', finalizedAt' = "null", shard'[s] = "COMPLETED"
             PROVE  Excused(Tests(s)) /\ (Excused(Tests(s)) => Excused(Tests(s))')
  BY DEF ShardSound
<1>1. sharded /\ finalizedAt = "null" /\ Untouched' \subseteq Untouched
      /\ (stop => stop') /\ Tests(s)' = Tests(s)
  BY ShardedStays, Lasting
<1>2. Excused(Tests(s)) => Excused(Tests(s))'
  BY <1>1 DEF Excused
<1>3. CASE shard[s] = "COMPLETED"
  BY <1>1, <1>2, <1>3 DEF Sound, ShardSound
<1>4. CASE shard[s] # "COMPLETED"
  <2>1. PICK e \in Exec : RecordShard(e) /\ SliceOf[e] = s /\ ShardStatus(exec[e].why) = "COMPLETED"
    BY <1>4, OnlyRecordsComplete
  <2>2. ExecSound(e) /\ exec[e].phase = "record" /\ exec[e].why \in {"end", "stopped"}
    BY <2>1 DEF Sound, RecordShard, ShardStatus, CloudInv, ExecTyped, Execution
  <2>3. stop \/ Tests(s) \cap Untouched = {}
    BY <1>1, <2>1, <2>2 DEF ExecSound, Executing
  <2> QED  BY <1>2, <2>3 DEF Excused
<1> QED  BY <1>3, <1>4

\* A report is moved by itself, begun by an execution that ends or by the sweep, or
\* dropped or handed to the listener by what happens to its process.
LEMMA ReportMoves ==
    ASSUME CloudInv, [Next]_vars, NEW f \in Reporter
    PROVE  \/ fin'[f] = fin[f]
           \/ Finalize(f)
           \/ f \in Exec /\ (RecordShard(f) \/ FinalizeWhole(f))
           \/ SweepBegins /\ fin'[f].phase = "reap"
           \/ fin'[f].phase \in {"idle", "rescue"}
<1>1. FinTyped /\ RowsTyped
  BY DEF CloudInv
<1>2. CASE UNCHANGED fin
  BY <1>2
<1>3. ASSUME NEW g \in Reporter, Finalize(g), g # f PROVE fin'[f] = fin[f]
  <2>1. CASE FinEnds(g)
    BY <1>1, <1>3, <2>1, FinEndsMoves
  <2>2. CASE \E p : FinGoes(g, p)
    BY <1>1, <1>3, <2>2 DEF FinGoes, FinTyped
  <2>3. CASE \E y : fin' = [fin EXCEPT ![g] = y]
    BY <1>1, <1>3, <2>3 DEF FinTyped
  <2> QED
    BY <1>3, <2>1, <2>2, <2>3
    DEF Finalize, ReapSilent, ReapQueued, LookAtShards, ClaimRun, Count, WriteVerdict, Publish, Rescue
<1>4. ASSUME NEW e \in Exec, RecordShard(e) \/ FinalizeWhole(e), e # f PROVE fin'[f] = fin[f]
  BY <1>1, <1>4 DEF RecordShard, FinalizeWhole, FinTyped
<1>5. ASSUME NEW e \in Exec, Deliver(e) \/ Execute(e) \/ Errs(e)
      PROVE  fin'[f] = fin[f] \/ (f = e /\ (RecordShard(f) \/ FinalizeWhole(f)))
  BY <1>2, <1>4, <1>5 DEF Deliver, Execute, Errs, ClaimShard, Declines, Start, Poll, Persist
<1>6. ASSUME NEW e \in Exec, JobThrows(e) \/ WorkerDies(e) \/ Stalled(e)
      PROVE  fin'[f] = fin[f] \/ fin'[f].phase \in {"idle", "rescue"}
  <2>1. CASE fin' = [fin EXCEPT ![e] = IdleFin] \/ fin' = [fin EXCEPT ![e] = Fin("rescue")]
    BY <1>1, <2>1, FinResets DEF Reporter
  <2> QED  BY <1>2, <1>6, <2>1 DEF JobThrows, WorkerDies, Stalled
<1>7. ASSUME SweepDies PROVE fin'[f] = fin[f] \/ fin'[f].phase \in {"idle", "rescue"}
  BY <1>1, <1>7, FinResets DEF SweepDies, Reporter
<1>8. ASSUME SweepBegins PROVE fin'[f] = fin[f] \/ fin'[f].phase = "reap"
  BY <1>1, <1>8, FinGoesMoves DEF SweepBegins, FinPhase, Reporter
<1>9. CASE \/ \E s \in Slice : FallsSilent(s)
           \/ \E e \in Exec : Beat(e)
           \/ CancelRead \/ CancelWrite \/ CancelShards \/ RequestStop
           \/ MarkUnqueued \/ CloseUnqueued \/ UNCHANGED vars
  BY <1>2, <1>9 DEF FallsSilent, Beat, CancelRead, CancelWrite, CancelShards, RequestStop,
                    MarkUnqueued, CloseUnqueued, vars
<1> QED  BY <1>3, <1>5, <1>6, <1>7, <1>8, <1>9 DEF Next, Reporter

\* A report that claims nothing owes nothing; one with a verdict owes what it says.
LEMMA IdleSound ==
    ASSUME NEW f \in Reporter, fin'[f].phase \in {"idle", "rescue"}
    PROVE  FinSound(f)'
BY DEF FinSound

\* One that only begins owes that the run is sharded.
LEMMA BeginsSound ==
    ASSUME NEW f \in Reporter, fin'[f].phase \in {"reap", "reapqueued", "look"}, sharded'
    PROVE  FinSound(f)'
BY DEF FinSound

\* One with a verdict owes an executed suite if it says PASSED.
LEMMA WrittenSound ==
    ASSUME NEW f \in Reporter, fin'[f].phase \in {"write", "publish"},
           fin'[f].verdict = "PASSED" => Excused(Test)'
    PROVE  FinSound(f)'
BY DEF FinSound

\* Whoever finds every slice over, none of them broken or cancelled and the run not yet
\* reported, has found them executed.
LEMMA LookSound ==
    ASSUME CloudInv, Sound, sharded, finalizedAt = "null", Pending = {}, ~Broken,
           ~(\E s \in Slice : shard[s] = "CANCELLED")
    PROVE  Excused(Test)
<1>1. ASSUME NEW s \in Slice PROVE shard[s] = "COMPLETED"
  BY DEF Pending, Broken, RUN_SHARD_TERMINAL
<1>2. ASSUME NEW s \in Slice PROVE Excused(Tests(s))
  BY <1>1 DEF Sound, ShardSound
<1>3. ASSUME NEW t \in Test PROVE PartOf[t] \in Slice /\ t \in Tests(PartOf[t])
  BY CloudAssumption DEF Tests
<1> QED  BY <1>2, <1>3 DEF Excused

\* The steps of a report leave it sound.
LEMMA FinalizeSound ==
    ASSUME CloudInv, Sound, [Next]_vars, NEW f \in Reporter, Finalize(f)
    PROVE  FinSound(f)'
<1>1. FinTyped /\ RowsTyped /\ FinSound(f) /\ sharded' = sharded
  BY ShardedStays DEF CloudInv, Sound
<1>2. finalizedAt' = "null" => finalizedAt = "null"
  BY Lasting
<1>3. Excused(Test) => Excused(Test)'
  BY Lasting
<1>4. CASE FinEnds(f)
  BY <1>1, <1>4, FinEndsMoves, FinRows, IdleSound
<1>5. CASE ReapSilent(f) \/ ReapQueued(f)
  <2>1. PICK p \in {"reapqueued", "look"} : FinGoes(f, p)
    BY <1>5 DEF ReapSilent, ReapQueued
  <2>2. fin'[f].phase = p /\ fin[f].phase \in {"reap", "reapqueued"}
    BY <1>1, <1>5, <2>1, FinGoesMoves DEF FinPhase, ReapSilent, ReapQueued
  <2>3. sharded'
    BY <1>1, <2>2 DEF FinSound
  <2> QED  BY <2>2, <2>3, BeginsSound
<1>6. CASE LookAtShards(f) /\ ~FinEnds(f)
  <2>1. PICK b \in BOOLEAN, c \in BOOLEAN :
           /\ fin' = [fin EXCEPT ![f] = [Fin("claim") EXCEPT !.broken = b, !.cancelled = c]]
           /\ b <=> Broken
           /\ c <=> \E s \in Slice : shard[s] = "CANCELLED"
    BY <1>6 DEF LookAtShards, Broken
  <2>2. Pending = {} /\ fin[f].phase = "look" /\ sharded /\ UNCHANGED finalizedAt
    BY <1>1, <1>6 DEF LookAtShards, FinSound, run
  <2>3. fin'[f].phase = "claim" /\ fin'[f].broken = b /\ fin'[f].cancelled = c
    BY <1>1, <2>1 DEF FinTyped, Fin, IdleFin
  <2>4. finalizedAt' = "null" /\ ~b /\ ~c => Excused(Test)'
    BY <1>3, <2>1, <2>2, LookSound
  <2> QED  BY <1>1, <2>2, <2>3, <2>4 DEF FinSound
<1>7. CASE ClaimRun(f) /\ ~FinEnds(f)
  <2>1. fin[f].phase = "claim" /\ finalizedAt = "null" /\ FinGoes(f, "count")
    BY <1>7 DEF ClaimRun
  <2>2. /\ fin'[f].phase = "count" /\ fin'[f].broken = fin[f].broken
        /\ fin'[f].cancelled = fin[f].cancelled
    BY <1>1, <2>1, FinGoesMoves DEF FinPhase
  <2> QED  BY <1>1, <1>3, <2>1, <2>2 DEF FinSound
<1>8. CASE Count(f)
  <2>1. PICK v : fin' = [fin EXCEPT ![f] = Writing(
                   IF fin[f].cancelled \/ runStatus = "CANCELLED" THEN "CANCELLED"
                   ELSE IF fin[f].broken THEN "ERRORED" ELSE v)]
    BY <1>8 DEF Count
  <2>2. PICK w : /\ fin' = [fin EXCEPT ![f] = Writing(w)]
                 /\ w = "PASSED" => ~fin[f].cancelled /\ ~fin[f].broken
    <3>1. CASE fin[f].cancelled \/ runStatus = "CANCELLED"
      <4>1. fin' = [fin EXCEPT ![f] = Writing("CANCELLED")] /\ "CANCELLED" # "PASSED"
        BY <2>1, <3>1
      <4> QED  BY <4>1
    <3>2. CASE ~(fin[f].cancelled \/ runStatus = "CANCELLED") /\ fin[f].broken
      <4>1. fin' = [fin EXCEPT ![f] = Writing("ERRORED")] /\ "ERRORED" # "PASSED"
        BY <2>1, <3>2
      <4> QED  BY <4>1
    <3>3. CASE ~(fin[f].cancelled \/ runStatus = "CANCELLED") /\ ~fin[f].broken
      <4>1. fin' = [fin EXCEPT ![f] = Writing(v)]
        BY <2>1, <3>3
      <4> QED  BY <3>3, <4>1
    <3> QED  BY <3>1, <3>2, <3>3
  <2>3. fin'[f].phase = "write" /\ fin'[f].verdict = w
    BY <1>1, <2>2 DEF FinTyped, Writing, Fin, IdleFin
  <2>4. w = "PASSED" => Excused(Test)
    BY <1>1, <1>8, <2>2 DEF Count, FinSound
  <2> QED  BY <1>3, <2>3, <2>4, WrittenSound
<1>9. CASE WriteVerdict(f) /\ ~FinEnds(f)
  <2>1. fin[f].phase = "write" /\ FinGoes(f, "publish") /\ fin[f].verdict \in Verdict
    BY <1>1, <1>9 DEF WriteVerdict, FinTyped
  <2>2. fin'[f].phase = "publish" /\ fin'[f].verdict = fin[f].verdict
    BY <1>1, <2>1, FinGoesMoves DEF FinPhase
  <2>3. fin[f].verdict = "PASSED" => Excused(Test)
    BY <1>1, <2>1 DEF FinSound
  <2> QED  BY <1>3, <2>2, <2>3, WrittenSound
<1>10. CASE Rescue(f) /\ ~FinEnds(f)
  <2>1. fin' = [fin EXCEPT ![f] = Writing("ERRORED")]
    BY <1>10 DEF Rescue
  <2>2. fin'[f].phase = "write" /\ fin'[f].verdict = "ERRORED"
    BY <1>1, <2>1 DEF FinTyped, Writing, Fin, IdleFin
  <2> QED  BY <2>2, WrittenSound
<1> QED  BY <1>4, <1>5, <1>6, <1>7, <1>8, <1>9, <1>10 DEF Finalize, Publish

\* So does every step.
LEMMA FinSoundStep ==
    ASSUME CloudInv, Sound, [Next]_vars, NEW f \in Reporter
    PROVE  FinSound(f)'
<1>1. FinTyped /\ FinSound(f) /\ sharded' = sharded
  BY ShardedStays DEF CloudInv, Sound
<1>2. finalizedAt' = "null" => finalizedAt = "null"
  BY Lasting
<1>3. Excused(Test) => Excused(Test)'
  BY Lasting
<1>4. CASE fin'[f] = fin[f]
  BY <1>1, <1>2, <1>3, <1>4 DEF FinSound
<1>5. CASE SweepBegins /\ fin'[f].phase = "reap"
  BY <1>1, <1>5, BeginsSound DEF SweepBegins
<1>6. CASE f \in Exec /\ RecordShard(f)
  <2>1. fin'[f].phase = "reap" /\ sharded
    BY <1>1, <1>6 DEF RecordShard, FinTyped, Fin, IdleFin
  <2> QED  BY <1>1, <2>1, BeginsSound
<1>7. CASE f \in Exec /\ FinalizeWhole(f)
  <2>1. PICK v : fin' = [fin EXCEPT ![f] = Writing(
                   CASE exec[f].why = "cancelled" -> "CANCELLED"
                     [] exec[f].why = "errored" -> "ERRORED"
                     [] OTHER -> v)]
    BY <1>7 DEF FinalizeWhole
  <2>2. PICK w : /\ fin' = [fin EXCEPT ![f] = Writing(w)]
                 /\ w = "PASSED" => exec[f].why \notin {"cancelled", "errored"}
    <3>1. CASE exec[f].why = "cancelled"
      <4>1. fin' = [fin EXCEPT ![f] = Writing("CANCELLED")] /\ "CANCELLED" # "PASSED"
        BY <2>1, <3>1
      <4> QED  BY <4>1
    <3>2. CASE exec[f].why = "errored"
      <4>1. fin' = [fin EXCEPT ![f] = Writing("ERRORED")] /\ "ERRORED" # "PASSED"
        BY <2>1, <3>2
      <4> QED  BY <4>1
    <3>3. CASE exec[f].why \notin {"cancelled", "errored"}
      <4>1. fin' = [fin EXCEPT ![f] = Writing(v)]
        BY <2>1, <3>3
      <4> QED  BY <3>3, <4>1
    <3> QED  BY <3>1, <3>2, <3>3
  <2>3. fin'[f].phase = "write" /\ fin'[f].verdict = w
    BY <1>1, <2>2 DEF FinTyped, Writing, Fin, IdleFin
  <2>4. exec[f].phase = "record" /\ ~sharded /\ ExecSound(f)
        /\ exec[f].why \in {"end", "cancelled", "stopped", "errored"}
    BY <1>7 DEF FinalizeWhole, Sound, CloudInv, ExecTyped, Execution
  <2>5. Tests(SliceOf[f]) = Test
    BY <2>4 DEF Tests
  <2>6. w = "PASSED" => stop \/ Test \cap Untouched = {}
    BY <2>2, <2>4, <2>5 DEF ExecSound, Executing
  <2> QED  BY <1>3, <2>3, <2>6, WrittenSound DEF Excused
<1> QED  BY <1>4, <1>5, <1>6, <1>7, ReportMoves, FinalizeSound, IdleSound

\* A run turns green by the hand of a report whose verdict is that.
LEMMA OnlyVerdictsPass ==
    ASSUME CloudInv, [Next]_vars, runStatus' = "PASSED", runStatus # "PASSED"
    PROVE  \E f \in Reporter : WriteVerdict(f) /\ fin[f].phase = "write" /\ fin[f].verdict = "PASSED"
<1>1. ~UNCHANGED runStatus /\ runStatus' \notin {"RUNNING", "CANCELLED", "ERRORED"}
  OBVIOUS
<1>2. (\A e \in Exec : ~Start(e)) /\ ~CancelWrite /\ ~CloseUnqueued
  BY <1>1 DEF Start, Declines, CancelWrite, CloseUnqueued
<1>3. PICK f \in Reporter : WriteVerdict(f)
  BY <1>1, <1>2
  DEF Next, Deliver, Execute, Errs, ClaimShard, Poll, Persist, RecordShard, FinalizeWhole,
      SweepBegins, Finalize, ReapSilent, ReapQueued, LookAtShards, ClaimRun, Count, Publish,
      Rescue, JobThrows, WorkerDies, Stalled, Beat, SweepDies, FallsSilent, CancelRead,
      CancelShards, RequestStop, MarkUnqueued, CloseUnqueued, Reporter, run, vars
<1> QED  BY <1>1, <1>3 DEF WriteVerdict

\* All is sound at first, when nothing was executed or reported.
LEMMA SoundInit == Init => Sound
<1> SUFFICES ASSUME Init PROVE Sound
  OBVIOUS
<1>1. ASSUME NEW e \in Exec PROVE ExecSound(e)
  BY DEF Init, ExecSound, Executing, IdleExec
<1>2. ASSUME NEW s \in Slice PROVE ShardSound(s)
  BY DEF Init, ShardSound
<1>3. ASSUME NEW f \in Reporter PROVE FinSound(f)
  BY FinRows DEF Init, FinSound, Reporter
<1>4. runStatus # "PASSED"
  BY DEF Init
<1> QED  BY <1>1, <1>2, <1>3, <1>4 DEF Sound

\* And stays so.
LEMMA SoundStep == CloudInv /\ Sound /\ [Next]_vars => Sound'
<1> SUFFICES ASSUME CloudInv, Sound, [Next]_vars PROVE Sound'
  OBVIOUS
<1>1. ASSUME runStatus' = "PASSED" PROVE Excused(Test)'
  <2>1. Excused(Test) => Excused(Test)'
    BY Lasting
  <2>2. CASE runStatus = "PASSED"
    BY <2>1, <2>2 DEF Sound
  <2>3. CASE runStatus # "PASSED"
    BY <1>1, <2>1, <2>3, OnlyVerdictsPass DEF Sound, FinSound
  <2> QED  BY <2>2, <2>3
<1>2. \A e \in Exec : ExecSound(e)'
  BY ExecSoundStep
<1>3. \A s \in Slice : ShardSound(s)'
  BY ShardSoundStep
<1>4. \A f \in Reporter : FinSound(f)'
  BY FinSoundStep
<1> QED  BY <1>1, <1>2, <1>3, <1>4 DEF Sound

\* A run is green only over a suite somebody went through: whichever slices died, were
\* given up or stopped because the run was already reported, a run without a requested
\* stop that says PASSED has a result for every test (processRun, completeShardedRun,
\* finalizeRun).
THEOREM CloudNeverGreenUnexecuted == Spec => []NeverGreenUnexecuted
<1>1. Spec => [](CloudInv /\ Sound)
  BY CloudInvariant, SoundInit, SoundStep, PTL DEF Spec
<1>2. Sound => NeverGreenUnexecuted
  BY DEF Sound, Excused, Untouched, NeverGreenUnexecuted
<1> QED  BY <1>1, <1>2, PTL
===============================================================================

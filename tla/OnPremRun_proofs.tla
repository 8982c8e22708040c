---------------------------- MODULE OnPremRun_proofs ----------------------------
(***************************************************************************)
(* Proofs about OnPremRun, for every number of runs, slices, runners and   *)
(* sweeping API instances.  What RunnerJobs_proofs establishes of the jobs *)
(* carries over, because every step of a run is a step of the pool.        *)
(***************************************************************************)
EXTENDS OnPremRun, RunnerJobs_proofs

-------------------------------------------------------------------------------
(***************************************************************************)
(* The run is built on the pool                                            *)
(***************************************************************************)
LEMMA PoolStep == [RunNext]_allVars => [Next]_vars
<1> SUFFICES ASSUME [RunNext]_allVars PROVE [Next]_vars
  OBVIOUS
<1>1. CASE UNCHANGED allVars
  BY <1>1 DEF allVars
<1>2. CASE JobStep
  BY <1>2 DEF Next
<1>3. ASSUME NEW r \in Run, CreateRunnerJobs(r) PROVE [Next]_vars
  BY <1>3 DEF Next
<1>4. ASSUME NEW r \in Run,
             \/ CancelRead(r) \/ CancelWrite(r) \/ CancelShards(r) \/ CancelLost(r)
             \/ CloudReap(r) \/ CloudClaim(r) \/ CloudScore(r) \/ CloudReport(r)
      PROVE  [Next]_vars
  BY <1>4 DEF CancelRead, CancelWrite, CancelShards, CancelLost, CloudReap, CloudClaim,
              CloudScore, CloudReport
<1>5. ASSUME NEW w \in Runner, StartRun(w) PROVE [Next]_vars
  BY <1>5 DEF StartRun, Next
<1>6. ASSUME NEW c \in calls, CompleteRun(c) PROVE [Next]_vars
  BY <1>6 DEF CompleteRun, Next
<1>7. ASSUME NEW s \in Sweeper, FinalizePendingRuns(s) PROVE [Next]_vars
  BY <1>7 DEF FinalizePendingRuns, Next
<1>8. ASSUME NEW s \in Sweeper, NEW r \in Run, FinalizeNext(s, r) PROVE [Next]_vars
  BY <1>8 DEF FinalizeNext
<1>9. ASSUME NEW a \in Finalizer, FinalizeStep(a) PROVE [Next]_vars
  BY <1>9 DEF FinalizeStep, FinalizeClaim, FinalizeScore, FinalizeWrite, FinalizePublish,
              FinalizeLost
<1> QED
  BY <1>1, <1>2, <1>3, <1>4, <1>5, <1>6, <1>7, <1>8, <1>9 DEF RunNext

\* A behaviour of the run is a behaviour of the pool: starting, cancelling and
\* finalising change no job.
THEOREM RunsThePool == RunSpec => Spec
<1>1. RunInit => Init
  BY DEF RunInit
<1> QED
  BY <1>1, PoolStep, PTL DEF RunSpec, Spec

-------------------------------------------------------------------------------
(***************************************************************************)
(* Type correctness                                                        *)
(***************************************************************************)
LEMMA IncType ==
    ASSUME NEW D, NEW f \in [D -> Nat], NEW d
    PROVE  [f EXCEPT ![d] = @ + 1] \in [D -> Nat]
<1>1. CASE d \in D
  <2>1. f[d] + 1 \in Nat
    BY <1>1
  <2> QED
    BY <2>1, ExceptType
<1>2. CASE d \notin D
  BY <1>2
<1> QED
  BY <1>1, <1>2

\* A finaliser past its claim has a run, and past scoring a verdict.
LEMMA FinTypes ==
    /\ IdleFin \in Fin
    /\ \A r \in Run : Due(r) \in Fin
    /\ \A r \in Run : [phase |-> "claimed", run |-> r, verdict |-> "NONE"] \in Fin
    /\ \A p \in {"scored", "written"}, r \in Run, v \in Verdict :
          [phase |-> p, run |-> r, verdict |-> v] \in Fin
BY DEF IdleFin, Due, Fin

\* A finaliser at work has a run, and one that has scored a verdict.
LEMMA FinPhases ==
    ASSUME NEW x \in Fin
    PROVE  /\ x.phase # "idle" => x.run \in Run
           /\ x.phase \in {"scored", "written"} => x.verdict \in Verdict
BY DEF Fin

\* The steps that change who is finalising what.
LEMMA FinStepType ==
    ASSUME IInv, RunTypeOK,
           \/ \E c \in calls : CompleteRun(c)
           \/ \E s \in Sweeper : FinalizePendingRuns(s)
           \/ \E s \in Sweeper, r \in Run : FinalizeNext(s, r)
           \/ \E a \in Finalizer : FinalizeStep(a)
    PROVE  RunTypeOK'
<1> USE DEF cloudVars, published
<1>1. ASSUME NEW c \in calls, CompleteRun(c) PROVE RunTypeOK'
  <2>1. RunOf[c.job] \in Run
    BY PoolAssumption DEF IInv, TypeOK, Call
  <2>2. fin' \in [Finalizer -> Fin]
    BY <1>1, <2>1, FinTypes, ExceptType DEF RunTypeOK, CompleteRun
  <2> QED
    BY <1>1, <2>2 DEF RunTypeOK, CompleteRun
<1>2. ASSUME NEW s \in Sweeper, FinalizePendingRuns(s) PROVE RunTypeOK'
  BY <1>2 DEF RunTypeOK, FinalizePendingRuns
<1>3. ASSUME NEW s \in Sweeper, NEW r \in Run, FinalizeNext(s, r) PROVE RunTypeOK'
  <2>1. fin' \in [Finalizer -> Fin]
    BY <1>3, FinTypes, ExceptType DEF RunTypeOK, FinalizeNext
  <2>2. todo' \in [Sweeper -> SUBSET Run]
    BY <1>3 DEF RunTypeOK, FinalizeNext
  <2> QED
    BY <1>3, <2>1, <2>2 DEF RunTypeOK, FinalizeNext
<1>4. ASSUME NEW a \in Finalizer, FinalizeStep(a) PROVE RunTypeOK'
  <2>1. fin[a] \in Fin
    BY DEF RunTypeOK
  <2>2. PICK x \in Fin : fin' = [fin EXCEPT ![a] = x]
    <3>1. CASE FinalizeClaim(a)
      BY <2>1, <3>1, FinTypes, FinPhases DEF FinalizeClaim
    <3>2. CASE FinalizeScore(a)
      <4>1. PICK v \in Outcome(fin[a].run) :
              fin' = [fin EXCEPT ![a] = [phase |-> "scored", run |-> fin[a].run, verdict |-> v]]
        BY <3>2 DEF FinalizeScore
      <4>2. v \in Verdict
        BY DEF Outcome, Verdict
      <4>3. fin[a].run \in Run
        BY <2>1, <3>2, FinPhases DEF FinalizeScore
      <4> QED
        BY <4>1, <4>2, <4>3, FinTypes
    <3>3. CASE FinalizeWrite(a)
      <4>1. fin[a].run \in Run /\ fin[a].verdict \in Verdict
        BY <2>1, <3>3, FinPhases DEF FinalizeWrite
      <4> QED
        BY <3>3, <4>1, FinTypes DEF FinalizeWrite
    <3>4. CASE FinalizePublish(a) \/ FinalizeLost(a)
      BY <3>4, FinTypes DEF FinalizePublish, FinalizeLost
    <3> QED
      BY <1>4, <3>1, <3>2, <3>3, <3>4 DEF FinalizeStep
  <2>3. fin' \in [Finalizer -> Fin]
    BY <2>2, ExceptType DEF RunTypeOK
  <2>4. CASE FinalizeClaim(a)
    BY <2>3, <2>4 DEF RunTypeOK, FinalizeClaim
  <2>5. CASE FinalizeScore(a)
    BY <2>3, <2>5 DEF RunTypeOK, FinalizeScore
  <2>6. CASE FinalizeWrite(a)
    <3>1. runStatus' \in [Run -> RunStatus]
      <4>1. fin[a].verdict \in RunStatus
        BY <2>1, <2>6, FinPhases DEF FinalizeWrite, Verdict, RunStatus
      <4> QED
        BY <2>6, <4>1, ExceptType DEF RunTypeOK, FinalizeWrite
    <3> QED
      BY <2>3, <2>6, <3>1 DEF RunTypeOK, FinalizeWrite
  <2>7. CASE FinalizePublish(a)
    <3>1. finishedFrames' \in [Run -> Nat]
      BY <2>7, IncType DEF RunTypeOK, FinalizePublish
    <3> QED
      BY <2>3, <2>7, <3>1 DEF RunTypeOK, FinalizePublish
  <2>8. CASE FinalizeLost(a)
    BY <2>3, <2>8 DEF RunTypeOK, FinalizeLost
  <2> QED
    BY <1>4, <2>4, <2>5, <2>6, <2>7, <2>8 DEF FinalizeStep
<1> QED
  BY <1>1, <1>2, <1>3, <1>4

\* The steps that leave every finaliser where it is.
LEMMA StatusStepType ==
    ASSUME IInv, RunTypeOK, NEW r \in Run,
           \/ CancelRead(r) \/ CancelWrite(r) \/ CancelShards(r) \/ CancelLost(r)
           \/ CloudReap(r) \/ CloudClaim(r) \/ CloudScore(r) \/ CloudReport(r)
    PROVE  RunTypeOK'
<1> USE DEF cloudVars, published
<1>1. CASE CancelRead(r)
  BY <1>1 DEF RunTypeOK, CancelRead
<1>2. CASE CancelWrite(r)
  BY <1>2 DEF RunTypeOK, CancelWrite, RunStatus
<1>3. CASE CancelShards(r)
  BY <1>3 DEF RunTypeOK, CancelShards
<1>4. CASE CancelLost(r)
  BY <1>4 DEF RunTypeOK, CancelLost
<1>5. CASE CloudReap(r)
  BY <1>5 DEF RunTypeOK, CloudReap
<1>6. CASE CloudClaim(r)
  BY <1>6 DEF RunTypeOK, CloudClaim
<1>7. CASE CloudScore(r)
  BY <1>7 DEF RunTypeOK, CloudScore
<1>8. CASE CloudReport(r)
  <2>1. cloud[r] \in RunStatus
    BY <1>8 DEF CloudReport, RunStatus
  <2>2. runStatus' \in [Run -> RunStatus]
    BY <1>8, <2>1 DEF RunTypeOK, CloudReport
  <2>3. finishedFrames' \in [Run -> Nat]
    BY <1>8, IncType DEF RunTypeOK, CloudReport
  <2> QED
    BY <1>8, <2>2, <2>3 DEF RunTypeOK, CloudReport
<1> QED
  BY <1>1, <1>2, <1>3, <1>4, <1>5, <1>6, <1>7, <1>8

\* Starting a run keeps the types of the run.
LEMMA StartStepType ==
    ASSUME IInv, RunTypeOK, NEW w \in Runner, StartRun(w)
    PROVE  RunTypeOK'
<1> DEFINE r == RunOf[claim[w].job]
<1> USE DEF cloudVars, published
<1>1. CASE started[r]
  BY <1>1 DEF RunTypeOK, StartRun
<1>2. CASE ~started[r]
  <2>1. runStatus' \in [Run -> RunStatus]
    <3>1. "RUNNING" \in RunStatus
      BY DEF RunStatus
    <3> QED
      BY <1>2, <3>1, ExceptType DEF RunTypeOK, StartRun
  <2>2. started' \in [Run -> BOOLEAN]
    BY <1>2, ExceptType DEF RunTypeOK, StartRun
  <2>3. startedFrames' \in [Run -> Nat]
    BY <1>2, IncType DEF RunTypeOK, StartRun
  <2> QED
    BY <2>1, <2>2, <2>3 DEF RunTypeOK, StartRun
<1> QED
  BY <1>1, <1>2

\* Every step keeps the types of the run.
LEMMA RunTypeStep == IInv /\ RunTypeOK /\ [RunNext]_allVars => RunTypeOK'
<1> SUFFICES ASSUME IInv, RunTypeOK, [RunNext]_allVars PROVE RunTypeOK'
  OBVIOUS
<1>1. CASE UNCHANGED runVars
  BY <1>1 DEF RunTypeOK, runVars, published
<1>2. CASE UNCHANGED allVars
  BY <1>1, <1>2 DEF allVars
<1> QED
  BY <1>1, <1>2, FinStepType, StatusStepType, StartStepType DEF RunNext

\* They hold before the first run is created.
LEMMA RunTypeInit == RunInit => RunTypeOK
<1>1. IdleFin \in Fin
  BY FinTypes
<1> QED
  BY <1>1 DEF RunInit, RunTypeOK, RunStatus

\* The rows of the jobs stay well typed and properly leased while runs start,
\* are cancelled and are finalised.
LEMMA PoolInvariance == RunSpec => []IInv
BY RunsThePool, Invariance, PTL

\* Every variable of a run has its type.
THEOREM RunTypeCorrect == RunSpec => []RunTypeOK
BY RunTypeInit, RunTypeStep, PoolInvariance, PTL DEF RunSpec

-------------------------------------------------------------------------------
(***************************************************************************)
(* One verdict                                                             *)
(*                                                                         *)
(* OneVerdict is inductive given the types: whoever sets finalizedAt found *)
(* it null, so nobody else is finishing the run and nothing is announced.  *)
(***************************************************************************)

\* A step that adds no finisher and announces nothing.
LEMMA VerdictKept ==
    ASSUME OneVerdict, \A r \in Run : Finishing(r)' \subseteq Finishing(r),
           cloud' = cloud, finalized' = finalized, finishedFrames' = finishedFrames
    PROVE  OneVerdict'
BY DEF OneVerdict, CloudFinishing

\* The claim is granted while finalizedAt is null: to the first who asks.
LEMMA VerdictClaim ==
    ASSUME RunTypeOK, OneVerdict, NEW a \in Finalizer, FinalizeClaim(a)
    PROVE  OneVerdict'
<1> USE DEF cloudVars, published
<1>0. PICK r \in Run : r = fin[a].run
  <2>1. fin[a] \in Fin
    BY DEF RunTypeOK
  <2> QED
    BY <2>1, FinPhases DEF FinalizeClaim
<1>1. CASE AllDone(r) /\ ~finalized[r]
  <2>1. Finishing(r) = {} /\ ~CloudFinishing(r) /\ finishedFrames[r] = 0
    BY <1>0, <1>1 DEF OneVerdict, RunTypeOK
  <2>2. fin' = [fin EXCEPT ![a] = [phase |-> "claimed", run |-> r, verdict |-> "NONE"]]
    BY <1>0, <1>1 DEF FinalizeClaim
  <2>3. finalized' = [finalized EXCEPT ![r] = TRUE]
    BY <1>0, <1>1 DEF FinalizeClaim
  <2>4. cloud' = cloud /\ finishedFrames' = finishedFrames
    BY DEF FinalizeClaim
  <2>5. Finishing(r)' \subseteq {a}
    BY <2>1, <2>2 DEF Finishing, RunTypeOK
  <2>6. ASSUME NEW q \in Run, q # r PROVE Finishing(q)' \subseteq Finishing(q)
    BY <2>2, <2>6 DEF Finishing, RunTypeOK
  <2>7. finalized'[r] /\ \A q \in Run : q # r => finalized'[q] = finalized[q]
    BY <1>0, <2>3 DEF RunTypeOK
  <2> QED
    BY <2>1, <2>4, <2>5, <2>6, <2>7 DEF OneVerdict, CloudFinishing
<1>2. CASE ~(AllDone(r) /\ ~finalized[r])
  <2>1. fin' = [fin EXCEPT ![a] = IdleFin] /\ finalized' = finalized
    BY <1>0, <1>2 DEF FinalizeClaim
  <2>2. \A q \in Run : Finishing(q)' \subseteq Finishing(q)
    BY <2>1 DEF Finishing, RunTypeOK, IdleFin
  <2> QED
    BY <2>1, <2>2, VerdictKept DEF FinalizeClaim
<1> QED
  BY <1>1, <1>2

\* Publishing ends the claim with the one announcement it allows.
LEMMA VerdictPublish ==
    ASSUME RunTypeOK, OneVerdict, NEW a \in Finalizer, FinalizePublish(a)
    PROVE  OneVerdict'
<1> DEFINE r == fin[a].run
<1> USE DEF cloudVars, published
<1>0. fin[a] \in Fin /\ r \in Run
  BY FinPhases DEF RunTypeOK, FinalizePublish
<1>1. a \in Finishing(r)
  BY DEF Finishing, FinalizePublish
<1>2. finalized[r] /\ finishedFrames[r] = 0 /\ ~CloudFinishing(r) /\ Finishing(r) = {a}
  BY <1>0, <1>1 DEF OneVerdict
<1>3. /\ finishedFrames' = [finishedFrames EXCEPT ![r] = @ + 1]
      /\ fin' = [fin EXCEPT ![a] = IdleFin]
      /\ finalized' = finalized /\ cloud' = cloud
  BY DEF FinalizePublish
<1>4. finishedFrames'[r] = 1 /\ \A q \in Run : q # r => finishedFrames'[q] = finishedFrames[q]
  BY <1>0, <1>2, <1>3 DEF RunTypeOK
<1>5. \A q \in Run : Finishing(q)' \subseteq Finishing(q) \ {a}
  BY <1>3 DEF Finishing, RunTypeOK, IdleFin
<1> QED
  BY <1>2, <1>3, <1>4, <1>5 DEF OneVerdict, CloudFinishing

\* The steps of a finaliser keep one verdict per run.
LEMMA VerdictFinalize ==
    ASSUME RunTypeOK, OneVerdict, NEW a \in Finalizer, FinalizeStep(a)
    PROVE  OneVerdict'
<1> USE DEF cloudVars, published
<1>1. CASE FinalizeScore(a) \/ FinalizeWrite(a)
  <2>1. \A q \in Run : Finishing(q)' \subseteq Finishing(q)
    BY <1>1 DEF FinalizeScore, FinalizeWrite, Finishing, RunTypeOK
  <2> QED
    BY <1>1, <2>1, VerdictKept DEF FinalizeScore, FinalizeWrite
<1>2. CASE FinalizeLost(a)
  <2>1. \A q \in Run : Finishing(q)' \subseteq Finishing(q)
    BY <1>2 DEF FinalizeLost, Finishing, RunTypeOK, IdleFin
  <2> QED
    BY <1>2, <2>1, VerdictKept DEF FinalizeLost
<1> QED
  BY <1>1, <1>2, VerdictClaim, VerdictPublish DEF FinalizeStep

\* So do those of the cloud sweep, which claims the same column.
LEMMA VerdictCloud ==
    ASSUME RunTypeOK, OneVerdict, NEW r \in Run,
           CloudReap(r) \/ CloudClaim(r) \/ CloudScore(r) \/ CloudReport(r)
    PROVE  OneVerdict'
<1> USE DEF published
<1>0. /\ fin' = fin
      /\ \A q \in Run : Finishing(q)' = Finishing(q)
      /\ \A q \in Run : q # r => cloud'[q] = cloud[q]
  BY DEF CloudReap, CloudClaim, CloudScore, CloudReport, Finishing, RunTypeOK
<1>1. CASE CloudReap(r)
  <2>1. finalized' = finalized /\ finishedFrames' = finishedFrames
    BY <1>1 DEF CloudReap
  <2>2. ~CloudFinishing(r)'
    BY <1>1 DEF CloudReap, CloudFinishing, RunTypeOK
  <2> QED
    BY <1>0, <2>1, <2>2 DEF OneVerdict, CloudFinishing
<1>2. CASE CloudClaim(r)
  <2>1. /\ finishedFrames' = finishedFrames
        /\ finalized'[r]
        /\ \A q \in Run : q # r => finalized'[q] = finalized[q]
    BY <1>2 DEF CloudClaim, RunTypeOK
  <2>2. CASE finalized[r]
    <3>1. ~CloudFinishing(r)'
      BY <1>2, <2>2 DEF CloudClaim, CloudFinishing, RunTypeOK
    <3> QED
      BY <1>0, <2>1, <2>2, <3>1 DEF OneVerdict, CloudFinishing
  <2>3. CASE ~finalized[r]
    <3>1. Finishing(r) = {} /\ finishedFrames[r] = 0
      BY <2>3 DEF OneVerdict, RunTypeOK
    <3> QED
      BY <1>0, <2>1, <3>1 DEF OneVerdict, CloudFinishing
  <2> QED
    BY <2>2, <2>3
<1>3. CASE CloudScore(r)
  <2>1. finalized' = finalized /\ finishedFrames' = finishedFrames /\ CloudFinishing(r)
    BY <1>3 DEF CloudScore, CloudFinishing
  <2> QED
    BY <1>0, <2>1 DEF OneVerdict, CloudFinishing
<1>4. CASE CloudReport(r)
  <2>1. finalized' = finalized /\ ~CloudFinishing(r)' /\ CloudFinishing(r)
    BY <1>4 DEF CloudReport, CloudFinishing, RunTypeOK
  <2>2. Finishing(r) = {} /\ finalized[r] /\ finishedFrames[r] = 0
    BY <2>1 DEF OneVerdict
  <2>3. /\ finishedFrames'[r] \in {0, 1}
        /\ \A q \in Run : q # r => finishedFrames'[q] = finishedFrames[q]
    BY <1>4, <2>2 DEF CloudReport, RunTypeOK
  <2> QED
    BY <1>0, <2>1, <2>2, <2>3 DEF OneVerdict, CloudFinishing
<1> QED
  BY <1>1, <1>2, <1>3, <1>4

\* Every step keeps one verdict per run.
LEMMA VerdictStep ==
    IInv /\ RunTypeOK /\ OneVerdict /\ [RunNext]_allVars => OneVerdict'
<1> SUFFICES ASSUME IInv, RunTypeOK, OneVerdict, [RunNext]_allVars PROVE OneVerdict'
  OBVIOUS
<1> USE DEF cloudVars, published
<1>1. CASE UNCHANGED <<fin, cloud, finalized, finishedFrames>>
  <2>1. \A r \in Run : Finishing(r)' \subseteq Finishing(r)
    BY <1>1 DEF Finishing
  <2> QED
    BY <1>1, <2>1, VerdictKept
<1>2. CASE UNCHANGED allVars \/ UNCHANGED runVars
  BY <1>1, <1>2 DEF allVars, runVars
<1>3. ASSUME NEW r \in Run, CancelRead(r) \/ CancelWrite(r) \/ CancelShards(r) \/ CancelLost(r)
      PROVE  OneVerdict'
  BY <1>1, <1>3 DEF CancelRead, CancelWrite, CancelShards, CancelLost
<1>4. ASSUME NEW w \in Runner, StartRun(w) PROVE OneVerdict'
  BY <1>1, <1>4 DEF StartRun
<1>5. ASSUME NEW c \in calls, CompleteRun(c) PROVE OneVerdict'
  <2>1. \A r \in Run : Finishing(r)' \subseteq Finishing(r)
    BY <1>5 DEF CompleteRun, Finishing, RunTypeOK, Due
  <2> QED
    BY <1>5, <2>1, VerdictKept DEF CompleteRun
<1>6. ASSUME NEW s \in Sweeper, FinalizePendingRuns(s) PROVE OneVerdict'
  BY <1>1, <1>6 DEF FinalizePendingRuns
<1>7. ASSUME NEW s \in Sweeper, NEW r \in Run, FinalizeNext(s, r) PROVE OneVerdict'
  <2>1. \A q \in Run : Finishing(q)' \subseteq Finishing(q)
    BY <1>7 DEF FinalizeNext, Finishing, RunTypeOK, Due
  <2> QED
    BY <1>7, <2>1, VerdictKept DEF FinalizeNext
<1> QED
  BY <1>2, <1>3, <1>4, <1>5, <1>6, <1>7, VerdictCloud, VerdictFinalize DEF RunNext

\* There is none at first.
LEMMA VerdictInit == RunInit => OneVerdict
BY DEF RunInit, OneVerdict, Finishing, CloudFinishing, IdleFin

\* However many completions and sweeps, of this API and of the cloud worker,
\* find a run done at once, one of them reports it.
THEOREM OneVerdictHolds == RunSpec => []OneVerdict
BY VerdictInit, VerdictStep, PoolInvariance, RunTypeCorrect, PTL DEF RunSpec

-------------------------------------------------------------------------------
(***************************************************************************)
(* The report, as RunReport has it                                         *)
(*                                                                         *)
(* A run whose claimants, frames and finalizedAt stay as they are is where *)
(* it was.  The other steps are told by OneVerdict: that the claimant is   *)
(* alone is why its end is the end of the claim.                           *)
(***************************************************************************)

\* Whoever holds the right to report a run, a finaliser or the cloud sweep.
ClaimedBy(r) == Finishing(r) # {} \/ CloudFinishing(r)

\* What a step makes of the report of one run, in the terms of the rows.
Stays(r) ==
    /\ finalized'[r] = finalized[r]
    /\ finishedFrames'[r] = finishedFrames[r]
    /\ ClaimedBy(r)' <=> ClaimedBy(r)
Takes(r) == ~finalized[r] /\ finalized'[r] /\ ClaimedBy(r)' /\ finishedFrames'[r] = finishedFrames[r]
Announces(r) == ClaimedBy(r) /\ finishedFrames'[r] = finishedFrames[r] + 1
Silences(r) ==
    ClaimedBy(r) /\ ~ClaimedBy(r)' /\ finalized'[r] /\ finishedFrames'[r] = finishedFrames[r]
Moves(r) == Stays(r) \/ Takes(r) \/ Announces(r) \/ Silences(r)

\* A step moves the report of one run at most.
MovesOne == \E r \in Run : Moves(r) /\ \A q \in Run : q # r => Stays(q)
StaysAll == \A q \in Run : Stays(q)

\* A step that leaves the claims, finalizedAt and the frames alone moves no report.
LEMMA ReportsStay ==
    ASSUME \A r \in Run : Finishing(r)' = Finishing(r),
           cloud' = cloud, finalized' = finalized, finishedFrames' = finishedFrames
    PROVE  StaysAll
BY DEF StaysAll, Stays, ClaimedBy, CloudFinishing

\* A finaliser that ends its claim was the only one that had it.
LEMMA SoleClaim ==
    ASSUME RunTypeOK, OneVerdict, NEW a \in Finalizer, NEW r \in Run, fin[a].run = r,
           fin[a].phase \in {"claimed", "scored", "written"}, fin' = [fin EXCEPT ![a] = IdleFin],
           cloud' = cloud
    PROVE  /\ finalized[r] /\ finishedFrames[r] = 0
           /\ ClaimedBy(r) /\ ~ClaimedBy(r)'
           /\ \A q \in Run : q # r => Finishing(q)' = Finishing(q)
<1>1. a \in Finishing(r)
  BY DEF Finishing
<1>2. Finishing(r) = {a} /\ ~CloudFinishing(r) /\ finalized[r] /\ finishedFrames[r] = 0
  BY <1>1 DEF OneVerdict
<1>3. \A q \in Run : Finishing(q)' = Finishing(q) \ {a}
  BY DEF Finishing, RunTypeOK, IdleFin
<1>4. Finishing(r)' = {} /\ ~CloudFinishing(r)'
  BY <1>2, <1>3 DEF CloudFinishing
<1>5. \A q \in Run : q # r => a \notin Finishing(q)
  BY DEF Finishing
<1> QED
  BY <1>1, <1>2, <1>3, <1>4, <1>5 DEF ClaimedBy

\* A finaliser takes the right to report its run, gives it up, or announces.
LEMMA FinalizeMoves ==
    ASSUME RunTypeOK, OneVerdict, NEW a \in Finalizer, FinalizeStep(a)
    PROVE  MovesOne \/ StaysAll
<1> USE DEF cloudVars, published
<1>0. ASSUME fin[a].phase # "idle" PROVE fin[a].run \in Run
  BY <1>0, FinPhases DEF RunTypeOK
<1>1. CASE FinalizeClaim(a)
  <2>1. PICK r \in Run : r = fin[a].run
    BY <1>0, <1>1 DEF FinalizeClaim
  <2>2. CASE AllDone(r) /\ ~finalized[r]
    <3>1. /\ fin' = [fin EXCEPT ![a] = [phase |-> "claimed", run |-> r, verdict |-> "NONE"]]
          /\ finalized' = [finalized EXCEPT ![r] = TRUE]
          /\ cloud' = cloud /\ finishedFrames' = finishedFrames
      BY <1>1, <2>1, <2>2 DEF FinalizeClaim
    <3>2. fin[a].phase = "due"
      BY <1>1 DEF FinalizeClaim
    <3>3. a \in Finishing(r)'
      BY <2>1, <3>1 DEF Finishing, RunTypeOK
    <3>4. \A q \in Run : q # r => Finishing(q)' = Finishing(q)
      BY <2>1, <3>1, <3>2 DEF Finishing, RunTypeOK
    <3>5. finalized'[r] /\ \A q \in Run : q # r => finalized'[q] = finalized[q]
      BY <2>1, <3>1 DEF RunTypeOK
    <3>6. Takes(r)
      BY <2>2, <3>1, <3>3, <3>5 DEF Takes, ClaimedBy
    <3>7. \A q \in Run : q # r => Stays(q)
      BY <3>1, <3>4, <3>5 DEF Stays, ClaimedBy, CloudFinishing
    <3> QED
      BY <2>1, <3>6, <3>7 DEF MovesOne, Moves
  <2>3. CASE ~(AllDone(r) /\ ~finalized[r])
    <3>1. fin' = [fin EXCEPT ![a] = IdleFin] /\ fin[a].phase = "due"
      BY <1>1, <2>1, <2>3 DEF FinalizeClaim
    <3>2. \A q \in Run : Finishing(q)' = Finishing(q)
      BY <3>1 DEF Finishing, RunTypeOK, IdleFin
    <3> QED
      BY <1>1, <2>1, <2>3, <3>2, ReportsStay DEF FinalizeClaim
  <2> QED
    BY <2>2, <2>3
<1>2. CASE FinalizeScore(a) \/ FinalizeWrite(a)
  <2>1. \A q \in Run : Finishing(q)' = Finishing(q)
    BY <1>2 DEF FinalizeScore, FinalizeWrite, Finishing, RunTypeOK
  <2> QED
    BY <1>2, <2>1, ReportsStay DEF FinalizeScore, FinalizeWrite
<1>3. CASE FinalizePublish(a)
  <2>1. PICK r \in Run : r = fin[a].run
    BY <1>0, <1>3 DEF FinalizePublish
  <2>2. /\ fin[a].phase = "written" /\ fin' = [fin EXCEPT ![a] = IdleFin]
        /\ finishedFrames' = [finishedFrames EXCEPT ![r] = @ + 1]
        /\ finalized' = finalized /\ cloud' = cloud
    BY <1>3, <2>1 DEF FinalizePublish
  <2>3. ClaimedBy(r) /\ \A q \in Run : q # r => Finishing(q)' = Finishing(q)
    BY <2>1, <2>2, SoleClaim
  <2>4. /\ finishedFrames'[r] = finishedFrames[r] + 1
        /\ \A q \in Run : q # r => finishedFrames'[q] = finishedFrames[q]
    BY <2>2 DEF RunTypeOK
  <2> QED
    BY <2>2, <2>3, <2>4 DEF MovesOne, Moves, Announces, Stays, ClaimedBy, CloudFinishing
<1>4. CASE FinalizeLost(a)
  <2>1. /\ fin[a].phase # "idle" /\ fin' = [fin EXCEPT ![a] = IdleFin]
        /\ finishedFrames' = finishedFrames /\ finalized' = finalized /\ cloud' = cloud
    BY <1>4 DEF FinalizeLost
  <2>2. CASE fin[a].phase \in {"claimed", "scored", "written"}
    <3>1. PICK r \in Run : r = fin[a].run
      BY <1>0, <2>1
    <3>2. /\ finalized[r] /\ ClaimedBy(r) /\ ~ClaimedBy(r)'
          /\ \A q \in Run : q # r => Finishing(q)' = Finishing(q)
      BY <2>1, <2>2, <3>1, SoleClaim
    <3> QED
      BY <2>1, <3>2 DEF MovesOne, Moves, Silences, Stays, ClaimedBy, CloudFinishing
  <2>3. CASE fin[a].phase \notin {"claimed", "scored", "written"}
    <3>1. \A q \in Run : Finishing(q)' = Finishing(q)
      BY <2>1, <2>3 DEF Finishing, RunTypeOK, IdleFin
    <3> QED
      BY <2>1, <3>1, ReportsStay
  <2> QED
    BY <2>2, <2>3
<1> QED
  BY <1>1, <1>2, <1>3, <1>4 DEF FinalizeStep

\* The cloud sweep takes the same right, and announces unless the run was cancelled.
LEMMA CloudMoves ==
    ASSUME RunTypeOK, OneVerdict, NEW r \in Run,
           CloudReap(r) \/ CloudClaim(r) \/ CloudScore(r) \/ CloudReport(r)
    PROVE  MovesOne
<1> USE DEF published
<1>1. /\ \A q \in Run : Finishing(q)' = Finishing(q)
      /\ \A q \in Run : q # r =>
            /\ cloud'[q] = cloud[q] /\ finalized'[q] = finalized[q]
            /\ finishedFrames'[q] = finishedFrames[q]
  BY DEF CloudReap, CloudClaim, CloudScore, CloudReport, Finishing, RunTypeOK
<1>2. \A q \in Run : q # r => Stays(q)
  BY <1>1 DEF Stays, ClaimedBy, CloudFinishing
<1>3. CASE CloudReap(r) \/ CloudScore(r)
  <2>1. /\ CloudFinishing(r)' <=> CloudFinishing(r)
        /\ finalized' = finalized /\ finishedFrames' = finishedFrames
    BY <1>3 DEF CloudReap, CloudScore, CloudFinishing, RunTypeOK
  <2>2. Stays(r)
    BY <1>1, <2>1 DEF Stays, ClaimedBy
  <2> QED
    BY <1>2, <2>2 DEF MovesOne, Moves
<1>4. CASE CloudClaim(r)
  <2>1. /\ finalized'[r] /\ finishedFrames' = finishedFrames
        /\ cloud'[r] = IF finalized[r] THEN "idle" ELSE "claimed"
        /\ cloud[r] = "reaped"
    BY <1>4 DEF CloudClaim, RunTypeOK
  <2>2. CASE finalized[r]
    <3>1. Stays(r)
      BY <1>1, <2>1, <2>2 DEF Stays, ClaimedBy, CloudFinishing, RunTypeOK
    <3> QED
      BY <1>2, <3>1 DEF MovesOne, Moves
  <2>3. CASE ~finalized[r]
    <3>1. Takes(r)
      BY <2>1, <2>3 DEF Takes, ClaimedBy, CloudFinishing
    <3> QED
      BY <1>2, <3>1 DEF MovesOne, Moves
  <2> QED
    BY <2>2, <2>3
<1>5. CASE CloudReport(r)
  <2>1. CloudFinishing(r) /\ ~CloudFinishing(r)' /\ finalized' = finalized
    BY <1>5 DEF CloudReport, CloudFinishing, RunTypeOK
  <2>2. Finishing(r) = {} /\ finalized[r]
    BY <2>1 DEF OneVerdict
  <2>3. finishedFrames'[r] \in {finishedFrames[r], finishedFrames[r] + 1}
    BY <1>5 DEF CloudReport, RunTypeOK
  <2>4. Silences(r) \/ Announces(r)
    BY <1>1, <2>1, <2>2, <2>3 DEF Silences, Announces, ClaimedBy
  <2> QED
    BY <1>2, <2>4 DEF MovesOne, Moves
<1> QED
  BY <1>3, <1>4, <1>5

\* Every step moves the report of one run, or of none.
LEMMA RunMoves ==
    ASSUME RunTypeOK, OneVerdict, [RunNext]_allVars
    PROVE  MovesOne \/ StaysAll
<1> USE DEF cloudVars, published
<1>1. ASSUME UNCHANGED <<fin, cloud, finalized, finishedFrames>> PROVE StaysAll
  <2>1. \A r \in Run : Finishing(r)' = Finishing(r)
    BY <1>1 DEF Finishing
  <2> QED
    BY <1>1, <2>1, ReportsStay
<1>2. CASE UNCHANGED allVars \/ UNCHANGED runVars
  BY <1>1, <1>2 DEF allVars, runVars
<1>3. ASSUME NEW r \in Run, CancelRead(r) \/ CancelWrite(r) \/ CancelShards(r) \/ CancelLost(r)
      PROVE  StaysAll
  BY <1>1, <1>3 DEF CancelRead, CancelWrite, CancelShards, CancelLost
<1>4. ASSUME NEW w \in Runner, StartRun(w) PROVE StaysAll
  BY <1>1, <1>4 DEF StartRun
<1>5. ASSUME NEW c \in calls, CompleteRun(c) PROVE StaysAll
  <2>1. \A r \in Run : Finishing(r)' = Finishing(r)
    BY <1>5 DEF CompleteRun, Finishing, RunTypeOK, Due
  <2> QED
    BY <1>5, <2>1, ReportsStay DEF CompleteRun
<1>6. ASSUME NEW s \in Sweeper, FinalizePendingRuns(s) PROVE StaysAll
  BY <1>1, <1>6 DEF FinalizePendingRuns
<1>7. ASSUME NEW s \in Sweeper, NEW r \in Run, FinalizeNext(s, r) PROVE StaysAll
  <2>1. \A q \in Run : Finishing(q)' = Finishing(q)
    BY <1>7 DEF FinalizeNext, Finishing, RunTypeOK, Due
  <2> QED
    BY <1>7, <2>1, ReportsStay DEF FinalizeNext
<1> QED
  BY <1>2, <1>3, <1>4, <1>5, <1>6, <1>7, CloudMoves, FinalizeMoves DEF RunNext

\* A move in the terms of the rows is a step of RunReport, or none.
LEMMA ReportMove ==
    ASSUME RunTypeOK, OneVerdict, OneVerdict', NEW r \in Run
    PROVE  /\ Stays(r) => ReportOf(r)' = ReportOf(r)
           /\ Takes(r) => ReportOf(r) = "open" /\ ReportOf(r)' = "claimed"
           /\ Announces(r) => ReportOf(r) = "claimed" /\ ReportOf(r)' = "announced"
           /\ Silences(r) => ReportOf(r) = "claimed" /\ ReportOf(r)' = "silent"
<1>1. /\ finishedFrames[r] \in Nat
      /\ ClaimedBy(r) => finalized[r] /\ finishedFrames[r] = 0
      /\ finishedFrames[r] > 0 => finalized[r]
  BY DEF RunTypeOK, OneVerdict, ClaimedBy
<1>2. Stays(r) => ReportOf(r)' = ReportOf(r)
  BY DEF Stays, ReportOf, ClaimedBy
<1>3. Takes(r) => ReportOf(r) = "open" /\ ReportOf(r)' = "claimed"
  BY <1>1 DEF Takes, ReportOf, ClaimedBy
<1>4. Announces(r) => ReportOf(r) = "claimed" /\ ReportOf(r)' = "announced"
  BY <1>1 DEF Announces, ReportOf, ClaimedBy
<1>5. Silences(r) => ReportOf(r) = "claimed" /\ ReportOf(r)' = "silent"
  BY <1>1 DEF Silences, ReportOf, ClaimedBy
<1> QED
  BY <1>2, <1>3, <1>4, <1>5

\* So every step of the run is one of RunReport, or none.
LEMMA ReportStep ==
    RunTypeOK /\ OneVerdict /\ OneVerdict' /\ [RunNext]_allVars
        => [Report!Next]_([r \in Run |-> ReportOf(r)])
<1> SUFFICES ASSUME RunTypeOK, OneVerdict, OneVerdict', [RunNext]_allVars
             PROVE  [Report!Next]_([r \in Run |-> ReportOf(r)])
  OBVIOUS
<1> DEFINE report == [r \in Run |-> ReportOf(r)]
<1>1. CASE StaysAll
  <2>1. \A r \in Run : ReportOf(r)' = ReportOf(r)
    BY <1>1, ReportMove DEF StaysAll
  <2> QED
    BY <2>1
<1>2. CASE MovesOne
  <2>1. PICK r \in Run : Moves(r) /\ \A q \in Run : q # r => Stays(q)
    BY <1>2 DEF MovesOne
  <2>2. \A q \in Run : q # r => ReportOf(q)' = ReportOf(q)
    BY <2>1, ReportMove
  <2>3. \A v : ReportOf(r)' = v => report' = [report EXCEPT ![r] = v]
    BY <2>1, <2>2
  <2>4. CASE Stays(r)
    <3>1. ReportOf(r)' = ReportOf(r)
      BY <2>4, ReportMove
    <3>2. report' = report
      BY <2>2, <3>1
    <3> QED
      BY <3>2
  <2>5. CASE Takes(r)
    <3>1. Report!Claim(r)
      BY <2>3, <2>5, ReportMove DEF Report!Claim
    <3> QED
      BY <3>1 DEF Report!Next
  <2>6. CASE Announces(r)
    <3>1. Report!Announce(r)
      BY <2>3, <2>6, ReportMove DEF Report!Announce
    <3> QED
      BY <3>1 DEF Report!Next
  <2>7. CASE Silences(r)
    <3>1. Report!FallSilent(r)
      BY <2>3, <2>7, ReportMove DEF Report!FallSilent
    <3> QED
      BY <3>1 DEF Report!Next
  <2> QED
    BY <2>1, <2>4, <2>5, <2>6, <2>7 DEF Moves
<1> QED
  BY <1>1, <1>2, RunMoves

\* At first the right to report is open.
LEMMA ReportInit == RunInit => Report!Init
BY DEF RunInit, ReportOf, Report!Init

\* The pool's finalisers and the cloud worker's sweep, which find the same run over by
\* different rules, report it as one executor would: claimed by one of them and announced
\* at most once, whichever of them dies (finalizeIfComplete, completeShardedRun).
THEOREM RunReportsOnce == RunSpec => ReportSpec
<1>1. RunSpec => [](RunTypeOK /\ OneVerdict)
  BY RunTypeCorrect, OneVerdictHolds, PTL
<1>2. RunTypeOK /\ OneVerdict /\ OneVerdict' /\ [RunNext]_allVars
         => [Report!Next]_([r \in Run |-> ReportOf(r)])
  BY ReportStep
<1> QED
  BY <1>1, <1>2, ReportInit, PTL DEF RunSpec, ReportSpec, Report!Spec

-------------------------------------------------------------------------------
(***************************************************************************)
(* Starting once                                                           *)
(***************************************************************************)

\* run.started has been announced exactly when startedAt is set, and once.
StartIsAnnounced == \A r \in Run : startedFrames[r] = IF started[r] THEN 1 ELSE 0

\* A run is announced by the step that sets startedAt, which is never unset.
LEMMA AnnouncedStep ==
    IInv /\ RunTypeOK /\ StartIsAnnounced /\ [RunNext]_allVars => StartIsAnnounced'
<1> SUFFICES ASSUME IInv, RunTypeOK, StartIsAnnounced, [RunNext]_allVars
             PROVE  StartIsAnnounced'
  OBVIOUS
<1> USE DEF cloudVars, published
<1>1. CASE UNCHANGED <<started, startedFrames>>
  BY <1>1 DEF StartIsAnnounced
<1>2. CASE UNCHANGED allVars \/ UNCHANGED runVars
  BY <1>1, <1>2 DEF allVars, runVars
<1>3. ASSUME NEW w \in Runner, StartRun(w) PROVE StartIsAnnounced'
  <2> DEFINE r == RunOf[claim[w].job]
  <2>1. CASE started[r]
    BY <1>1, <1>3, <2>1 DEF StartRun
  <2>2. CASE ~started[r]
    <3>1. /\ started' = [started EXCEPT ![r] = TRUE]
          /\ startedFrames' = [startedFrames EXCEPT ![r] = @ + 1]
      BY <1>3, <2>2 DEF StartRun
    <3> QED
      BY <2>2, <3>1 DEF StartIsAnnounced, RunTypeOK
  <2> QED
    BY <2>1, <2>2
<1>4. ASSUME NEW r \in Run,
             \/ CancelRead(r) \/ CancelWrite(r) \/ CancelShards(r) \/ CancelLost(r)
             \/ CloudReap(r) \/ CloudClaim(r) \/ CloudScore(r)
      PROVE  StartIsAnnounced'
  BY <1>1, <1>4 DEF CancelRead, CancelWrite, CancelShards, CancelLost, CloudReap, CloudClaim,
                    CloudScore
<1>5. ASSUME NEW r \in Run, CloudReport(r) PROVE StartIsAnnounced'
  BY <1>1, <1>5 DEF CloudReport
<1>6. ASSUME NEW c \in calls, CompleteRun(c) PROVE StartIsAnnounced'
  BY <1>1, <1>6 DEF CompleteRun
<1>7. ASSUME NEW s \in Sweeper,
             FinalizePendingRuns(s) \/ \E r \in Run : FinalizeNext(s, r)
      PROVE  StartIsAnnounced'
  BY <1>1, <1>7 DEF FinalizePendingRuns, FinalizeNext
<1>8. ASSUME NEW a \in Finalizer, FinalizeStep(a) PROVE StartIsAnnounced'
  BY <1>1, <1>8 DEF FinalizeStep, FinalizeClaim, FinalizeScore, FinalizeWrite,
                    FinalizePublish, FinalizeLost
<1> QED
  BY <1>2, <1>3, <1>4, <1>5, <1>6, <1>7, <1>8 DEF RunNext

\* However many runners claim slices of a run at once, it is announced as
\* started at most once.
THEOREM StartsOnceHolds == RunSpec => []StartsOnce
<1>1. RunInit => StartIsAnnounced
  BY DEF RunInit, StartIsAnnounced
<1>2. StartIsAnnounced => StartsOnce
  BY DEF StartIsAnnounced, StartsOnce
<1> QED
  BY <1>1, <1>2, AnnouncedStep, PoolInvariance, RunTypeCorrect, PTL DEF RunSpec

-------------------------------------------------------------------------------
(***************************************************************************)
(* What a verdict is about                                                 *)
(***************************************************************************)

\* No step of the run gives a finished job another status.
LEMMA DoneStays ==
    ASSUME IInv, [RunNext]_allVars
    PROVE  \A j \in Job : Terminal(j) => status'[j] = status[j] /\ Terminal(j)'
<1> SUFFICES ASSUME NEW j \in Job, Terminal(j) PROVE status'[j] = status[j]
  BY DEF Terminal
<1>1. RowStep(j)
  BY PoolStep, NextRow
<1>2. ~Moved(j) /\ ~Granted(j) /\ ~Kept(j) /\ ~TakenAway(j)
  BY DEF Moved, Granted, Kept, TakenAway, Held, HELD, TERMINAL_JOB, Terminal
<1> QED
  BY <1>1, <1>2 DEF RowStep, Same

-------------------------------------------------------------------------------
(***************************************************************************)
(* Never green untested                                                    *)
(*                                                                         *)
(* A verdict is computed from rows that are all terminal, so what it says  *)
(* of them stays true; the finaliser carries that knowledge from its claim *)
(* to its write, over every step of everybody else.                        *)
(***************************************************************************)
Tested(r) ==
    /\ AllDone(r)
    /\ \A j \in Slices(r) : status[j] # "ABANDONED"
    /\ \E j \in Slices(r) : status[j] # "SKIPPED"

\* What a finaliser in state x knows of its run.
Supported(x) ==
    /\ x.phase \in {"claimed", "scored", "written"} => AllDone(x.run)
    /\ x.phase \in {"scored", "written"} /\ x.verdict = "PASSED" => Tested(x.run)

GreenIsTested ==
    /\ \A a \in Finalizer : Supported(fin[a])
    /\ \A r \in Run : runStatus[r] = "PASSED" => Tested(r)

\* So what is known of the jobs of a run stays true: all over, and some tested.
LEMMA KnowledgeStays ==
    ASSUME IInv, [RunNext]_allVars
    PROVE  /\ \A r \in Run : AllDone(r) => AllDone(r)'
           /\ \A r \in Run : Tested(r) => Tested(r)'
           /\ \A x \in Fin : Supported(x) => Supported(x)'
<1>1. ASSUME NEW r, AllDone(r) PROVE AllDone(r)' /\ (Tested(r) => Tested(r)')
  <2>1. \A j \in Slices(r) : j \in Job /\ Terminal(j)
    BY <1>1 DEF AllDone, Slices
  <2>2. \A j \in Slices(r) : status'[j] = status[j] /\ Terminal(j)'
    BY <2>1, DoneStays
  <2> QED
    BY <1>1, <2>2 DEF AllDone, Tested, Slices
<1>2. \A r : (AllDone(r) => AllDone(r)') /\ (Tested(r) => Tested(r)')
  BY <1>1 DEF Tested
<1> QED
  BY <1>2 DEF Supported

\* A step that changes at most one finaliser, to one that knows its run, and
\* no status, or a status to one that is not PASSED.
LEMMA GreenKept ==
    ASSUME IInv, RunTypeOK, GreenIsTested, [RunNext]_allVars,
           \/ fin' = fin
           \/ \E a \in Finalizer : \E x \in Fin : Supported(x) /\ fin' = [fin EXCEPT ![a] = x],
           \A r \in Run : runStatus'[r] = "PASSED" => runStatus[r] = "PASSED" \/ Tested(r)
    PROVE  GreenIsTested'
<1>1. \A b \in Finalizer : Supported(fin[b])'
  <2>1. ASSUME NEW b \in Finalizer PROVE Supported(fin[b])'
    <3>1. PICK y \in Fin : y = fin'[b] /\ Supported(y)
      BY DEF GreenIsTested, RunTypeOK
    <3>2. Supported(y)'
      BY <3>1, KnowledgeStays
    <3> QED
      BY <3>1, <3>2 DEF Supported
  <2> QED
    BY <2>1
<1>2. ASSUME NEW r \in Run, runStatus'[r] = "PASSED" PROVE Tested(r)'
  <2>1. Tested(r)
    BY <1>2 DEF GreenIsTested
  <2> QED
    BY <2>1, KnowledgeStays
<1> QED
  BY <1>1, <1>2 DEF GreenIsTested

\* The finaliser's own steps: it learns at its claim that every job is over,
\* and scores PASSED only over rows that are Tested.
LEMMA GreenFinalize ==
    ASSUME IInv, RunTypeOK, GreenIsTested, [RunNext]_allVars,
           NEW a \in Finalizer, FinalizeStep(a)
    PROVE  GreenIsTested'
<1> DEFINE Now(x) == fin' = [fin EXCEPT ![a] = x]
<1>1. fin[a] \in Fin /\ Supported(fin[a])
  BY DEF RunTypeOK, GreenIsTested
<1>2. IdleFin \in Fin /\ Supported(IdleFin)
  BY FinTypes DEF IdleFin, Supported
<1>3. CASE FinalizeClaim(a)
  <2>1. PICK x \in Fin : Supported(x) /\ Now(x)
    <3>1. CASE AllDone(fin[a].run) /\ ~finalized[fin[a].run]
      <4> DEFINE x == [phase |-> "claimed", run |-> fin[a].run, verdict |-> "NONE"]
      <4>1. x \in Fin
        BY <1>1, <1>3, FinTypes, FinPhases DEF FinalizeClaim
      <4>2. Supported(x)
        BY <3>1 DEF Supported
      <4>3. Now(x)
        BY <1>3, <3>1 DEF FinalizeClaim
      <4> QED
        BY <4>1, <4>2, <4>3
    <3>2. CASE ~(AllDone(fin[a].run) /\ ~finalized[fin[a].run])
      BY <1>2, <1>3, <3>2 DEF FinalizeClaim
    <3> QED
      BY <3>1, <3>2
  <2>2. runStatus' = runStatus
    BY <1>3 DEF FinalizeClaim
  <2> QED
    BY <2>1, <2>2, GreenKept
<1>4. CASE FinalizeScore(a)
  <2>1. PICK v \in Outcome(fin[a].run) :
          Now([phase |-> "scored", run |-> fin[a].run, verdict |-> v])
    BY <1>4 DEF FinalizeScore
  <2> DEFINE x == [phase |-> "scored", run |-> fin[a].run, verdict |-> v]
  <2>2. fin[a].run \in Run /\ AllDone(fin[a].run)
    BY <1>1, <1>4, FinPhases DEF FinalizeScore, Supported
  <2>3. v \in Verdict
    BY DEF Outcome, Verdict
  <2>4. v = "PASSED" => Tested(fin[a].run)
    BY <2>2 DEF Outcome, Tested
  <2>5. x \in Fin
    BY <2>2, <2>3, FinTypes
  <2>6. Supported(x)
    BY <2>2, <2>4 DEF Supported
  <2>7. runStatus' = runStatus
    BY <1>4 DEF FinalizeScore
  <2> HIDE DEF x
  <2> QED
    BY <2>1, <2>5, <2>6, <2>7, GreenKept DEF x
<1>5. CASE FinalizeWrite(a)
  <2> DEFINE x == [phase |-> "written", run |-> fin[a].run, verdict |-> fin[a].verdict]
  <2>1. fin[a].run \in Run /\ fin[a].verdict \in Verdict /\ AllDone(fin[a].run)
    BY <1>1, <1>5, FinPhases DEF FinalizeWrite, Supported
  <2>2. fin[a].verdict = "PASSED" => Tested(fin[a].run)
    BY <1>1, <1>5 DEF FinalizeWrite, Supported
  <2>3. x \in Fin
    BY <2>1, FinTypes
  <2>4. Supported(x)
    BY <2>1, <2>2 DEF Supported
  <2>5. Now(x)
    BY <1>5 DEF FinalizeWrite
  <2>6. \A r \in Run : runStatus'[r] = "PASSED" => runStatus[r] = "PASSED" \/ Tested(r)
    BY <1>5, <2>2 DEF FinalizeWrite, RunTypeOK
  <2> QED
    BY <2>3, <2>4, <2>5, <2>6, GreenKept
<1>6. CASE FinalizePublish(a) \/ FinalizeLost(a)
  <2>1. Now(IdleFin) /\ runStatus' = runStatus
    BY <1>6 DEF FinalizePublish, FinalizeLost
  <2> QED
    BY <1>2, <2>1, GreenKept
<1> QED
  BY <1>3, <1>4, <1>5, <1>6 DEF FinalizeStep

\* Every step keeps a green verdict over tested jobs.
LEMMA GreenStep ==
    IInv /\ RunTypeOK /\ GreenIsTested /\ [RunNext]_allVars => GreenIsTested'
<1> SUFFICES ASSUME IInv, RunTypeOK, GreenIsTested, [RunNext]_allVars
             PROVE  GreenIsTested'
  OBVIOUS
<1>1. CASE /\ fin' = fin
           /\ \A r \in Run : runStatus'[r] = "PASSED" => runStatus[r] = "PASSED"
  BY <1>1, GreenKept
<1>2. CASE UNCHANGED allVars \/ UNCHANGED runVars
  BY <1>1, <1>2 DEF allVars, runVars
<1>3. ASSUME NEW w \in Runner, StartRun(w) PROVE GreenIsTested'
  <2>1. fin' = fin
    BY <1>3 DEF StartRun
  <2>2. \A r \in Run : runStatus'[r] = "PASSED" => runStatus[r] = "PASSED"
    BY <1>3 DEF StartRun, RunTypeOK
  <2> QED
    BY <1>1, <2>1, <2>2
<1>4. ASSUME NEW q \in Run,
             \/ CancelRead(q) \/ CancelWrite(q) \/ CancelShards(q) \/ CancelLost(q)
             \/ CloudReap(q) \/ CloudClaim(q) \/ CloudScore(q) \/ CloudReport(q)
      PROVE  GreenIsTested'
  <2>1. fin' = fin
    BY <1>4 DEF CancelRead, CancelWrite, CancelShards, CancelLost, CloudReap, CloudClaim,
                CloudScore, CloudReport
  <2>2. CASE runStatus' = runStatus
    BY <1>1, <2>1, <2>2
  <2>3. CASE CancelWrite(q) \/ CloudReport(q)
    <3>1. \A r \in Run : runStatus'[r] = "PASSED" => runStatus[r] = "PASSED"
      BY <2>3 DEF CancelWrite, CloudReport, RunTypeOK
    <3> QED
      BY <1>1, <2>1, <3>1
  <2> QED
    BY <1>4, <2>2, <2>3 DEF CancelRead, CancelShards, CancelLost, CloudReap, CloudClaim,
                            CloudScore
<1>5. ASSUME NEW c \in calls, CompleteRun(c) PROVE GreenIsTested'
  <2>1. RunOf[c.job] \in Run /\ c.job \in Finalizer
    BY PoolAssumption DEF IInv, TypeOK, Call, Finalizer
  <2>2. Due(RunOf[c.job]) \in Fin /\ Supported(Due(RunOf[c.job]))
    BY <2>1, FinTypes DEF Due, Supported
  <2> QED
    BY <1>5, <2>1, <2>2, GreenKept DEF CompleteRun
<1>6. ASSUME NEW s \in Sweeper, FinalizePendingRuns(s) PROVE GreenIsTested'
  BY <1>1, <1>6 DEF FinalizePendingRuns
<1>7. ASSUME NEW s \in Sweeper, NEW r \in Run, FinalizeNext(s, r) PROVE GreenIsTested'
  <2>1. Due(r) \in Fin /\ Supported(Due(r)) /\ s \in Finalizer
    BY FinTypes DEF Due, Supported, Finalizer
  <2> QED
    BY <1>7, <2>1, GreenKept DEF FinalizeNext
<1> QED
  BY <1>2, <1>3, <1>4, <1>5, <1>6, <1>7, GreenFinalize DEF RunNext

\* A run is never PASSED over a job every runner dropped, or with no job that
\* ran, in whatever order completions, sweeps, cancels and claims arrive.
THEOREM NeverGreen == RunSpec => []NeverGreenUntested
<1>1. RunInit => GreenIsTested
  BY DEF RunInit, GreenIsTested, Supported, IdleFin
<1>2. GreenIsTested => NeverGreenUntested
  BY DEF GreenIsTested, NeverGreenUntested, Tested
<1> QED
  BY <1>1, <1>2, GreenStep, PoolInvariance, RunTypeCorrect, PTL DEF RunSpec

-------------------------------------------------------------------------------
(***************************************************************************)
(* Finished when every job is                                              *)
(***************************************************************************)
ScoredIsDone == \A r \in Run : runStatus[r] \in {"PASSED", "FAILED"} => AllDone(r)

\* Only a finaliser gives a run the status PASSED or FAILED: it was scored.
LEMMA ScoredBy ==
    ASSUME RunTypeOK, GreenIsTested, [RunNext]_allVars
    PROVE  \A q \in Run : runStatus'[q] \in {"PASSED", "FAILED"} =>
                              runStatus[q] \in {"PASSED", "FAILED"} \/ AllDone(q)
<1>1. CASE runStatus' = runStatus
  BY <1>1
<1>2. CASE UNCHANGED allVars \/ UNCHANGED runVars
  BY <1>1, <1>2 DEF allVars, runVars
<1>3. ASSUME NEW w \in Runner, StartRun(w)
      PROVE  \A q \in Run : runStatus'[q] \in {"PASSED", "FAILED"} => runStatus'[q] = runStatus[q]
  BY <1>3 DEF StartRun, RunTypeOK
<1>4. ASSUME NEW r \in Run, CancelWrite(r) \/ CloudReport(r)
      PROVE  \A q \in Run : runStatus'[q] \in {"PASSED", "FAILED"} => runStatus'[q] = runStatus[q]
  BY <1>4 DEF CancelWrite, CloudReport, RunTypeOK
<1>5. ASSUME NEW r \in Run,
             \/ CancelRead(r) \/ CancelShards(r) \/ CancelLost(r)
             \/ CloudReap(r) \/ CloudClaim(r) \/ CloudScore(r)
      PROVE  runStatus' = runStatus
  BY <1>5 DEF CancelRead, CancelShards, CancelLost, CloudReap, CloudClaim, CloudScore
<1>6. ASSUME NEW c \in calls, CompleteRun(c) PROVE runStatus' = runStatus
  BY <1>6 DEF CompleteRun
<1>7. ASSUME NEW s \in Sweeper,
             FinalizePendingRuns(s) \/ \E r \in Run : FinalizeNext(s, r)
      PROVE  runStatus' = runStatus
  BY <1>7 DEF FinalizePendingRuns, FinalizeNext
<1>8. ASSUME NEW a \in Finalizer,
             FinalizeClaim(a) \/ FinalizeScore(a) \/ FinalizePublish(a) \/ FinalizeLost(a)
      PROVE  runStatus' = runStatus
  BY <1>8 DEF FinalizeClaim, FinalizeScore, FinalizePublish, FinalizeLost
<1>9. ASSUME NEW a \in Finalizer, FinalizeWrite(a)
      PROVE  \A q \in Run : runStatus'[q] = runStatus[q] \/ AllDone(q)
  <2>1. AllDone(fin[a].run)
    BY <1>9 DEF FinalizeWrite, GreenIsTested, Supported
  <2> QED
    BY <1>9, <2>1 DEF FinalizeWrite, RunTypeOK
<1> QED
  BY <1>1, <1>2, <1>3, <1>4, <1>5, <1>6, <1>7, <1>8, <1>9 DEF RunNext, FinalizeStep

\* Whoever may report a run, and whenever it is PASSED or FAILED, every job of it
\* is over and none of them ever comes back.
THEOREM FinalisedWhenDone == RunSpec => []FinalisedOnlyWhenDone
<1>1. RunInit => GreenIsTested /\ ScoredIsDone
  BY DEF RunInit, GreenIsTested, ScoredIsDone, Supported, IdleFin
<1>2. IInv /\ RunTypeOK /\ GreenIsTested /\ ScoredIsDone /\ [RunNext]_allVars => ScoredIsDone'
  <2> SUFFICES ASSUME IInv, RunTypeOK, GreenIsTested, ScoredIsDone, [RunNext]_allVars,
                      NEW r \in Run, runStatus'[r] \in {"PASSED", "FAILED"}
               PROVE  AllDone(r)'
    BY DEF ScoredIsDone
  <2>1. AllDone(r)
    BY ScoredBy DEF ScoredIsDone
  <2> QED
    BY <2>1, KnowledgeStays
<1>3. GreenIsTested /\ ScoredIsDone => FinalisedOnlyWhenDone
  <2> SUFFICES ASSUME GreenIsTested, ScoredIsDone, NEW r \in Run,
                      Finishing(r) # {} \/ runStatus[r] \in {"PASSED", "FAILED"}
               PROVE  AllDone(r)
    BY DEF FinalisedOnlyWhenDone, AllDone
  <2>1. ASSUME NEW a \in Finishing(r) PROVE AllDone(r)
    BY <2>1 DEF Finishing, GreenIsTested, Supported
  <2> QED
    BY <2>1 DEF ScoredIsDone
<1> QED
  BY <1>1, <1>2, <1>3, GreenStep, PoolInvariance, RunTypeCorrect, PTL DEF RunSpec
===============================================================================

# QAAI: specifications and proofs

QAAI runs customers' test suites. A run is created through the API
(`apps/api`), executed by cloud workers (`apps/worker`) or by agents a customer
hosts (`packages/cli/src/runner.ts`), and reported once, with a verdict a merge
gate relies on. This directory specifies the parts of it where a mistake is
easiest to make and hardest to test: **many processes, one database, no lock
but the conditional update**. These are the two executors of a run (the on-prem
runner pool and the cloud workers), the tick that starts runs, the sweep that
keeps sign-in sessions alive, the payment webhook, the rotation of the vault
key, and the pool of browsers the tests of one process share, where the
interleaving is that of callbacks and awaits.

Everything below is written from the code. Where a comment, a document or a
test of the repository says something the code does not do, it is listed under
*Disagreements*; one of them has a run that refutes the sentence.

## 1. Inventory

| Component | State it keeps | Operations | Interacts with | What is hard | What makes it correct |
|---|---|---|---|---|---|
| **On-prem runner pool** `apps/api/src/lib/runners.ts`, `routes/runners.ts` | `RunnerJob` (status, runnerId, leaseId, deadline, attempt, queuedAt), `Runner` (token, revokedAt, lastSeenAt, capabilities) | create jobs, long-poll claim, heartbeat, results, logs, artifacts, release, complete, reap, skip unservable, rotate, revoke | agents over HTTP; the run row; several API instances over one database | check, await, write; leases against paused agents; two statements per administrative action; crash between statements | one holder at a time; an old lease has no effect; what ended stays ended; no job is lost |
| **On-prem run** same files and `routes/runs.ts` | `Run.status`, `startedAt`, `finalizedAt` | start at first claim, cancel, finalise (completion, sweep) | jobs, cloud sweep, subscribers | several finalisers at once; crash after the claim on `finalizedAt`; cancel racing report | reported once, only when all jobs are over, never green over abandoned or only skipped jobs |
| **Cloud run and shards** `apps/worker/src/processors/run.ts` | `RunShard` (status, heartbeat), `Run`, `TestResult` | queue, deliver, claim shard, start, execute, record, reap, complete, sweep, fail from a dead job, cancel, stop | BullMQ (at least once), cancel | redelivery, slow workers taken for dead ones, crash at every await | one report, every slice accounted for, never green over what nobody executed |
| **Verdict** `packages/runner/src/gates.ts` | none | `tallyResult`, `evaluateGates`, `runOutcome` | both finalisers | quarantine, skipped and untyped results | nothing tested is never PASSED |
| **On-prem agent** `packages/cli/src/runner.ts` | held job, heartbeat timer | loop, execute, report, release on stop | runner API | lease lost while executing | stops writing when fenced |
| **Browser pool** `packages/runner/src/browser-pool.ts` | entries by launch key, leases, pending launch, idle timer | acquire, release, evict, idle close, disconnect, shutdown | executors of one process | every await point of `checkout` | no browser closed under a lease, none leaked, bounded |
| **Run dispatch and quota** `lib/start-run.ts` | usage counter | ask the quota, create, count | API requests, schedules | check then act; death before the count | the quota is passed by races alone |
| **Scheduler** `processors/schedule.ts`, `routes/schedules.ts` | `Schedule` (cron, enabled, nextRunAt) | tick, claim, start, edit | quota, BullMQ, monitors, re-enumerations, fail-fast | death between claim and run, edits under a tick | each firing once, nothing stays due |
| **Billing** `routes/billing.ts` | `StripeEventSeen`, `Subscription`, `Organization` plan and dunning state | webhook: subscription, checkout, payment failed, invoice paid | Stripe (redelivered, reordered) | crash or exception between claim and handling | newest state wins, one mail per failure, every plan change audited |
| **Auth refresh** `processors/auth-refresh.ts`, `lib/session-store.ts` | session columns and failure counter of `AuthProfile` | tick, refresh, seal brake | runs and people who write the same columns | overlapping ticks on rows read before | bounded failures, no session on another's expiry, what is due is refreshed |
| **Vault and key rotation** `lib/vault.ts`, `scripts/rotate-vault-key.ts` | key versions, `KeyRotationSweep` | seal, open, sweep, compromise | every secret, every process's keyring | rotation while writing, a killed sweep, processes that boot | an exit code of 0 says what is under the old key |
| **Heals** `processors/verify-heal.ts` | heal status | start, verify, supersede | runs | concurrent heals of one test | one applied heal |
| **Sessions, throttle** `lib/sessions.ts`, `lib/throttle.ts` | session, failures | login, refresh, revoke | browsers | concurrent failures | revoked stays revoked |
| **Retention and storage** `processors/retention.ts`, `packages/storage/src/gc.ts` | artifacts | sweep, collect | runs | collecting what is in use | nothing live collected |

`PROJECT.json` lists the remaining components (coverage, generation and
exploration, triage and flake, copilot, source analysis, notification,
plugins, queues, UI, schema, scripts) with the reason each is left out, and
under `hazards` what in this code is hard to test, at the line where it bites.

## 2. Modules

| Module | What it is |
|---|---|
| `RunnerJobs` | the jobs, the leases, the agents' calls, administration, the sweep |
| `JobLease` | what the pool promises: an exclusive, fenced lease, in 6 actions |
| `OnPremRun` | extends `RunnerJobs` with the run row: start, cancel, finalise, the cloud sweep |
| `CloudRun` | a run on QAAI's own workers: jobs, shards, finalisers, the sweep, cancel and stop |
| `RunReport` | what the executor of a run promises: one process claims the report, and makes it at most once |
| `Scheduler` | the minute tick, the requests, and the quota both pass |
| `Billing` | Stripe's webhook |
| `AuthRefresh` | the hourly session sweep, with the runs and people beside it |
| `KeyRotation` | the rotation tool, the API beside it, the operator |
| `BrowserPool` | the browsers of one worker process: borrow, launch, evict, idle out, shut down |
| `X_proofs`, for `X` each of the above but `JobLease` and `RunReport` | the theorems about `X` (section 5) |
| `MC...` | finite instances for TLC |

### RunnerJobs

**Grain.** One database statement is one step. A handler that reads, awaits and
writes is a process with a step per statement:

* `claim[w]` is the long poll a runner has open: `polling` (between two looks at
  the queue), `trying` (candidates read, conditional update to come),
  `assigning` (job claimed, answer to come).
* `calls` holds the calls of agents that are past `requireLease` and have their
  write ahead of them. `calls` is a set, so any of them may be the next to be
  written, at any later time.
* `sweep[s]` is the sweep of each API instance: reap, read the waiting jobs,
  read the runners and decide, write each job and then its results, finalise.
* `releasing` holds the runners whose rotate or revoke handler has changed the
  credential and has not yet released the jobs.

| Code | Actions |
|---|---|
| `createRunnerJobs` (dispatch and repair endpoint) | `CreateRunnerJobs` |
| `requireRunner` | guard `Accepted`, effect `Seen` |
| `POST /claim`, `claimNextJob` | `ClaimBegin`, `ClaimFind`, `ClaimTake`, `ClaimAnswer`, `ClaimGiveUp` |
| `requireLease` | guard `HoldsLease` of `ResultsBegin`, `RelayBegin`, `ReleaseBegin`, `CompleteBegin` |
| heartbeat | `Heartbeat` |
| results | `ResultsBegin`, `ResultsWrite`, `RenewLease` |
| logs, artifacts | `RelayBegin`, `RenewLease` |
| release, complete | `ReleaseWrite`, `CompleteWrite` |
| rotate, revoke, `releaseRunnerJobs` | `Rotate`, `Revoke`, then `ReleaseRunnerJobs` |
| `sweepOrg`, `reapExpiredLeases`, `skipUnservableJobs` | `SweepReap`, `SweepRead`, `SweepJudge`, `SkipJob`, `StampSkipped`, `SweepSkipped`, `SweepEnd`, `SkipFails` |
| process death, failed statement | `CallLost`, `ClaimLost`, `SweepLost` |

**Abstractions.** Time is three Booleans the code compares it for: `lapsed`
(lease deadline), `aged` (grace since `queuedAt`) and `online`. Each flips in a
step of its own whenever it likes, which covers every clock. The fencing token,
a fresh UUID, is the number of the claim that minted it. Pools, capabilities and
requirements are the set `serves[w]` of jobs a runner could execute, changed by
`Hello`. The results of a slice are one verdict, `result[j]`, whose initial
value is the SKIPPED placeholder that run creation writes. The two updates of
`reapExpiredLeases` have disjoint guards over one `now` and are one step. A batch
of results, a transaction per test in the code, is one write.

### OnPremRun

Every step of `RunnerJobs` is a step of `OnPremRun`. `StartRun` conjoins the end
of `POST /claim` with `ClaimAnswer`, `CompleteRun` the call of
`finalizeIfComplete` with `CompleteWrite`, and `FinalizePendingRuns` the last
part of the sweep with `SweepEnd`. A finaliser, one per job's completion and one
per sweep, goes through `due`, `claimed` (it has set `finalizedAt`), `scored`
(it has read the rows and has a verdict) and `written`; `FinalizeLost` ends it
anywhere. `Outcome` is `runOutcome` as far as this run can tell verdicts apart;
a project's gate may turn a pass into a failure, hence the nondeterminism.
`CancelRead`, `CancelWrite` and `CancelShards` are the three statements of the
cancel handler. `CloudReap` to `CloudReport` are `sweepStalledShardedRuns`, whose
query also returns sharded on-prem runs.

### JobLease

`phase`, `token`, `grants` and `pending` per job, and the rule that a request has an
effect only while its token is the current one. `RunnerJobs!LeaseSpec` is that
specification under the mapping `phase` from the status, `token` from `lease`,
`grants` from `attempt`, `pending` from `calls`.

### CloudRun and RunReport

**Grain.** One statement, or one stretch of code between two awaits that write, is
one step. `exec[e]` is `processRun` of one delivery of a job, `fin[f]` a finaliser:
that of an execution, that of the scheduler's sweep, or `failRunFromDeadJob`.

| Code | Actions |
|---|---|
| the head of `processRun`, `claimShard` | `Deliver`, `ClaimShard` |
| the conditional start | `Start` |
| the loop over the tests | `Poll` (cancelled, stopped or reported), `Persist`, `Errs` |
| the shard's final status; `finalizeRun` of an unsharded run | `RecordShard`, `FinalizeWhole` |
| `completeShardedRun`, `reapDeadShards` | `ReapSilent`, `ReapQueued`, `LookAtShards`, `ClaimRun`, `Count` |
| `finalizeRun` | `WriteVerdict`, `Publish` |
| `failRunFromDeadJob` | `Rescue` |
| `sweepStalledShardedRuns` | `SweepBegins` and the finaliser's steps |
| BullMQ, processes and time | `JobThrows`, `WorkerDies`, `SweepDies`, `Stalled`, `FallsSilent`, `Beat` |
| cancel, stop | `CancelRead`, `CancelWrite`, `CancelShards`, `RequestStop` |
| `queueRun` of `schedule.ts`, once its enqueueing has settled | `MarkUnqueued`, `CloseUnqueued` |

A run begins in one of two ways, both in `Init`. `POST /runs` enqueues its slices and does nothing
about one it cannot enqueue: that slice is left to the sweep, and its job is one that is
never delivered. `queueRun` of a schedule goes on: it marks the slices it was refused
ABANDONED, by their indexes and whatever they say (`MarkUnqueued`), and when it was refused all of
them it writes ERRORED and `finalizedAt` itself, whatever the run says, and sends no frame
(`CloseUnqueued`). `Refusals` are the cases it may meet. Since a queue may take a job and fail to
say so, a refused slice need not be `gone`, and a worker may have it before it is marked.

**Abstractions.** `stale[s]` is the age of the heartbeat, or of the queue entry,
against the limit it is compared with. A job that is lost is
one that is never delivered; how often a job is delivered is bounded by the number of
deliveries, `Exec`. `Mortal` and `Slow` are the deliveries whose worker may die, or be paused. The counts of a run and the read of its status are one step, what
`runOutcome` makes of them a set. The statements that set up a run before its first
test are `Errs` when one throws, the three places that ask for a stop are one. The
labels NOT_RUN and CANCELLED that tests nobody executed get are still
`placeholder`. The query of the sweep asks for at least five minutes of age and takes a
hundred runs; the model's sweep may come at any time.

`RunReport` has four steps per run: claim, announce, fall silent, and close, for a run nobody
can execute. `CloudRun!ReportSpec` is that specification with the right to report read off
`finalizedAt`, whose holder a finaliser is from `ClaimRun` or `Rescue` on, unless
`CloseUnqueued` has set it. It
says nothing of an unsharded run, which has no such right (see *Not modelled*).
`OnPremRun!ReportSpec` is the same specification of an on-prem run, whose holders are the
pool's finalisers and the cloud sweep; it is proved, and no run of its own checks it.

### Scheduler

A tick reads the due schedules and then takes them one by one: `Claim` moves a
schedule on, `Gate`, `CreateRun`, `CountRun` are `startRun`, `Enqueue` or
`EnqueueFails` what the caller does with the run. A request of the API is the same four steps
without the first. `EditSchedule` is the PATCH, `Dies` a process that ends
between two statements. Time is a small number, and a cron fires every so many units
of it. `fired` and `uncounted` are history variables.

### Billing

Stripe has a subscription and a log of events, each delivered in any order
until it is answered, and `MaxRepeats` times more. A delivery goes
through `AlreadySeen` and `Claim` (the insert into `StripeEventSeen`), then
the statements of its handler: `Retrieve` (a checkout's subscription is fetched),
`Order`, `Before`, `Upsert`, `Apply`, `Audit`; or `PaymentFailed`,
`MarkPastDue`, `MailOwners`; or `InvoicePaid`, `ClearPastDue`. `Throws` is the
catch block, which gives the claim back, `Dies` a process that cannot. The time of an event is
its position in the log. `overlapped` and `died` are history variables the
properties of a settled state speak of.

### AuthRefresh

`tick[t]` is one run of `processAuthRefreshTick`: `TickBegins` is its query, with
the order and the limit of the code (`place` is the order of attempts, which no two
profiles share; `Worklist` is what the query may answer); `Skip`, `Attempt` and `RecordAttempt` work
through what was read, `WriteFails` and `WorkerDies` are the ways out. `RunSignsIn`
and `RunSaves` are the session part of a run, `PersonSignsIn` the sign-in from the
cockpit, `SetsBrake` the operator's control of `SESSION_STATE_SEAL`. A session is
fresh, due or expired; its owner is the column whose expiry the row carries, a history
variable in all but name, as the code keeps one expiry for two columns. A
candidate keeps of the row that was read whether its session was still usable, and the
failures. Whether a backoff is over is not decided.

### KeyRotation

One field, `Secret.valueEnc`, from key 1 to key 2. `ToolStarts` to `ToolExits` are
the sweep of `rotate-vault-key.ts`, with its page, its cursor and the row
`KeyRotationSweep`; `StoreSecret` and `DeleteSecret` are the API, whose processes
seal with the keyring of their boot. `Boot` is a process that starts and has the implicit keyring,
of key 1 alone, as the server listens before its keyring is loaded and goes on when that fails;
`Install` is the load. `Compromise` is the operator giving key 1 up, at any
time, since neither `compromise` nor `markKeyCompromised` asks for anything; only `ToolStarts`
looks at it (`canSweep`). Of a secret the model keeps the version of its key and whether it
opens. `late` is a history variable: what was stored under key 1 since the tool last exited
with 0, and everything before it has.

### BrowserPool

**Grain.** The code is asynchronous and runs on one thread, so a step is what
happens between two awaits. `caller[c]` says where the acquire or release of a
test is suspended:

| Code | Actions |
|---|---|
| `acquireBrowser`, `checkout` up to the first await | `Acquire` (`Pass`: `Use`, `Insert`, `Evict`), `AcquireDirect` |
| `await closeEntry(evicted)` returns | `Evicted` |
| `await closeEntry(entry); continue` returns | `Retry` |
| `await entry.pending` is fulfilled, is rejected | `Launched`, `Refused` |
| `launchInto` | `LaunchOpens`, `LaunchRejects` |
| `browser.close()` answers | `CloseReturns` |
| a browser process dies, `attachDisconnect` | `Crash`, then `Disconnected` |
| `releaseEntry` up to, and after, the close of the contexts | `Release`, `Cleared` |
| the timer of `scheduleIdleClose`, `closeEntry` | `IdleFires`, `CloseEntry` |
| `shutdownBrowserPool` | `Shutdown` |
| `directLease` and its release | `GiveBack` |

`phase` is `evicting`, `retrying` or `waiting` at the three awaits of `checkout`,
`launched` or `refused` once the launch awaited has settled, `clearing` in
`releaseEntry`, `leased` or `direct` while a test runs. A continuation whose promise has
settled is a microtask: it runs before the next timer, answer or event of a
browser is taken up (`EventLoop`), but calls of other tests may run before it.

**Abstractions.** An entry adopts at most one browser in its life, so both have
one name, and a name is used again once nothing refers to the object. `leases`
is the counter of the code, kept apart from who holds what, so that the two can
disagree. The order of `lastUsedSeq` is the set `older[e]` of mapped entries used
before `e`. Time is absent: an armed timer may fire at any moment. A
`Crash` and its `disconnected` event are two steps, as the code, which asks
`isConnected()`, assumes.

## 3. Runs

The bounds of the runner pool and its runs are constants: `MaxClaims` (claims of one job),
`MaxCalls` (calls in flight), `Events` (which parts of the environment act),
`Outcomes` and `Completions` (what agents report), `Take` (25 in the code), and
`MaxAttempts` (3 in the code). The other modules name theirs likewise: `MaxEvents`,
`MaxRepeats`, `MaxFaults`, `MaxTime`, `MaxFailures`, `Take`, `Batch`. Runs whose instance
really has nothing left to do at the end have `CHECK_DEADLOCK FALSE`; `BrowserPool`,
`AuthRefresh`, `KeyRotation` and `Scheduler` are checked for deadlock.

| Run | Instance | Shows |
|---|---|---|
| `OnPremRunFence` | 1 job, 2 agents (symmetric), the sweep, 2 claims, 2 calls in flight; rotate, release | `TypeOK`, `LeaseIntegrity`, `HolderKeepsJob`, and `LeaseSpec` (implementation) |
| `OnPremRunSweep` | 2 jobs of a run, 2 agents (symmetric), the sweep; silence, grace | `StartsOnce`, `NeverGreenUntested`, `TerminalIsFinal` |
| `OnPremRunShared` | 2 jobs of a run, 1 agent; crashes, cancel, cloud sweep | `RunTypeOK`, `OneVerdict`, `FinalisedOnlyWhenDone` |
| `OnPremRunLive` | 1 job, 2 attempts; a dying, silent or revoked agent, grace, changing capabilities; fair | `DeadHolderLosesJob`, `DeadFleetReports` |
| `CloudRun` | 2 slices of a test each, one delivered twice with a slow first worker; cancel, sweeps and finalisers that die, 3 cases of refused slices | `CloudTypeOK`, `FinalisedWhenAllDone`, `NeverGreenUnexecuted`, and `ReportSpec` (implementation) |
| `CloudRunLive` | 2 slices, one delivered twice, its first worker mortal; throws, stops, 3 cases of refused slices; fair | `ShardedRunReports` |
| `Scheduler` | 2 schedules, 2 crons (one does not parse), 1 request, a cap of 1, 3 instants, 1 fault; fair | `SchedulerTypeOK`, `OverCapOnlyByRaces`, `FiresOnce`, `NoneStaysDue` |
| `Billing` | 3 events, 2 deliveries at a time (symmetric), 1 repetition, 1 fault | `BillingTypeOK`, `MailedOnce`, `PlanIsNewest`, `DunningIsNewest`, `PlanMovesAudited` |
| `AuthRefresh` | 1 profile, 2 ticks, a cap of 2 failures, a run and a person; fair | `AuthRefreshTypeOK`, `CapHolds`, `CarriedOnItsOwnExpiry`, `DueIsRefreshed`, `ArmedPlaintextGoes` |
| `KeyRotation` | 4 rows (1 unopenable) in pages of 2, 2 API processes that boot (1 with the old keyring at first), key 1 compromised at any time, 2 faults; fair | `KeyRotationTypeOK`, `ExitZeroProves`, `SweepProvesIt` |
| `BrowserPool` | 2 callers, 2 configurations, room for 1 browser, 4 entry names; fair | `PoolTypeOK`, `NoStrayBrowser`, `IdleBrowserExpires`, `KeptAliveBounded`, `NotClosedUnderLease`, `AcquireReturns` |
| `LostEvent` | 1 event, 2 deliveries, a throw | refutes `AnsweredIsRecorded` |

`RunnerJobs` has no run of its own. Its properties are checked in `OnPremRun`, whose every step is one of
the pool's (`RunsThePool`); a revocation, which ends in the same release of jobs as a
rotation, happens in `OnPremRunLive`.

Why these bounds suffice. The fence is about one job at a time (no handler
relates two jobs of different leases), and needs a holder, an earlier holder and
a call left over from it: two agents and two calls. Two claims allow a lease
to be taken, lost, retaken and lost again, and with a `MaxAttempts` of 2
both branches of the reaper fire. That a run is started once, and that what ended stays ended, is
about agents meeting each other and the sweep: `OnPremRunSweep` has two agents hold the
two jobs of a run at once, each claim answered in its own time, and lets each job be reaped and
abandoned, skipped, or completed in time or late. One attempt and one claim per job are enough
there, since retaken leases are the matter of the first run. A run is about *all* jobs being over: two jobs
are the smallest case where some are and some are not. The theorems (section 5)
remove the bounds of every run for everything but liveness.

A cloud run, too, is about all slices being over; the third delivery is what makes a
slice run twice, in both runs. `queueRun` is refused one slice, or both with the first queued
regardless, or both. The results of the tests are all PASSED in `CloudRun`, since
`NeverGreenUnexecuted` is about green runs, and all FAILED in `CloudRunLive`; which of
them they are decides nothing but the verdict. For the quota, every starter that passes
it late counts, and two are enough to race. Three events are a state, its change and
its overtaking; two deliveries are all that meet. A page of two rows out of four
makes the tool start, stop in and resume between pages, with the unopenable row
second in its page. With one profile and a `Take` of 1, `AuthRefresh` says nothing of
profiles that crowd each other out (see `Crowded` below); the same formulas were found
to hold of 2 profiles with 1 tick.

For browsers, one slot and two configurations make every miss an eviction, and
two callers are the smallest number that share a lease, evict each other while
launching, or meet between a release and its last step. Four names are never all
in use: each caller refers to one entry, the slot to another and one more may still be
closing what it launched. The same properties were found to hold of 3 callers
with 5 entry names (9.6 million states, safety only), and of 3
configurations with room for 2 (0.9 million, with liveness); they take
too long to be kept as runs.

### Fairness

`OnPremRunLive` assumes: time passes for a lease nobody renews because its agent
is dead, for the grace period, and for the silence of a dead agent; a claim or
call that is under way in the API is carried on (each is an async function that
awaits only the database); and the sweep recurs. The sweep is driven by agents
polling and by `GET /runners/queue` and `GET /runners/pools`, so with a dead
fleet the assumption is that somebody has a queue screen open, or that an agent
of another pool of the organisation polls. Nothing makes an agent call, an
administrator act, or a crashed handler resume.

`CloudRunLive` assumes that an execution and a finaliser that are not dead go on (their
awaits are the database and tests, which time out), that time passes for a shard
without beats, and that the scheduler ticks. Nothing has a job delivered. A process that
dies after it set `finalizedAt` leaves the run unreported (below), so
`lostclaim` is not among its events. `queueRun` is not taken to get to its end: if it dies
before it has marked what it was refused, the sweep gives those slices up.

`Scheduler` assumes that the repeatable job of the tick comes and that a tick goes on.
`AuthRefresh` assumes the same of one worker alone, weakly for the tick and strongly
for each profile's turn, attempt and record: ticks may die and writes fail again and
again, but not always. Nothing makes a person or a second worker act. `KeyRotation` assumes an operator who
runs the tool again until it exits with 0.

`BrowserPool` assumes that what a caller of `acquireBrowser` awaits comes: that
Playwright settles its launches and closes, and that the event loop runs
the continuation. The assumption is strong fairness of each caller's own wait, since
the event loop serves other tests in between and each of them may disable
the step for a while. Nothing makes a test give its browser back or a timer fire, and
`AcquireReturns` holds without either.

## 4. Disagreements

One has a run that TLC refutes; `PROJECT.json` quotes the sentence.

* `LostEvent` (`routes/billing.ts:755`). A redelivery of an event that is being handled is
  answered as a duplicate; if the handler then throws, it gives its claim back and
  Stripe has no reason to deliver again. The comment at line 735 says that the
  retry starts clean.

The models reach, or were found to reach while they were built, the following as well.

*Runner pool and on-prem runs.*

* Results are written after the lease was checked, with no fence: a call overtaken
  by a reap and a new claim writes over the new holder's work (`ResultsWrite`;
  `routes/runners.ts:679`).
* The grace of an unservable job counts from the creation of its row, not from
  its return to the queue: a job handed back by a restarting agent may be skipped at once
  (`SweepJudge`; `lib/runners.ts:1076`).
* A skip stamps SKIPPED over results an earlier holder has reported as failed
  (`StampSkipped`; `runners.ts:1112` says that nothing was exercised).
* A revoked agent whose long poll is open is handed a job for as long as the poll
  lasts (`ClaimTake` after `ReleaseRunnerJobs`; `runners.ts:1021` says that it is no
  longer allowed to talk to the server).
* Release and claim in turn spend attempts without bound, and the job is never
  abandoned (`ReleaseWrite`, `ClaimTake`; `routes/runners.ts:437` says it is in the end).
* A runner is offered nothing while the 25 oldest jobs of its organisation are
  ones it cannot serve, although a younger one it could (`Window`; `runners.ts:818`).
* A queued run that was cancelled is started by the next claim of one of its jobs,
  and its cancelled state is lost (`StartRun`; `routes/runners.ts:371`). In the same way
  a claim that is answered late starts a run that has reported.
* A run that reports between the read and the write of the cancel handler is
  relabelled CANCELLED (`CancelWrite`; `runs.ts:1790` says that would rewrite history).
* A finaliser that dies after it set `finalizedAt` leaves the run unreported: the
  sweep asks for runs without it (`FinalizeLost`; `lib/runners.ts:1388`, and
  `processors/run.ts:3424` for cloud runs).
* The cloud sweep's query also returns sharded on-prem runs, gives up their shards and
  reports them (`CloudReport`; `processors/run.ts:3569`). There is still one verdict
  (`OneVerdict`), but it is ERRORED over jobs that are at work (hence PASSED and FAILED in
  `FinalisedOnlyWhenDone`).
* An agent that completes its job without having reported a result leaves a run
  that is PASSED over placeholders (`Outcome`). `NeverGreenUntested` is about jobs that were abandoned
  or skipped and says nothing of this.

*Cloud runs.*

* A sharded run that was cancelled before it started is set RUNNING by a job
  that had read it before: the update asks for `startedAt: null` and not for the status
  (`Start`; `processors/run.ts:1094`, against 3043, "CANCELLED is terminal"). The unsharded
  start asks for the status.
* A worker whose shard was given up may persist the result of the test it is
  in after the run was reported (`Persist` after `Publish`).
* `schedule.ts:386` and 411 say that nothing asks after a QUEUED shard, and that the sweep only looks at
  runs that reached RUNNING. It takes QUEUED runs as well and gives up shards that waited for two
  hours (`SweepBegins`, `ReapQueued`; `processors/run.ts:3569` and 3295). That sweep may run between
  the two statements of `queueRun`, and then the run is reported before it is closed.
* `queueRun` closes a run whatever it says: a run that was cancelled meanwhile becomes ERRORED
  (`CloseUnqueued`; `schedule.ts:414`), and nobody who waits for a frame or a notification of a closed
  run gets one (hence the second disjunct of `ShardedRunReports`). A job the queue took after all can
  set the closed run RUNNING (`Start`).
* An unsharded run never sets `finalizedAt` in `finalizeRun`: a job that is redelivered
  while its first worker lives reports the run twice.

*Starting runs.*

* The claim of a schedule is unconditional (`schedule.ts:1610`), so two ticks that
  overlap would make a firing twice, and a tick that read a schedule before it was
  edited writes a `nextRunAt` of the old cron (`Claim` after `EditSchedule`; `schedules.ts:26`
  and 335 say why that must not be).
* A run whose starter dies, or whose job the queue does not take, before any job of
  it is queued stays QUEUED; nothing but the shard sweep looks for such runs.

*Billing.*

* A cancellation sets the dunning state and its time unconditionally, so an older
  cancellation delivered late clears a newer failure's mark (`Apply`; hence
  `~stripe.cancelled` in `DunningIsNewest`).
* Concurrent handlers of two subscription events may leave the plan of the
  organisation different from that of the subscription row (`Order` is a read
  of its own; hence `~overlapped` in `Settled`).
* If a handler fails between the plan and its audit row, the retry finds nothing
  changed and writes none (hence `faults = 0` in `PlanMovesAudited`).

*Sessions.*

* `auth-refresh.ts:165` calls the cap "a pause", and line 713 tells people to sign in from the cockpit
  to clear it; the cockpit's write (`PersonSignsIn`) leaves the failure counter, and nothing but
  a success of the sweep resets it: a capped profile stays capped.
* Capped profiles keep their old attempt time and come first in every tick's
  window: enough of them and no other profile is looked at. `run.ts:718` says that a refused session "costs at
  most an hour and then clears itself". `Crowded` is that exception in the two liveness formulas.

*Keys.*

* The tool writes back what it read, by the row's id alone (`ToolWritesRow`;
  `scripts/rotate-vault-key.ts:1259`): a secret entered between the two is replaced by its
  predecessor, and nothing says so. `docs/key-rotation.md` has the rotation done
  while the API serves.
* The worker's own copy of the vault (`worker/src/vault.ts:14`) knows version 1 alone and throws
  for what the rotation has written under version 2.
* `docs/key-rotation.md:103` has the old key moved to RETIRED when `unopenable` is 0. That count is 0
  also after a write failed, before the sweep is through, and while processes seal under key 1, so rows that open may be
  left without a key (`Compromise`). What does say that they are not is the
  exit code of the tool, and it speaks of that moment alone: `ExitZeroProves`. `lib/vault.ts:258` calls a value under a
  retired key evidence that no sweep had proved it gone. No command sets RETIRED; it is written by hand.
* The same page says (111) that a compromised key stops sealing and opening immediately. A process
  reads its keyring when it boots, and goes on with key 1 until it is restarted (`StoreSecret` after
  `Compromise`; `lib/vault.ts:1359`). `index.ts:658` says that the keyring is installed before the first request;
  the server does not wait for it, and a keyring that cannot be loaded leaves the implicit one in
  force (`Boot`).
* Unopenable rows are counted for good and a COMPLETED sweep is never restarted; a row sealed
  afterwards under the old key is seen by the count at the end alone, which then
  exits with 1 for ever (hence the first premise of `SweepProvesIt`).

*Browser pool.*

* The idle clock also starts under a lease that is taken while a release closes the
  contexts (`browser-pool.ts:444`). It is harmless: `closeEntry` looks at the leases again, which is why
  `NotClosedUnderLease` holds, and the next release arms the clock anew, which is why
  `IdleBrowserExpires` does.
* `shutdownBrowserPool` awaits the launches of the entries in the map. A launch
  whose entry was evicted, or that a suspended `checkout` starts afterwards, ends
  later, when `launchInto` closes the browser; `browser-pool.ts:546` calls a browser
  that finishes starting after the return a leak. `NoStrayBrowser` shows that the pool
  never keeps one; when the function returns is not modelled.

## 5. Proofs

The proofs hold for every value of the constants that satisfies the named assumption of
the module (`PoolAssumption`, `RunAssumption`, `CloudAssumption`, `BillingAssumption`,
`SchedulerAssumption`, `AuthRefreshAssumption`, `KeyRotationAssumption`,
`PoolConstants`). These say that constants are numbers, finite sets where something is
counted, subsets of what the module names, and that names are distinct; of the queue also
that its order is total. Nothing is assumed of a behaviour.

Every invariant and every action property that a run checks has its theorem. TLC
finds each strengthening to hold of the instances of section 3 as well.

### Runner pool and on-prem runs

* **`TypeCorrect`**, **`LeaseIntegrityHolds`**. `LeaseIntegrity` is not inductive
  with the type alone: that a *new* lease differs from every old one needs that no
  lease exceeds the number of claims made, also in calls still in flight. The
  strengthening adds that bound for rows and calls.
* **`HolderKeeps`** (`HolderKeepsJob`), **`TerminalStays`** (`TerminalIsFinal`),
  **`AbandonedSpent`** (`AbandonedWhenSpent`, which no run checks): from the invariant, one step per
  action.
* **`ImplementsLease`** (`LeaseSpec`): every step maps to a step of `JobLease` or
  to a stutter. A write of a call maps to `Settle` when its lease is in force and to
  `Forget` otherwise, reaping and the administrative release to `TakeBack`.
* **`RunsThePool`**: `RunSpec => Spec`, so all of the above holds of the composition.
* **`RunTypeCorrect`**, **`StartsOnceHolds`**, **`OneVerdictHolds`**: the inductive
  part is that who has claimed `finalizedAt` and not announced is unique, and that
  nobody has while it is unset.
* **`RunReportsOnce`** (`OnPremRun!ReportSpec`): every step moves the report of one run at
  most. By `OneVerdict` the claimant is alone, so its end is the end of the claim,
  whether it is a finaliser of the pool or the cloud sweep.
* **`FinalisedWhenDone`** (`FinalisedOnlyWhenDone`): what a finaliser knows of its run from
  its claim on, that every job is over, is never unlearnt, by `TerminalStays`; and only a finaliser's
  write makes a run PASSED or FAILED. The cloud sweep is included.
* **`NeverGreen`**: the verdict in a finaliser's hand is one `Outcome` allows for the
  job statuses, which are final by then.

### Cloud runs

* **`CloudTyped`** (`CloudTypeOK`): a run's status is a verdict because a report has decided one
  before it writes, and a process reports only after it stopped executing (`Separate`).
* **`CloudReportsOnce`** (`CloudRun!ReportSpec`): one process at a time holds a claim, the column says
  so, and nothing was announced (`RightOne`). A step takes, announces, silences or
  leaves the report.
* **`CloudFinishedWhenAllDone`** (`FinalisedWhenAllDone`): `Pending` only shrinks, since each
  update of a shard asks for a status that is not terminal; so the look that found
  nothing pending before the claim is still true after it (`AllOver`).
* **`CloudNeverGreenUnexecuted`** (`NeverGreenUnexecuted`), from `Sound`, whose parts are of
  three kinds of actor. What an execution has in hand is all of its slice that is still
  untouched, also with a second execution in the same slice. A slice that is COMPLETED in an unreported
  run was gone through, or a stop was asked. Who reports has seen a slice that broke or was
  cancelled, or vouches for every test. The attempt to prove it showed that two arms of a `CASE`
  in `Count` overlapped, which leaves the choice open in TLA+ where TLC takes the first; the
  definition now tests them in the order of the code.

### Starting runs

* **`SchedulerTyped`**, **`SchedulerFiresOnce`** (`FiresOnce`): what a schedule has fired lies behind
  its `nextRunAt` (`FiredBehind`) and behind the firings the tick has in hand
  (`PendingAhead`), because a schedule is moved past the tick's time before its run is
  written (`ClaimedAhead`) and a tick has each schedule once.
* **`SchedulerOverCap`** (`OverCapOnlyByRaces`), from `Accounts`: a created run is counted, about
  to be, or lost to the count; and the count with the starters past the gate is at most
  the cap with all starters but the one that passed last.

### Billing

* **`BillingTyped`**, **`BillingMailsOnce`** (`MailedOnce`): a claim is a row and has one holder
  (`ClaimsHeld`), an event that was mailed stays recorded, and a handler that can still
  throw has not mailed (`MailsCounted`).
* **`BillingPlanConverges`** (`PlanIsNewest`), **`BillingDunningConverges`** (`DunningIsNewest`),
  **`BillingMovesAudited`** (`PlanMovesAudited`). While handlers never met and none died there is one
  handler at a time, and every event that is recorded and not in its hand was handled
  (`SerialInv`). Then the row is that of the newest handled event, which the ordering
  guard keeps against older ones (`PlanInv`, `DunningInv`), and the newest audit row
  is the plan or about to be (`AuditInv`). These theorems say nothing of handlers that
  met: that the premise is needed is under *Disagreements*.

### Sessions and keys

* **`AuthRefreshTyped`**, **`AuthRefreshCapped`** (`CapHolds`), from `CapInv`: the failures of a profile
  and the sweeps that still hold it as a candidate below the cap never come to more
  than the bound. A sweep can begin to hold it only while its failures are below the cap,
  and an attempt that is recorded takes its sweep out of the account.
* **`AuthRefreshOwnExpiry`** (`CarriedOnItsOwnExpiry`), from `RowsOwned`: the expiry belongs to the plain
  session while there is one, and else to the sealed one. That is stronger than the
  property, and every way of writing a row keeps it by itself.
* **`KeyRotationTyped`** (`KeyRotationTypeOK`): that the count of unopenable rows is bounded needs that
  no count is ahead of its cursor (`CountsInv`), also after a kill: the tool resumes from
  the cursor that was saved with the count.
* **`KeyRotationExitProves`** (`ExitZeroProves`): a row comes under key 1 by a store alone, which is
  recorded in `late`, and `late` is emptied only where nothing is under key 1; the tool's own writes and a
  compromise leave no row behind (`ProvesStep`). The theorem says what the exit code is worth, for any
  boots and at any time; that nobody gives the key up without it is not for the code to decide.

### Browser pool

* **`PoolTypeCorrect`** (`PoolTypeOK`), **`NoStrayHolds`** (`NoStrayBrowser`),
  **`NeverClosedUnderLease`** (`NotClosedUnderLease`).
  That `leases` never goes below zero, and that an entry with a holder has leases,
  need that the counter *is* the number of holders (`LeasesCounted`), and this that
  a name is taken again only by an entry nobody holds. With it, `closeEntry`'s look at the
  counter is a look at the holders. `NoStrayBrowser` needs that an entry being
  launched has no browser yet (`LaunchingIsBare`), and `CallersPlaced` ties each
  suspended caller to the entry and pass it is in.
* **`KeptAliveIsBounded`** (`KeptAliveBounded`): what runs is in the map, and the map is bounded, because
  an entry comes only where there is room or in the place of another (`MapKeepsBound`).
* **`IdleExpires`** (`IdleBrowserExpires`): besides the property itself, every launch that may still
  yield a browser is awaited by a caller that waits (`IdleInv`), so a browser does not
  come up unseen; with `LeasesCounted`, the release that leaves no lease arms the clock.

### Only model-checked

The liveness properties: `DeadHolderLosesJob`, `DeadFleetReports`, `ShardedRunReports`,
`NoneStaysDue`, `DueIsRefreshed`, `ArmedPlaintextGoes`, `SweepProvesIt`, `AcquireReturns`. They rest
on fairness, and so on `ENABLED`, which the provers here do not handle. The refutation
(`LostEvent`) is a run by nature.

## 6. Not modelled

Runner pool and on-prem runs: deletion of a run under a claimed job (the branch of
`POST /claim` that cancels the job), the 60-second throttle of `sweepOrg`, the
limit of 25 of `finalizePendingRuns`, an agent that lives and never finishes,
two polls of one agent at the same time, two completion calls of the same job
finalising at the same time, audit rows, log lines and notification jobs. The
read of `revokedAt` and the write in `rotate` are one step.

Cloud runs: what a test does and how its result is classified, matrix cells and data
rows of a test, the counts of a run, the labels of placeholders, and the setup
between start and first test other than its failing. `CloudRunLive` has no sweep that dies, and
one worker that does. `queueRun` is modelled from where its enqueueing has settled.

Starting runs: overlapping ticks (the queue runs one at a time in a worker, so the model has one),
two concurrent PATCHes, a schedule deleted under a tick, a month that rolls over,
plans without a cap, the planning of shards. Monitors and re-enumerations move on as schedules do.

Billing: checkout and portal sessions, two events of the same second, the purge of
`StripeEventSeen` (`processors/backup.ts`).

Sessions: the login itself, egress decisions and audit rows, and the two states of
a session (unversioned, no expiry) that no writer of the source produces. A sign-in of a person
is one step.

Keys: cryptography, registration of a key, the dry run and the plan, the tool run twice at a time,
and the other two sealed fields, of which the TOTP secret is sealed through another path (`routes/auth.ts:1701`).
What becomes of a row whose key was given up, and RETIRED, which is set by hand.

Browser pool: its counters, how launch options become a key (options
without one are `AcquireDirect`), an idle time of 0 (an armed timer that fires
at once), several launch failures told apart, and when `shutdownBrowserPool` returns.
A shut-down pool is never opened again; only a test helper does that.

Whole components: those with status `not_modelled` in `PROJECT.json`, each with its
reason there. Most of the repository's volume is parsing, source analysis, browser
driving, language-model calls and user interface, sequential code whose
difficulty is in its data.

## 7. Plan

1. `RunnerJobs`, `JobLease`, `OnPremRun`, `BrowserPool` and their proofs: done.
2. `CloudRun`, `RunReport`, `Scheduler`, `Billing`, `AuthRefresh`, `KeyRotation`, checked: done.
3. Theorems for every invariant and every action property that a run checks, and
   `RunReport` as implemented by both executors: done.
4. To prove yet: the safe halves of the liveness properties, that whoever waits is waiting
   for something under way (a caller of `acquireBrowser` for a launch or a close, an
   unreported sharded run for a slice, a process or the sweep); and that an
   unsharded run is reported once where its job is not redelivered.
5. Not planned: liveness by proof, which needs fairness and `ENABLED`.

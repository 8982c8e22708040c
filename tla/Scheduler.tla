------------------------------ MODULE Scheduler ------------------------------
(***************************************************************************)
(* What starts a run: the minute tick of                                   *)
(* apps/worker/src/processors/schedule.ts that fires the cron schedules,   *)
(* the requests of the API, and the toll both go through                   *)
(* (apps/api/src/lib/start-run.ts: ask the quota, write the run, count     *)
(* it).  The three statements of the toll are not one transaction; a       *)
(* schedule may be edited while a tick holds what it read of it.           *)
(***************************************************************************)
EXTENDS Naturals, Sequences, FiniteSets, SequencesExt

CONSTANTS
    Schedule,
    Request,    \* POST /runs requests that may be under way at the same time
    Every,      \* the cron expressions: how often each fires, 0 for one that does not parse
    Cap,        \* maxRunsPerMonth
    MaxTime,    \* the model's last instant
    MaxFaults   \* processes that die, jobs the queue does not take

Cron == DOMAIN Every
Starter == Request \cup {"tick"}

ASSUME SchedulerAssumption ==
    /\ IsFiniteSet(Schedule) /\ IsFiniteSet(Request) /\ "tick" \notin Request
    /\ \A c \in Cron : Every[c] \in Nat
    /\ Cap \in Nat /\ MaxTime \in Nat \ {0} /\ MaxFaults \in Nat

VARIABLES
    now,
    row,      \* Schedule: cron, enabled, and nextRunAt with 0 for null
    tick,     \* the candidates the tick has read and the time it read them
    phase,    \* where each starter is in startRun
    used,     \* UsageRecord.quantity of this month
    created,  \* Run rows
    faults,
    uncounted, \* runs whose starter died before it counted them
    fired      \* the firings that became a run: schedule, when it was due, and by
               \* the tick of what time

vars == <<now, row, tick, phase, used, created, faults, uncounted, fired>>

Row == [cron : Cron, enabled : BOOLEAN, next : Nat]
Candidate == [schedule : Schedule, cron : Cron, next : Nat]

SchedulerTypeOK ==
    /\ now \in 1 .. MaxTime
    /\ row \in [Schedule -> Row]
    /\ tick \in [at : 0 .. now, batch : Seq(Candidate)]
    /\ phase \in [Starter -> {"idle", "claim", "gate", "create", "count", "enqueue"}]
    /\ \A r \in Request : phase[r] # "claim"
    /\ used \in Nat /\ created \in Nat /\ faults \in 0 .. MaxFaults
    /\ uncounted \in 0 .. faults
    /\ fired \subseteq Schedule \X (1 .. MaxTime) \X (1 .. MaxTime)
-------------------------------------------------------------------------------
(***************************************************************************)
(* The schedules                                                           *)
(***************************************************************************)

\* nextFireTime: the first firing strictly after, 0 when the cron does not parse.
NextFire(c, after) == IF Every[c] = 0 THEN 0 ELSE ((after \div Every[c]) + 1) * Every[c]

\* PATCH of a schedule: nextRunAt is computed again when the cron has changed or
\* the schedule is switched on; a cron that does not parse is refused.
EditSchedule(s, c, on) ==
    /\ <<c, on>> # <<row[s].cron, row[s].enabled>>
    /\ LET reArm == c # row[s].cron \/ (on /\ ~row[s].enabled)
       IN  /\ reArm => Every[c] # 0
           /\ row' = [row EXCEPT ![s] = [cron |-> c, enabled |-> on,
                                         next |-> IF reArm THEN NextFire(c, now) ELSE @.next]]
    /\ UNCHANGED <<now, tick, phase, used, created, faults, uncounted, fired>>
-------------------------------------------------------------------------------
(***************************************************************************)
(* The tick                                                                *)
(***************************************************************************)

Due(s) == row[s].enabled /\ row[s].next <= now

TickBegins ==
    /\ phase["tick"] = "idle" /\ \E s \in Schedule : Due(s)
    /\ \E order \in SetToSeqs({s \in Schedule : Due(s)}) :
          tick' = [at |-> now,
                   batch |-> [i \in DOMAIN order |-> [schedule |-> order[i],
                                                      cron |-> row[order[i]].cron,
                                                      next |-> row[order[i]].next]]]
    /\ phase' = [phase EXCEPT !["tick"] = "claim"]
    /\ UNCHANGED <<now, row, used, created, faults, uncounted, fired>>

NoTick == [at |-> 0, batch |-> <<>>]
Candidate1 == Head(tick.batch)

\* What is left to do for a starter that is through with its run, or its refusal.
Passed(x) ==
    IF x \in Request THEN UNCHANGED tick /\ phase' = [phase EXCEPT ![x] = "idle"]
    ELSE IF Len(tick.batch) = 1 THEN tick' = NoTick /\ phase' = [phase EXCEPT ![x] = "idle"]
    ELSE tick' = [tick EXCEPT !.batch = Tail(@)] /\ phase' = [phase EXCEPT ![x] = "claim"]

Ended(x) ==
    /\ tick' = IF x = "tick" THEN NoTick ELSE tick
    /\ phase' = [phase EXCEPT ![x] = "idle"]

\* A slip: the next firing is counted from the one that was due.
ClaimFromDue ==
    /\ phase["tick"] = "claim"
    /\ LET c == Candidate1
           next == NextFire(c.cron, c.next)
       IN  IF next = 0
              THEN row' = [row EXCEPT ![c.schedule].enabled = FALSE] /\ Passed("tick")
              ELSE /\ row' = [row EXCEPT ![c.schedule].next = next]
                   /\ IF c.next = 0 THEN Passed("tick")
                      ELSE phase' = [phase EXCEPT !["tick"] = "gate"] /\ UNCHANGED tick
    /\ UNCHANGED <<now, used, created, faults, uncounted, fired>>

\* A slip: a schedule that was never armed is fired.
ClaimFiresAtSight ==
    /\ phase["tick"] = "claim"
    /\ LET c == Candidate1
           next == NextFire(c.cron, tick.at)
       IN  IF next = 0
              THEN row' = [row EXCEPT ![c.schedule].enabled = FALSE] /\ Passed("tick")
              ELSE /\ row' = [row EXCEPT ![c.schedule].next = next]
                   /\ phase' = [phase EXCEPT !["tick"] = "gate"] /\ UNCHANGED tick
    /\ UNCHANGED <<now, used, created, faults, uncounted, fired>>

\* A slip: nothing is claimed before the run is started.
ClaimNothing ==
    /\ phase["tick"] = "claim"
    /\ LET c == Candidate1
           next == NextFire(c.cron, tick.at)
       IN  IF next = 0
              THEN row' = [row EXCEPT ![c.schedule].enabled = FALSE] /\ Passed("tick")
              ELSE IF c.next = 0 THEN row' = [row EXCEPT ![c.schedule].next = next] /\ Passed("tick")
              ELSE phase' = [phase EXCEPT !["tick"] = "gate"] /\ UNCHANGED <<tick, row>>
    /\ UNCHANGED <<now, used, created, faults, uncounted, fired>>

\* The schedule is moved on before its run is started; a first sight of it only
\* arms it, and a cron that does not parse switches it off.
Claim ==
    /\ phase["tick"] = "claim"
    /\ LET c == Candidate1
           next == NextFire(c.cron, tick.at)
       IN  IF next = 0
              THEN row' = [row EXCEPT ![c.schedule].enabled = FALSE] /\ Passed("tick")
              ELSE /\ row' = [row EXCEPT ![c.schedule].next = next]
                   /\ IF c.next = 0 THEN Passed("tick")
                      ELSE phase' = [phase EXCEPT !["tick"] = "gate"] /\ UNCHANGED tick
    /\ UNCHANGED <<now, used, created, faults, uncounted, fired>>
-------------------------------------------------------------------------------
(***************************************************************************)
(* startRun, and what its callers do with the run                          *)
(***************************************************************************)

RequestArrives(r) ==
    /\ r \in Request /\ phase[r] = "idle"
    /\ phase' = [phase EXCEPT ![r] = "gate"]
    /\ UNCHANGED <<now, row, tick, used, created, faults, uncounted, fired>>

\* A slip: one run too many.
AllowedAtCap == used <= Cap

\* runQuota.
Allowed == used < Cap

\* A refusal is a 402 to a request and a warning to the tick, which goes on.
Gate(x) ==
    /\ phase[x] = "gate"
    /\ IF Allowed THEN phase' = [phase EXCEPT ![x] = "create"] /\ UNCHANGED tick
                  ELSE Passed(x)
    /\ UNCHANGED <<now, row, used, created, faults, uncounted, fired>>

CreateRun(x) ==
    /\ phase[x] = "create"
    /\ created' = created + 1
    /\ phase' = [phase EXCEPT ![x] = "count"]
    /\ fired' = IF x = "tick" THEN fired \cup {<<Candidate1.schedule, Candidate1.next, tick.at>>}
                             ELSE fired
    /\ UNCHANGED <<now, row, tick, used, faults, uncounted>>

CountRun(x) ==
    /\ phase[x] = "count"
    /\ used' = used + 1
    /\ phase' = [phase EXCEPT ![x] = "enqueue"]
    /\ UNCHANGED <<now, row, tick, created, faults, uncounted, fired>>

\* The job is queued, or some of the jobs of a sharded run; a scheduled run none
\* of whose shards can be queued is reported at once.
Enqueue(x) ==
    /\ phase[x] = "enqueue"
    /\ Passed(x)
    /\ UNCHANGED <<now, row, used, created, faults, uncounted, fired>>

\* The queue does not take the job and the call throws, which ends the tick too.
EnqueueFails(x) ==
    /\ phase[x] = "enqueue" /\ faults < MaxFaults
    /\ Ended(x)
    /\ faults' = faults + 1
    /\ UNCHANGED <<now, row, used, created, uncounted, fired>>

Dies(x) ==
    /\ phase[x] # "idle" /\ faults < MaxFaults
    /\ Ended(x)
    /\ faults' = faults + 1
    /\ uncounted' = IF phase[x] = "count" THEN uncounted + 1 ELSE uncounted
    /\ UNCHANGED <<now, row, used, created, fired>>

TimePasses ==
    /\ now < MaxTime
    /\ now' = now + 1
    /\ UNCHANGED <<row, tick, phase, used, created, faults, uncounted, fired>>

Init ==
    /\ now = 1
    /\ row \in [Schedule -> {[cron |-> c, enabled |-> TRUE, next |-> n] : c \in Cron, n \in {0, 1}}]
    /\ tick = NoTick
    /\ phase = [x \in Starter |-> "idle"]
    /\ used = 0 /\ created = 0 /\ faults = 0 /\ uncounted = 0
    /\ fired = {}

Starts(x) == Gate(x) \/ CreateRun(x) \/ CountRun(x) \/ Enqueue(x)

Next ==
    \/ TickBegins \/ Claim \/ TimePasses
    \/ \E r \in Request : RequestArrives(r)
    \/ \E x \in Starter : Starts(x) \/ EnqueueFails(x) \/ Dies(x)
    \/ \E s \in Schedule, c \in Cron, on \in BOOLEAN : EditSchedule(s, c, on)

Spec == Init /\ [][Next]_vars

\* The tick is repeated for as long as a worker lives, and gets on.
Fairness == WF_vars(TickBegins) /\ WF_vars(Claim) /\ WF_vars(Starts("tick"))

FairSpec == Spec /\ Fairness
-------------------------------------------------------------------------------
(***************************************************************************)
(* Properties                                                              *)
(***************************************************************************)

\* The month's cap is passed by no more than the starters that asked while there
\* was room, and the runs whose starter died before it counted them (startRun
\* asks, creates and counts in three statements).
OverCapOnlyByRaces ==
    created <= Cap + Cardinality(Starter) - 1 + uncounted

\* A schedule makes one run for a firing at most, whether the tick dies, is cut
\* short by the queue or is overtaken by edits ("we lose one cycle, which is far
\* better than firing the same schedule twice"); and after a time without ticks it
\* fires once, not once for every firing it missed.
FiresOnce ==
    [][CreateRun("tick") =>
          ~\E f \in fired : /\ f[1] = Candidate1.schedule
                            /\ f[2] = Candidate1.next \/ f[3] = tick.at]_vars

\* No schedule stays due for ever, whatever the quota refuses.
NoneStaysDue ==
    \A s \in Schedule : []<>(~Due(s))
===============================================================================

---------------------------- MODULE Scheduler_proofs ----------------------------
(***************************************************************************)
(* Theorems about Scheduler, for any number of schedules, requests, cron   *)
(* expressions, instants and faults, and any cap.                          *)
(***************************************************************************)
EXTENDS Scheduler, FiniteSetTheorems, SequenceTheorems, TLAPS

-------------------------------------------------------------------------------
(***************************************************************************)
(* The inductive invariant                                                 *)
(***************************************************************************)

\* A tick has candidates left, each of another schedule and due when it was read.
TickPlaced ==
    /\ phase["tick"] = "idle" => tick = NoTick
    /\ phase["tick"] # "idle" => tick.batch # <<>>
    /\ \A i, j \in DOMAIN tick.batch :
           i # j => tick.batch[i].schedule # tick.batch[j].schedule
    /\ \A i \in DOMAIN tick.batch : tick.batch[i].next <= tick.at

\* A schedule is moved on before its run is written.
ClaimedAhead ==
    phase["tick"] \in {"gate", "create"} =>
        Candidate1.next # 0 /\ row[Candidate1.schedule].next > tick.at

\* What has fired lies behind the next firing of its schedule.
FiredBehind == \A f \in fired : f[2] <= f[3] /\ f[3] <= now /\ row[f[1]].next > f[3]

\* And before that of the candidates a tick has yet to fire.
PendingAhead ==
    \A i \in DOMAIN tick.batch :
        i # 1 \/ phase["tick"] \in {"claim", "gate", "create"} =>
            \A f \in fired : f[1] = tick.batch[i].schedule => f[3] < tick.batch[i].next

Counting == {x \in Starter : phase[x] = "count"}
Underway == {x \in Starter : phase[x] \in {"create", "count"}}

\* A run is counted, about to be, or lost to the count; those who passed the gate
\* were at most one less than the starters when the last of them did.
Accounts ==
    /\ created = used + uncounted + Cardinality(Counting)
    /\ used + Cardinality(Underway) <= Cap + Cardinality(Starter) - 1

TickInv == SchedulerTypeOK /\ TickPlaced /\ ClaimedAhead /\ FiredBehind /\ PendingAhead

-------------------------------------------------------------------------------
(***************************************************************************)
(* Firings, batches and the end of a starter                               *)
(***************************************************************************)

\* The next firing of a cron that parses lies ahead.
LEMMA NextFireAhead ==
    ASSUME NEW c \in Cron, NEW after \in Nat
    PROVE  /\ NextFire(c, after) \in Nat
           /\ NextFire(c, after) # 0 => NextFire(c, after) > after
           /\ Every[c] # 0 => NextFire(c, after) > after
<1>1. Every[c] \in Nat
  BY SchedulerAssumption
<1>2. CASE Every[c] = 0
  BY <1>2 DEF NextFire
<1>3. CASE Every[c] # 0
  <2>1. ((after \div Every[c]) + 1) * Every[c] > after
    BY <1>1, <1>3
  <2>2. ((after \div Every[c]) + 1) * Every[c] \in Nat
    BY <1>1, <1>3
  <2> QED
    BY <1>3, <2>1, <2>2 DEF NextFire
<1> QED
  BY <1>2, <1>3

\* What is left of a batch is the batch but for its first.
LEMMA TailOfBatch ==
    ASSUME NEW b \in Seq(Candidate), b # <<>>
    PROVE  /\ Tail(b) \in Seq(Candidate)
           /\ Len(Tail(b)) = Len(b) - 1
           /\ DOMAIN Tail(b) = 1 .. Len(b) - 1
           /\ \A i \in DOMAIN Tail(b) : i + 1 \in DOMAIN b /\ Tail(b)[i] = b[i + 1]
           /\ Len(b) \in Nat \ {0} /\ DOMAIN b = 1 .. Len(b)
           /\ Head(b) = b[1] /\ b[1] \in Candidate
<1> HIDE DEF Candidate
<1>1. Len(b) \in Nat \ {0} /\ DOMAIN b = 1 .. Len(b)
  BY EmptySeq, LenProperties
<1>2. /\ Tail(b) \in Seq(Candidate) /\ Len(Tail(b)) = Len(b) - 1
      /\ \A i \in 1 .. Len(Tail(b)) : Tail(b)[i] = b[i + 1]
  BY HeadTailProperties
<1>3. DOMAIN Tail(b) = 1 .. Len(b) - 1
  BY <1>1, <1>2, LenProperties
<1>4. Head(b) = b[1] /\ b[1] \in Candidate
  BY <1>1
<1> QED
  BY <1>1, <1>2, <1>3, <1>4

\* The candidate in hand.
LEMMA CandidateInHand ==
    ASSUME SchedulerTypeOK, TickPlaced, phase["tick"] # "idle"
    PROVE  /\ 1 \in DOMAIN tick.batch /\ Candidate1 = tick.batch[1]
           /\ Candidate1.schedule \in Schedule /\ Candidate1.cron \in Cron
           /\ Candidate1.next \in Nat /\ Candidate1.next <= tick.at
           /\ tick.at \in Nat
<1>1. tick.batch \in Seq(Candidate) /\ tick.batch # <<>> /\ tick.at \in Nat
  BY DEF SchedulerTypeOK, TickPlaced
<1>2. /\ 1 \in DOMAIN tick.batch /\ Candidate1 = tick.batch[1] /\ Candidate1 \in Candidate
  BY <1>1, TailOfBatch DEF Candidate1
<1> QED
  BY <1>1, <1>2 DEF Candidate, TickPlaced

\* A starter is through with its run: the tick goes on to what is left, or ends.
Moved(x) ==
    \/ /\ phase' = [phase EXCEPT ![x] = "idle"]
       /\ tick' = IF x = "tick" THEN NoTick ELSE tick
    \/ /\ x = "tick" /\ Len(tick.batch) # 1
       /\ phase' = [phase EXCEPT ![x] = "claim"]
       /\ tick' = [tick EXCEPT !.batch = Tail(@)]

\* Passing a candidate over, or ending with it, moves one starter on.
LEMMA PassedMoves ==
    ASSUME NEW x \in Starter, Passed(x) \/ Ended(x)
    PROVE  Moved(x)
BY SchedulerAssumption DEF Passed, Ended, Moved, Starter

TickType == [at : 0 .. now, batch : Seq(Candidate)]
PhaseType == [Starter -> {"idle", "claim", "gate", "create", "count", "enqueue"}]

\* A starter that moves on keeps the invariant.
LEMMA MovedKeeps ==
    ASSUME TickInv, NEW x \in Starter, Moved(x), phase[x] # "idle",
           UNCHANGED <<fired, now>>, x = "tick" \/ row' = row
    PROVE  /\ tick' \in TickType' /\ phase' \in PhaseType
           /\ \A r \in Request : phase'[r] # "claim"
           /\ TickPlaced' /\ ClaimedAhead' /\ PendingAhead'
<1>0. /\ tick \in TickType /\ phase \in PhaseType /\ now \in Nat
      /\ \A r \in Request : phase[r] # "claim"
      /\ TickPlaced /\ ClaimedAhead /\ PendingAhead /\ "tick" \in Starter
      /\ \A r \in Request : r # "tick"
  BY SchedulerAssumption DEF TickInv, SchedulerTypeOK, TickType, PhaseType, Starter
<1>1. CASE x # "tick"
  <2>1. tick' = tick /\ phase' = [phase EXCEPT ![x] = "idle"] /\ row' = row
    BY <1>1 DEF Moved
  <2>2. phase'["tick"] = phase["tick"]
    BY <1>0, <1>1, <2>1 DEF PhaseType
  <2>3. tick' \in TickType' /\ phase' \in PhaseType /\ \A r \in Request : phase'[r] # "claim"
    BY <1>0, <2>1 DEF PhaseType, TickType
  <2> QED
    BY <1>0, <2>1, <2>2, <2>3 DEF TickPlaced, ClaimedAhead, PendingAhead, Candidate1
<1>2. CASE x = "tick" /\ tick' = NoTick /\ phase' = [phase EXCEPT ![x] = "idle"]
  <2>1. phase'["tick"] = "idle" /\ tick'.batch = <<>> /\ DOMAIN tick'.batch = {}
    BY <1>0, <1>2 DEF PhaseType, NoTick
  <2>2. tick' \in TickType'
    <3>1. <<>> \in Seq(Candidate) /\ 0 \in 0 .. now
      BY <1>0, EmptySeq
    <3> QED
      BY <1>2, <3>1 DEF TickType, NoTick
  <2>3. phase' \in PhaseType /\ \A r \in Request : phase'[r] # "claim"
    BY <1>0, <1>2 DEF PhaseType
  <2> QED
    BY <1>2, <2>1, <2>2, <2>3 DEF TickPlaced, ClaimedAhead, PendingAhead
<1>3. CASE /\ x = "tick" /\ Len(tick.batch) # 1
           /\ phase' = [phase EXCEPT ![x] = "claim"]
           /\ tick' = [tick EXCEPT !.batch = Tail(@)]
  <2> DEFINE b == tick.batch
  <2>1. b \in Seq(Candidate) /\ b # <<>> /\ tick.at \in 0 .. now
    BY <1>0, <1>3 DEF TickType, TickPlaced
  <2>2. /\ Tail(b) \in Seq(Candidate) /\ Tail(b) # <<>>
        /\ \A i \in DOMAIN Tail(b) : /\ i \in Nat /\ i + 1 \in DOMAIN b /\ i + 1 # 1
                                    /\ Tail(b)[i] = b[i + 1]
    <3>1. /\ Tail(b) \in Seq(Candidate) /\ Len(Tail(b)) = Len(b) - 1 /\ Len(b) \in Nat \ {0}
          /\ DOMAIN Tail(b) = 1 .. Len(b) - 1
          /\ \A i \in DOMAIN Tail(b) : i + 1 \in DOMAIN b /\ Tail(b)[i] = b[i + 1]
      BY <2>1, TailOfBatch
    <3>2. Len(Tail(b)) # 0
      BY <1>3, <3>1
    <3>3. Tail(b) # <<>>
      <4>1. Len(<<>>) = 0
        BY EmptySeq
      <4> QED
        BY <3>2, <4>1
    <3> QED
      BY <3>1, <3>3
  <2>3. tick'.batch = Tail(b) /\ tick'.at = tick.at /\ tick' \in TickType'
    BY <1>0, <1>3, <2>1, <2>2 DEF TickType
  <2>4. phase' \in PhaseType /\ \A r \in Request : phase'[r] # "claim"
    BY <1>0, <1>3 DEF PhaseType
  <2>5. phase'["tick"] = "claim"
    BY <1>0, <1>3 DEF PhaseType
  <2> HIDE DEF b
  <2>6. TickPlaced'
    BY <1>0, <2>2, <2>3, <2>5 DEF TickPlaced, b
  <2>7. PendingAhead'
    BY <1>0, <2>2, <2>3 DEF PendingAhead, b
  <2>8. ClaimedAhead'
    BY <2>5 DEF ClaimedAhead
  <2> QED
    BY <2>3, <2>4, <2>6, <2>7, <2>8
<1> QED
  BY <1>1, <1>2, <1>3 DEF Moved

-------------------------------------------------------------------------------
(***************************************************************************)
(* The steps                                                               *)
(***************************************************************************)

\* No tick is under way at first.
LEMMA TickInvInit == Init => TickInv
<1> SUFFICES ASSUME Init PROVE TickInv
  OBVIOUS
<1>1. tick.batch = <<>> /\ tick.at = 0 /\ phase["tick"] = "idle"
  BY DEF Init, NoTick, Starter
<1>2. tick \in [at : 0 .. now, batch : Seq(Candidate)]
  <2>1. <<>> \in Seq(Candidate) /\ 0 \in 0 .. now
    BY EmptySeq DEF Init
  <2> QED
    BY <2>1 DEF Init, NoTick
<1>3. row \in [Schedule -> Row]
  <2>1. {[cron |-> c, enabled |-> TRUE, next |-> n] : c \in Cron, n \in {0, 1}} \subseteq Row
    <3> SUFFICES ASSUME NEW r \in {[cron |-> c, enabled |-> TRUE, next |-> n] : c \in Cron, n \in {0, 1}}
                 PROVE  r \in Row
      OBVIOUS
    <3>2. PICK c \in Cron, n \in {0, 1} : r = [cron |-> c, enabled |-> TRUE, next |-> n]
      OBVIOUS
    <3>3. TRUE \in BOOLEAN /\ n \in Nat
      OBVIOUS
    <3> QED
      BY <3>2, <3>3 DEF Row
  <2> HIDE DEF Cron, Row
  <2> QED
    BY <2>1 DEF Init
<1>4. SchedulerTypeOK
  <2>1. /\ now \in 1 .. MaxTime /\ faults \in 0 .. MaxFaults /\ uncounted \in 0 .. faults
        /\ used \in Nat /\ created \in Nat
    BY SchedulerAssumption DEF Init
  <2>2. /\ phase \in [Starter -> {"idle", "claim", "gate", "create", "count", "enqueue"}]
        /\ \A r \in Request : phase[r] # "claim"
    BY DEF Init, Starter
  <2>3. fired \subseteq Schedule \X (1 .. MaxTime) \X (1 .. MaxTime)
    BY DEF Init
  <2> QED
    BY <1>2, <1>3, <2>1, <2>2, <2>3 DEF SchedulerTypeOK
<1>5. TickPlaced /\ ClaimedAhead /\ FiredBehind /\ PendingAhead
  BY <1>1 DEF TickPlaced, ClaimedAhead, FiredBehind, PendingAhead, Init
<1> QED
  BY <1>4, <1>5 DEF TickInv

\* What is due when it is read has not fired since.
LEMMA TickBeginsKeeps ==
    ASSUME TickInv, TickBegins
    PROVE  TickInv'
<1> DEFINE S == {s \in Schedule : Due(s)}
<1>0. /\ SchedulerTypeOK /\ FiredBehind /\ phase["tick"] = "idle" /\ now \in Nat
      /\ row \in [Schedule -> Row] /\ now \in 1 .. MaxTime
      /\ phase \in PhaseType /\ "tick" \in Starter /\ \A r \in Request : r # "tick"
  BY SchedulerAssumption DEF TickInv, SchedulerTypeOK, TickBegins, PhaseType, Starter
<1>1. PICK order \in SetToSeqs(S) :
          tick' = [at |-> now,
                   batch |-> [i \in DOMAIN order |-> [schedule |-> order[i],
                                                      cron |-> row[order[i]].cron,
                                                      next |-> row[order[i]].next]]]
  BY DEF TickBegins
<1>2. Cardinality(S) \in Nat \ {0}
  <2>1. IsFiniteSet(S) /\ S # {}
    BY FS_Subset, SchedulerAssumption DEF TickBegins
  <2> QED
    BY <2>1, FS_EmptySet, FS_CardinalityType
<1> DEFINE D == 1 .. Cardinality(S)
<1>3. order \in [D -> S] /\ \A i, j \in D : i # j => order[i] # order[j]
  BY DEF SetToSeqs
<1>4. \A s \in S : s \in Schedule /\ row[s].cron \in Cron /\ row[s].next \in Nat /\ row[s].next <= now
  BY <1>0 DEF Due, Row
<1> DEFINE b == tick'.batch
<1> HIDE DEF S
<1>5. /\ tick'.at = now
      /\ b = [i \in D |-> [schedule |-> order[i], cron |-> row[order[i]].cron,
                            next |-> row[order[i]].next]]
  BY <1>1, <1>3
<1>6. \A i \in D : /\ b[i] \in Candidate /\ b[i].schedule = order[i] /\ order[i] \in S
                   /\ b[i].next = row[order[i]].next
  BY <1>3, <1>4, <1>5 DEF Candidate
<1>7. b \in Seq(Candidate) /\ DOMAIN b = D /\ b # <<>>
  <2>1. b \in [D -> Candidate]
    BY <1>5, <1>6
  <2>2. b \in Seq(Candidate) /\ DOMAIN b = D
    BY <1>2, <2>1
  <2>3. Len(b) # 0
    BY <1>2, <2>2, LenProperties
  <2> QED
    BY <2>2, <2>3, EmptySeq
<1>8. tick' \in [at : 0 .. now, batch : Seq(Candidate)]
  <2>1. tick' = [at |-> now, batch |-> b]
    BY <1>1
  <2> HIDE DEF b
  <2> QED
    BY <1>0, <1>7, <2>1
<1>9. /\ phase' = [phase EXCEPT !["tick"] = "claim"] /\ phase'["tick"] = "claim"
      /\ UNCHANGED <<now, row, used, created, faults, uncounted, fired>>
  BY <1>0 DEF TickBegins, PhaseType
<1>10. SchedulerTypeOK'
  BY <1>0, <1>8, <1>9 DEF SchedulerTypeOK
<1>11. TickPlaced'
  BY <1>3, <1>4, <1>5, <1>6, <1>7, <1>9 DEF TickPlaced
<1>12. ClaimedAhead' /\ FiredBehind'
  BY <1>0, <1>9 DEF ClaimedAhead, FiredBehind
<1>13. PendingAhead'
  BY <1>0, <1>6, <1>7, <1>9 DEF PendingAhead, FiredBehind
<1> QED
  BY <1>10, <1>11, <1>12, <1>13 DEF TickInv

\* The candidate's schedule is moved past the time of the tick, and so past what
\* it has fired.
LEMMA ClaimKeeps ==
    ASSUME TickInv, Claim
    PROVE  TickInv'
<1> DEFINE c == Candidate1
           next == NextFire(c.cron, tick.at)
<1>0. /\ SchedulerTypeOK /\ TickPlaced /\ FiredBehind /\ PendingAhead
      /\ phase["tick"] = "claim" /\ "tick" \in Starter /\ \A r \in Request : r # "tick"
      /\ row \in [Schedule -> Row] /\ tick \in TickType /\ phase \in PhaseType
      /\ UNCHANGED <<now, used, created, faults, uncounted, fired>>
  BY SchedulerAssumption
     DEF TickInv, SchedulerTypeOK, Claim, PhaseType, TickType, Starter
<1>1. /\ 1 \in DOMAIN tick.batch /\ c = tick.batch[1]
      /\ c.schedule \in Schedule /\ c.cron \in Cron
      /\ c.next \in Nat /\ c.next <= tick.at /\ tick.at \in Nat
  BY <1>0, CandidateInHand
<1>2. next \in Nat /\ (next # 0 => next > tick.at)
  BY <1>1, NextFireAhead
<1>3. \A f \in fired : /\ f[1] \in Schedule /\ f[3] \in Nat
                       /\ f[1] = c.schedule => f[3] < c.next
  BY <1>0, <1>1, SchedulerAssumption DEF PendingAhead, SchedulerTypeOK
<1> HIDE DEF c, next
<1>4. \/ /\ next = 0
         /\ row' = [row EXCEPT ![c.schedule].enabled = FALSE]
      \/ /\ next # 0
         /\ row' = [row EXCEPT ![c.schedule].next = next]
  BY DEF Claim, c, next
<1>5. row' \in [Schedule -> Row]
  <2>1. /\ [row[c.schedule] EXCEPT !.enabled = FALSE] \in Row
        /\ [row[c.schedule] EXCEPT !.next = next] \in Row
    BY <1>0, <1>1, <1>2 DEF Row
  <2> QED
    BY <1>0, <1>4, <2>1
<1>6. FiredBehind'
  BY <1>0, <1>1, <1>2, <1>3, <1>4 DEF FiredBehind, Row
<1>7. CASE Passed("tick")
  <2>1. Moved("tick")
    BY <1>0, <1>7, PassedMoves
  <2>2. /\ tick' \in TickType' /\ phase' \in PhaseType
        /\ \A r \in Request : phase'[r] # "claim"
        /\ TickPlaced' /\ ClaimedAhead' /\ PendingAhead'
    BY <1>0, <2>1, MovedKeeps
  <2>3. SchedulerTypeOK'
    BY <1>0, <1>5, <2>2 DEF SchedulerTypeOK, TickType, PhaseType
  <2> QED
    BY <1>6, <2>2, <2>3 DEF TickInv
<1>8. CASE next # 0 /\ c.next # 0 /\ tick' = tick /\ phase' = [phase EXCEPT !["tick"] = "gate"]
  <2>1. phase'["tick"] = "gate" /\ phase' \in PhaseType /\ \A r \in Request : phase'[r] = phase[r]
    BY <1>0, <1>8 DEF PhaseType
  <2>2. SchedulerTypeOK'
    BY <1>0, <1>5, <1>8, <2>1 DEF SchedulerTypeOK, PhaseType
  <2>3. row'[c.schedule].next = next
    BY <1>0, <1>1, <1>4, <1>8 DEF Row
  <2>4. ClaimedAhead'
    BY <1>0, <1>2, <1>8, <2>3 DEF ClaimedAhead, Candidate1, c
  <2>5. TickPlaced' /\ PendingAhead'
    BY <1>0, <1>8, <2>1 DEF TickPlaced, PendingAhead
  <2> QED
    BY <1>6, <2>2, <2>4, <2>5 DEF TickInv
<1>9. \/ Passed("tick")
      \/ next # 0 /\ c.next # 0 /\ tick' = tick /\ phase' = [phase EXCEPT !["tick"] = "gate"]
  BY DEF Claim, c, next
<1> QED
  BY <1>7, <1>8, <1>9

\* An edit that arms a schedule arms it ahead of the clock.
LEMMA EditKeeps ==
    ASSUME TickInv, NEW s \in Schedule, NEW c \in Cron, NEW on \in BOOLEAN, EditSchedule(s, c, on)
    PROVE  TickInv'
<1>0. /\ SchedulerTypeOK /\ TickPlaced /\ ClaimedAhead /\ FiredBehind /\ PendingAhead
      /\ row \in [Schedule -> Row] /\ now \in Nat
      /\ UNCHANGED <<now, tick, phase, used, created, faults, uncounted, fired>>
  BY SchedulerAssumption DEF TickInv, SchedulerTypeOK, EditSchedule
<1>1. PICK n \in Nat : /\ row' = [row EXCEPT ![s] = [cron |-> c, enabled |-> on, next |-> n]]
                       /\ n = row[s].next \/ n > now
  <2>1. row[s].next \in Nat
    BY <1>0 DEF Row
  <2>2. Every[c] # 0 => NextFire(c, now) \in Nat /\ NextFire(c, now) > now
    BY <1>0, NextFireAhead
  <2> QED
    BY <2>1, <2>2 DEF EditSchedule
<1>2. [cron |-> c, enabled |-> on, next |-> n] \in Row
  <2> HIDE DEF Cron
  <2> QED
    BY DEF Row
<1>3. row' \in [Schedule -> Row]
  BY <1>0, <1>1, <1>2
<1>4. SchedulerTypeOK'
  BY <1>0, <1>3 DEF SchedulerTypeOK
<1>5. \A t \in Schedule : /\ row'[t].next = row[t].next \/ row'[t].next > now
                          /\ row[t].next \in Nat /\ row'[t].next \in Nat
  BY <1>0, <1>1 DEF Row
<1>6. FiredBehind'
  <2>1. \A f \in fired : f[1] \in Schedule /\ f[3] \in Nat /\ f[3] <= now
    BY <1>0, SchedulerAssumption DEF FiredBehind, SchedulerTypeOK
  <2> QED
    BY <1>0, <1>5, <2>1 DEF FiredBehind
<1>7. ClaimedAhead'
  <2>1. phase["tick"] # "idle" => Candidate1.schedule \in Schedule /\ tick.at \in Nat /\ tick.at <= now
    BY <1>0, CandidateInHand DEF SchedulerTypeOK
  <2> QED
    BY <1>0, <1>5, <2>1 DEF ClaimedAhead, Candidate1
<1> QED
  BY <1>0, <1>4, <1>6, <1>7 DEF TickInv, TickPlaced, PendingAhead

\* The counters keep their types, and the clock stays within its bound.
Counters ==
    /\ now \in 1 .. MaxTime /\ used \in Nat /\ created \in Nat
    /\ faults \in 0 .. MaxFaults /\ uncounted \in 0 .. faults

\* A starter that is through leaves the schedules and the firings alone.
LEMMA ThroughKeeps ==
    ASSUME TickInv, NEW x \in Starter, phase[x] # "idle", Moved(x),
           UNCHANGED <<now, row, fired>>, Counters'
    PROVE  TickInv'
<1>1. /\ tick' \in TickType' /\ phase' \in PhaseType
      /\ \A r \in Request : phase'[r] # "claim"
      /\ TickPlaced' /\ ClaimedAhead' /\ PendingAhead'
  BY MovedKeeps
<1>2. SchedulerTypeOK'
  BY <1>1 DEF TickInv, SchedulerTypeOK, TickType, PhaseType, Counters
<1> QED
  BY <1>1, <1>2 DEF TickInv, FiredBehind

\* One that goes on in startRun leaves the tick alone; its run is the only firing.
LEMMA WithinKeeps ==
    ASSUME TickInv, NEW x \in Starter, NEW from, NEW to, phase[x] = from,
           <<from, to>> \in {<<"idle", "gate">>, <<"gate", "create">>, <<"create", "count">>, <<"count", "enqueue">>},
           from = "idle" => x # "tick",
           phase' = [phase EXCEPT ![x] = to],
           UNCHANGED <<now, row, tick>>, Counters',
           fired' = IF x = "tick" /\ from = "create"
                    THEN fired \cup {<<Candidate1.schedule, Candidate1.next, tick.at>>}
                    ELSE fired
    PROVE  TickInv'
<1>0. /\ SchedulerTypeOK /\ TickPlaced /\ ClaimedAhead /\ FiredBehind /\ PendingAhead
      /\ phase \in PhaseType /\ \A r \in Request : phase[r] # "claim"
      /\ "tick" \in Starter /\ \A r \in Request : r # "tick" /\ r \in Starter
      /\ now \in 1 .. MaxTime /\ MaxTime \in Nat /\ tick.at \in 0 .. now
  BY SchedulerAssumption DEF TickInv, SchedulerTypeOK, PhaseType, Starter
<1>1. /\ phase' \in PhaseType /\ \A r \in Request : phase'[r] # "claim"
      /\ phase'["tick"] = IF x = "tick" THEN to ELSE phase["tick"]
  BY <1>0 DEF PhaseType
<1>2. TickPlaced' /\ ClaimedAhead'
  BY <1>0, <1>1 DEF TickPlaced, ClaimedAhead, Candidate1
<1>3. CASE fired' = fired
  <2>1. SchedulerTypeOK'
    BY <1>0, <1>1, <1>3 DEF SchedulerTypeOK, PhaseType, Counters
  <2>2. FiredBehind' /\ PendingAhead'
    BY <1>0, <1>1, <1>3 DEF FiredBehind, PendingAhead
  <2> QED
    BY <1>2, <2>1, <2>2 DEF TickInv
<1>4. CASE x = "tick" /\ from = "create"
  <2> DEFINE f == <<Candidate1.schedule, Candidate1.next, tick.at>>
  <2>1. /\ 1 \in DOMAIN tick.batch /\ Candidate1 = tick.batch[1]
        /\ Candidate1.schedule \in Schedule
        /\ Candidate1.next \in Nat /\ Candidate1.next <= tick.at /\ tick.at \in Nat
        /\ Candidate1.next # 0 /\ row[Candidate1.schedule].next > tick.at
    BY <1>0, <1>4, CandidateInHand DEF ClaimedAhead
  <2>2. fired' = fired \cup {f} /\ f[1] = Candidate1.schedule /\ f[2] = Candidate1.next /\ f[3] = tick.at
    BY <1>4
  <2>3. f \in Schedule \X (1 .. MaxTime) \X (1 .. MaxTime)
    BY <1>0, <2>1
  <2> HIDE DEF f
  <2>4. SchedulerTypeOK'
    BY <1>0, <1>1, <2>2, <2>3 DEF SchedulerTypeOK, PhaseType, Counters
  <2>5. FiredBehind'
    BY <1>0, <2>1, <2>2 DEF FiredBehind
  <2>6. PendingAhead'
    <3> SUFFICES ASSUME NEW i \in DOMAIN tick.batch, i # 1,
                        NEW g \in fired', g[1] = tick.batch[i].schedule
                 PROVE  g[3] < tick.batch[i].next
      BY <1>0, <1>1, <1>4 DEF PendingAhead
    <3>1. g # f
      BY <1>0, <2>1, <2>2 DEF TickPlaced
    <3> QED
      BY <1>0, <2>2, <3>1 DEF PendingAhead
  <2> QED
    BY <1>2, <2>4, <2>5, <2>6 DEF TickInv
<1> QED
  BY <1>3, <1>4

\* Every step keeps it.
LEMMA TickInvNext == TickInv /\ [Next]_vars => TickInv'
<1> SUFFICES ASSUME TickInv, [Next]_vars PROVE TickInv'
  OBVIOUS
<1>0. Counters /\ SchedulerTypeOK /\ MaxFaults \in Nat /\ MaxTime \in Nat
  BY SchedulerAssumption DEF TickInv, SchedulerTypeOK, Counters
<1>1. CASE TickBegins
  BY <1>1, TickBeginsKeeps
<1>2. CASE Claim
  BY <1>2, ClaimKeeps
<1>3. CASE TimePasses
  <2>1. now' = now + 1 /\ now < MaxTime /\ UNCHANGED <<row, tick, phase, fired>>
    BY <1>3 DEF TimePasses
  <2>2. Counters'
    BY <1>0, <1>3 DEF TimePasses, Counters
  <2>3. tick' \in [at : 0 .. now', batch : Seq(Candidate)]
    <3>1. tick \in [at : 0 .. now, batch : Seq(Candidate)] /\ 0 .. now \subseteq 0 .. now'
      BY <1>0, <2>1 DEF SchedulerTypeOK, Counters
    <3> QED
      BY <2>1, <3>1
  <2>4. SchedulerTypeOK'
    BY <1>0, <2>1, <2>2, <2>3 DEF SchedulerTypeOK, Counters
  <2>5. FiredBehind'
    <3>1. \A f \in fired : f[3] \in Nat
      BY <1>0 DEF SchedulerTypeOK
    <3> QED
      BY <1>0, <2>1, <3>1 DEF TickInv, FiredBehind, Counters
  <2> QED
    BY <2>1, <2>4, <2>5 DEF TickInv, TickPlaced, ClaimedAhead, PendingAhead, Candidate1
<1>4. ASSUME NEW r \in Request, RequestArrives(r) PROVE TickInv'
  <2>1. r \in Starter /\ r # "tick"
    BY SchedulerAssumption DEF Starter
  <2> QED
    BY <1>0, <1>4, <2>1, WithinKeeps DEF RequestArrives, Counters
<1>5. ASSUME NEW x \in Starter, Gate(x) PROVE TickInv'
  <2>1. Counters'
    BY <1>0, <1>5 DEF Gate, Counters
  <2>2. CASE Allowed
    BY <1>5, <2>1, <2>2, WithinKeeps DEF Gate
  <2>3. CASE ~Allowed
    BY <1>5, <2>1, <2>3, PassedMoves, ThroughKeeps DEF Gate
  <2> QED
    BY <2>2, <2>3
<1>6. ASSUME NEW x \in Starter, CreateRun(x) PROVE TickInv'
  <2>1. Counters'
    BY <1>0, <1>6 DEF CreateRun, Counters
  <2> QED
    BY <1>6, <2>1, WithinKeeps DEF CreateRun
<1>7. ASSUME NEW x \in Starter, CountRun(x) PROVE TickInv'
  <2>1. Counters'
    BY <1>0, <1>7 DEF CountRun, Counters
  <2> QED
    BY <1>7, <2>1, WithinKeeps DEF CountRun
<1>8. ASSUME NEW x \in Starter, Enqueue(x) \/ EnqueueFails(x) \/ Dies(x) PROVE TickInv'
  <2>1. Counters'
    BY <1>0, <1>8 DEF Enqueue, EnqueueFails, Dies, Counters
  <2>2. phase[x] # "idle" /\ (Passed(x) \/ Ended(x)) /\ UNCHANGED <<now, row, fired>>
    BY <1>8 DEF Enqueue, EnqueueFails, Dies
  <2> QED
    BY <2>1, <2>2, PassedMoves, ThroughKeeps
<1>9. ASSUME NEW s \in Schedule, NEW c \in Cron, NEW on \in BOOLEAN, EditSchedule(s, c, on)
      PROVE  TickInv'
  BY <1>9, EditKeeps
<1>10. CASE UNCHANGED vars
  BY <1>10
     DEF TickInv, SchedulerTypeOK, TickPlaced, ClaimedAhead, FiredBehind, PendingAhead,
         Candidate1, vars
<1> QED
  BY <1>1, <1>2, <1>3, <1>4, <1>5, <1>6, <1>7, <1>8, <1>9, <1>10 DEF Next, Starts

\* So it holds always.
LEMMA TickInvAlways == Spec => []TickInv
BY TickInvInit, TickInvNext, PTL DEF Spec

\* Every variable keeps its type; a firing has a time.
THEOREM SchedulerTyped == Spec => []SchedulerTypeOK
<1>1. TickInv => SchedulerTypeOK
  BY DEF TickInv
<1> QED
  BY <1>1, TickInvAlways, PTL

\* A schedule makes one run for a firing at most, and one at a time of the tick:
\* what it has fired lies before the firing in hand.
THEOREM SchedulerFiresOnce == Spec => FiresOnce
<1> DEFINE New == CreateRun("tick") =>
                     ~\E f \in fired : /\ f[1] = Candidate1.schedule
                                       /\ f[2] = Candidate1.next \/ f[3] = tick.at
<1>1. TickInv /\ [Next]_vars => New
  <2> SUFFICES ASSUME TickInv, CreateRun("tick"),
                      NEW f \in fired, f[1] = Candidate1.schedule
               PROVE  f[2] # Candidate1.next /\ f[3] # tick.at
    OBVIOUS
  <2>1. /\ SchedulerTypeOK /\ TickPlaced /\ FiredBehind /\ PendingAhead
        /\ phase["tick"] = "create"
    BY DEF TickInv, CreateRun
  <2>2. /\ 1 \in DOMAIN tick.batch /\ Candidate1 = tick.batch[1]
        /\ Candidate1.next \in Nat /\ Candidate1.next <= tick.at /\ tick.at \in Nat
    BY <2>1, CandidateInHand
  <2>3. f[2] \in Nat /\ f[3] \in Nat /\ f[2] <= f[3]
    BY <2>1, SchedulerAssumption DEF SchedulerTypeOK, FiredBehind
  <2>4. f[3] < Candidate1.next
    BY <2>1, <2>2 DEF PendingAhead
  <2> QED
    BY <2>2, <2>3, <2>4
<1>2. Spec => [][New]_vars
  BY <1>1, TickInvAlways, PTL DEF Spec
<1> QED
  BY <1>2 DEF FiresOnce

-------------------------------------------------------------------------------
(***************************************************************************)
(* The cap                                                                 *)
(***************************************************************************)

\* The tick and the requests are finitely many, and at least one.
LEMMA StartersFinite == IsFiniteSet(Starter) /\ Cardinality(Starter) \in Nat \ {0}
<1>1. IsFiniteSet({"tick"})
  BY FS_Singleton
<1>2. IsFiniteSet(Starter) /\ Starter # {}
  BY <1>1, FS_Union, SchedulerAssumption DEF Starter
<1> QED
  BY <1>2, FS_CardinalityType, FS_EmptySet

\* The starters in hand are some of them.
LEMMA SomeStarters ==
    /\ IsFiniteSet(Counting) /\ Cardinality(Counting) \in Nat
    /\ IsFiniteSet(Underway) /\ Cardinality(Underway) \in Nat
    /\ Cardinality(Underway) <= Cardinality(Starter)
    /\ Cardinality(Counting) <= Cardinality(Underway)
<1>1. Counting \subseteq Underway /\ Underway \subseteq Starter
  BY DEF Counting, Underway
<1> QED
  BY <1>1, StartersFinite, FS_Subset, FS_CardinalityType

GoesTo(x, from, to) == phase[x] = from /\ phase' = [phase EXCEPT ![x] = to]

\* One starter goes from one statement to another: each of the two sets gains it,
\* loses it or stays.
LEMMA CountingMoves ==
    ASSUME SchedulerTypeOK, NEW x \in Starter, NEW from, NEW to, GoesTo(x, from, to)
    PROVE  /\ to = "count" /\ from # "count" => Cardinality(Counting') = Cardinality(Counting) + 1
           /\ to # "count" /\ from = "count" => Cardinality(Counting') = Cardinality(Counting) - 1
           /\ to # "count" /\ from # "count" => Cardinality(Counting') = Cardinality(Counting)
<1>0. phase[x] = from /\ \A y \in Starter : phase'[y] = IF y = x THEN to ELSE phase[y]
  BY DEF SchedulerTypeOK, GoesTo
<1>1. IsFiniteSet(Counting) /\ Cardinality(Counting) \in Nat
  BY SomeStarters
<1>2. ASSUME to = "count", from # "count" PROVE Cardinality(Counting') = Cardinality(Counting) + 1
  <2>1. Counting' = Counting \cup {x} /\ x \notin Counting
    BY <1>0, <1>2 DEF Counting
  <2> HIDE DEF Counting
  <2> QED
    BY <1>1, <2>1, FS_AddElement
<1>3. ASSUME to # "count", from = "count" PROVE Cardinality(Counting') = Cardinality(Counting) - 1
  <2>1. Counting' = Counting \ {x} /\ x \in Counting
    BY <1>0, <1>3 DEF Counting
  <2> QED
    BY <1>1, <2>1, FS_RemoveElement
<1>4. ASSUME to # "count", from # "count" PROVE Counting' = Counting
  BY <1>0, <1>4 DEF Counting
<1> QED
  BY <1>2, <1>3, <1>4

\* How a step changes the number of those between the gate and the count.
LEMMA UnderwayMoves ==
    ASSUME SchedulerTypeOK, NEW x \in Starter, NEW from, NEW to, GoesTo(x, from, to)
    PROVE  LET in == {"create", "count"}
           IN  /\ to \in in /\ from \notin in => Cardinality(Underway') = Cardinality(Underway) + 1
               /\ to \notin in /\ from \in in => Cardinality(Underway') = Cardinality(Underway) - 1
               /\ (to \in in <=> from \in in) => Cardinality(Underway') = Cardinality(Underway)
<1> DEFINE in == {"create", "count"}
<1>0. phase[x] = from /\ \A y \in Starter : phase'[y] = IF y = x THEN to ELSE phase[y]
  BY DEF SchedulerTypeOK, GoesTo
<1>1. IsFiniteSet(Underway) /\ Cardinality(Underway) \in Nat
  BY SomeStarters
<1>2. ASSUME to \in in, from \notin in PROVE Cardinality(Underway') = Cardinality(Underway) + 1
  <2>1. Underway' = Underway \cup {x} /\ x \notin Underway
    BY <1>0, <1>2 DEF Underway
  <2> QED
    BY <1>1, <2>1, FS_AddElement
<1>3. ASSUME to \notin in, from \in in PROVE Cardinality(Underway') = Cardinality(Underway) - 1
  <2>1. Underway' = Underway \ {x} /\ x \in Underway
    BY <1>0, <1>3 DEF Underway
  <2> QED
    BY <1>1, <2>1, FS_RemoveElement
<1>4. ASSUME to \in in <=> from \in in PROVE Underway' = Underway
  BY <1>0, <1>4 DEF Underway
<1> QED
  BY <1>2, <1>3, <1>4

\* Every step keeps the accounts.
LEMMA AccountsNext ==
    ASSUME TickInv, Accounts, [Next]_vars
    PROVE  Accounts'
<1>0. /\ SchedulerTypeOK /\ used \in Nat /\ created \in Nat /\ uncounted \in Nat
      /\ Cap \in Nat /\ Cardinality(Starter) \in Nat \ {0} /\ "tick" \in Starter
      /\ Cardinality(Counting) \in Nat /\ Cardinality(Underway) \in Nat
      /\ Cardinality(Underway) <= Cardinality(Starter)
  BY SchedulerAssumption, StartersFinite, SomeStarters DEF TickInv, SchedulerTypeOK, Starter
<1>1. ASSUME Claim \/ TickBegins PROVE Accounts'
  <2>1. PICK from \in {"idle", "claim"}, to \in {"idle", "claim", "gate"} : GoesTo("tick", from, to)
    BY <1>1 DEF Claim, Passed, TickBegins, GoesTo
  <2>2. /\ Cardinality(Counting') = Cardinality(Counting)
        /\ Cardinality(Underway') = Cardinality(Underway)
    BY <1>0, <2>1, CountingMoves, UnderwayMoves
  <2> QED
    BY <1>1, <2>2 DEF Accounts, Claim, TickBegins
<1>2. ASSUME NEW r \in Request, RequestArrives(r) PROVE Accounts'
  <2>1. r \in Starter /\ GoesTo(r, "idle", "gate")
    BY <1>2 DEF Starter, RequestArrives, GoesTo
  <2>2. /\ Cardinality(Counting') = Cardinality(Counting)
        /\ Cardinality(Underway') = Cardinality(Underway)
    BY <1>0, <2>1, CountingMoves, UnderwayMoves
  <2> QED
    BY <1>2, <2>2 DEF Accounts, RequestArrives
\* Whoever passes the gate saw room for one more, and is not counted under way.
<1>3. ASSUME NEW x \in Starter, Gate(x), Allowed PROVE Accounts'
  <2>1. GoesTo(x, "gate", "create")
    BY <1>3 DEF Gate, GoesTo
  <2>2. /\ Cardinality(Counting') = Cardinality(Counting)
        /\ Cardinality(Underway') = Cardinality(Underway) + 1
    BY <1>0, <2>1, CountingMoves, UnderwayMoves
  <2>3. Cardinality(Underway') <= Cardinality(Starter)
    <3>1. Underway' \subseteq Starter
      BY DEF Underway
    <3> QED
      BY <3>1, StartersFinite, FS_Subset
  <2> QED
    BY <1>0, <1>3, <2>2, <2>3 DEF Accounts, Gate, Allowed
<1>4. ASSUME NEW x \in Starter, (Gate(x) /\ ~Allowed) \/ Enqueue(x) \/ EnqueueFails(x) PROVE Accounts'
  <2>1. PICK from \in {"gate", "enqueue"}, to \in {"idle", "claim"} : GoesTo(x, from, to)
    BY <1>4 DEF Gate, Enqueue, EnqueueFails, Passed, Ended, GoesTo
  <2>2. /\ Cardinality(Counting') = Cardinality(Counting)
        /\ Cardinality(Underway') = Cardinality(Underway)
    BY <1>0, <2>1, CountingMoves, UnderwayMoves
  <2> QED
    BY <1>4, <2>2 DEF Accounts, Gate, Enqueue, EnqueueFails
<1>5. ASSUME NEW x \in Starter, CreateRun(x) PROVE Accounts'
  <2>1. GoesTo(x, "create", "count")
    BY <1>5 DEF CreateRun, GoesTo
  <2>2. /\ Cardinality(Counting') = Cardinality(Counting) + 1
        /\ Cardinality(Underway') = Cardinality(Underway)
    BY <1>0, <2>1, CountingMoves, UnderwayMoves
  <2> QED
    BY <1>0, <1>5, <2>2 DEF Accounts, CreateRun
<1>6. ASSUME NEW x \in Starter, CountRun(x) PROVE Accounts'
  <2>1. GoesTo(x, "count", "enqueue")
    BY <1>6 DEF CountRun, GoesTo
  <2>2. /\ Cardinality(Counting') = Cardinality(Counting) - 1
        /\ Cardinality(Underway') = Cardinality(Underway) - 1
    BY <1>0, <2>1, CountingMoves, UnderwayMoves
  <2> QED
    BY <1>0, <1>6, <2>2 DEF Accounts, CountRun
<1>7. ASSUME NEW x \in Starter, Dies(x) PROVE Accounts'
  <2>1. PICK from : GoesTo(x, from, "idle")
    BY <1>7 DEF Dies, Ended, GoesTo
  <2>2. /\ UNCHANGED <<used, created>>
        /\ uncounted' = IF from = "count" THEN uncounted + 1 ELSE uncounted
    BY <1>7, <2>1 DEF Dies, GoesTo
  <2>3. /\ Cardinality(Counting') = IF from = "count" THEN Cardinality(Counting) - 1
                                                     ELSE Cardinality(Counting)
        /\ from = "count" => Cardinality(Underway') = Cardinality(Underway) - 1
        /\ Cardinality(Underway') \in {Cardinality(Underway), Cardinality(Underway) - 1}
    BY <1>0, <2>1, CountingMoves, UnderwayMoves
  <2> QED
    BY <1>0, <2>2, <2>3 DEF Accounts
<1>8. ASSUME \/ TimePasses \/ UNCHANGED vars
             \/ \E s \in Schedule, c \in Cron, on \in BOOLEAN : EditSchedule(s, c, on)
      PROVE  Accounts'
  BY <1>8 DEF TimePasses, EditSchedule, Accounts, Counting, Underway, vars
<1> QED
  BY <1>1, <1>2, <1>3, <1>4, <1>5, <1>6, <1>7, <1>8 DEF Next, Starts

\* The month's cap is passed by no more than the starters that asked while there
\* was room, and the runs whose starter died before it counted them.
THEOREM SchedulerOverCap == Spec => []OverCapOnlyByRaces
<1>1. Init => TickInv /\ Accounts
  <2> SUFFICES ASSUME Init PROVE Accounts
    BY TickInvInit
  <2>1. Counting = {} /\ Underway = {}
    BY DEF Init, Counting, Underway
  <2> QED
    BY <2>1, FS_EmptySet, StartersFinite, SchedulerAssumption DEF Init, Accounts
<1>2. (TickInv /\ Accounts) /\ [Next]_vars => (TickInv /\ Accounts)'
  BY TickInvNext, AccountsNext
<1>3. TickInv /\ Accounts => OverCapOnlyByRaces
  <2> SUFFICES ASSUME TickInv, Accounts PROVE OverCapOnlyByRaces
    OBVIOUS
  <2>1. /\ used \in Nat /\ created \in Nat /\ uncounted \in Nat /\ Cap \in Nat
        /\ Cardinality(Starter) \in Nat
    BY SchedulerAssumption, StartersFinite DEF TickInv, SchedulerTypeOK
  <2> QED
    BY <2>1, SomeStarters DEF Accounts, OverCapOnlyByRaces
<1> QED
  BY <1>1, <1>2, <1>3, PTL DEF Spec
===============================================================================

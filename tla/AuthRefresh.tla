------------------------------ MODULE AuthRefresh ------------------------------
(***************************************************************************)
(* The cached sign-in sessions of apps/api/src/lib/session-store.ts and    *)
(* the hourly sweep of apps/worker/src/processors/auth-refresh.ts, which   *)
(* signs a profile in again before its session expires.  The sweep reads   *)
(* its candidates once and then works through them, so a row may be long   *)
(* out of date when it is acted on; ticks of several workers may overlap;  *)
(* a run (processors/run.ts) and a person (routes/projects.ts) write the   *)
(* same columns.                                                           *)
(*                                                                         *)
(* Clocks are abstracted: a session is fresh, due (within the refresh      *)
(* lead) or expired, and the backoff window of a profile that has failed   *)
(* is found open or closed.                                                *)
(***************************************************************************)
EXTENDS Naturals, Sequences, FiniteSets

CONSTANTS
    Profile,
    Tick,         \* sweeps that may run at the same time
    MaxFailures,  \* MAX_REFRESH_FAILURES
    Take,         \* maxProfiles
    Writers,      \* who else signs profiles in: a subset of {"run", "person"}
    Brakes        \* the settings of SESSION_STATE_SEAL the operator uses

ASSUME AuthRefreshAssumption ==
    /\ IsFiniteSet(Profile) /\ Profile # {} /\ IsFiniteSet(Tick) /\ Tick # {}
    /\ MaxFailures \in Nat \ {0} /\ Take \in Nat \ {0}
    /\ Writers \subseteq {"run", "person"}
    /\ Brakes # {} /\ Brakes \subseteq {"OBSERVE", "ENFORCE"}

VARIABLES
    row,     \* AuthProfile: the session columns and storageStateRefreshFailures
    place,   \* each profile's place by storageStateRefreshAttemptedAt, never attempted first
    brake,   \* securityControlModes.SESSION_STATE_SEAL
    down,    \* profiles that cannot be signed in now
    tick,    \* the sweeps
    run,     \* a run that has signed a profile in
    tries    \* sign-ins that failed and were recorded since the sweep's last success

vars == <<row, place, brake, down, tick, run, tries>>

Left == {"fresh", "due", "expired"}
Failures == 0 .. MaxFailures + Cardinality(Tick) - 1
Row == [plain : BOOLEAN,                      \* storageState is not null
        sealed : BOOLEAN,                     \* storageStateSealed is not null
        owner : {"none", "plain", "sealed"},  \* whose expiry storageStateExpiresAt is
        left : Left,
        reseal : BOOLEAN,                     \* storageStateNeedsReseal
        failures : Failures]

\* What the sweep remembers of a row it read: `valid` if its session could still
\* be used unsealed, and the failures it has already had.
Candidate == [profile : Profile, valid : BOOLEAN, failures : Failures]
Head1(t) == Head(tick[t].batch)

Sweep == [phase : {"idle", "next", "write"}, batch : Seq(Candidate),
          mode : Brakes \cup {"unread"}, ok : BOOLEAN]
Signing == [phase : {"idle", "save"}, profile : Profile, mode : Brakes]

\* No two profiles share a place.
Placing ==
    {f \in [Profile -> 1 .. Cardinality(Profile)] : \A p, q \in Profile : f[p] = f[q] => p = q}

AuthRefreshTypeOK ==
    /\ row \in [Profile -> Row]
    /\ place \in Placing
    /\ brake \in Brakes
    /\ down \subseteq Profile
    /\ tick \in [Tick -> Sweep] /\ \A t \in Tick : Len(tick[t].batch) <= Take
    /\ run \in Signing
    /\ tries \in [Profile -> Nat]

-------------------------------------------------------------------------------
(***************************************************************************)
(* The session store                                                       *)
(***************************************************************************)

State(r) ==
    CASE r.plain                             -> "LEGACY_PLAINTEXT"
      [] ~r.plain /\ r.reseal                -> "NEEDS_RESEAL"
      [] ~r.plain /\ ~r.reseal /\ ~r.sealed  -> "ABSENT"
      [] OTHER                               -> r.left

\* The column a run may carry its session from (openCachedSession).
Carried(r) ==
    CASE State(r) \in {"fresh", "due"}                          -> "sealed"
      [] State(r) = "LEGACY_PLAINTEXT" /\ r.left # "expired"    -> "plain"
      [] OTHER                                                  -> "none"

\* The gate's refreshDue; in OBSERVE a plain session that is still valid is the
\* one in use, and nothing is due.
RefreshDue(r, mode) ==
    /\ State(r) # "fresh"
    /\ ~(mode = "OBSERVE" /\ State(r) = "LEGACY_PLAINTEXT" /\ r.left = "fresh")

\* A slip: the plain session is left beside the sealed one.
SealedKeepsPlain(r) == [r EXCEPT !.sealed = TRUE, !.owner = "sealed", !.left = "fresh",
                                 !.reseal = FALSE]

\* sealSession: every session column moves in the one statement.
Sealed(r) == [r EXCEPT !.plain = FALSE, !.sealed = TRUE, !.owner = "sealed",
                       !.left = "fresh", !.reseal = FALSE]

Plain(r) == [r EXCEPT !.plain = TRUE, !.owner = "plain", !.left = "fresh"]

-------------------------------------------------------------------------------
(***************************************************************************)
(* The sweep: processAuthRefreshTick                                       *)
(***************************************************************************)

\* A slip: only sealed sessions are looked for.
SealedOnWorklist(r) == r.reseal \/ (r.sealed /\ r.left # "fresh")

\* The where of the sweep's query.
OnWorklist(r) == r.reseal \/ (r.sealed /\ r.left # "fresh") \/ r.plain

\* What a query may return: of the profiles found, the first Take by their place.
Worklist ==
    LET found == {p \in Profile : OnWorklist(row[p])}
        size == IF Cardinality(found) > Take THEN Take ELSE Cardinality(found)
        Ordered(s) == \A i \in 1 .. size, p \in found :
                         (place[p] < place[s[i]]) <=> (\E j \in 1 .. i - 1 : s[j] = p)
    IN  {s \in [1 .. size -> found] : Ordered(s)}

Read(p) == [profile |-> p, valid |-> ~RefreshDue(row[p], "OBSERVE"),
            failures |-> row[p].failures]

IdleTick == [phase |-> "idle", batch |-> <<>>, mode |-> "unread", ok |-> FALSE]

TickBegins(t) ==
    /\ tick[t].phase = "idle"
    /\ \E found \in Worklist :
          /\ found # <<>>
          /\ tick' = [tick EXCEPT ![t] = [IdleTick EXCEPT !.phase = "next",
                                      !.batch = [i \in DOMAIN found |-> Read(found[i])]]]
    /\ UNCHANGED <<row, place, brake, down, run, tries>>

\* The organisation's mode is read at the tick's first candidate.
ModeOf(t) == IF tick[t].mode = "unread" THEN brake ELSE tick[t].mode

\* A slip: the cap is a count that is only looked at when it is hit exactly.
CappedExactly(r) == r.failures = MaxFailures

Capped(r) == r.failures >= MaxFailures

\* On to the next candidate; the tick is over after the last one.
PassedOver(t) ==
    [tick EXCEPT ![t] = IF Len(@.batch) = 1 THEN IdleTick
                        ELSE [phase |-> "next", batch |-> Tail(@.batch), mode |-> ModeOf(t),
                              ok |-> FALSE]]

\* NOT_DUE, ATTEMPTS_CAPPED or BACKED_OFF: nothing is written.  The columns are
\* those the sweep read and the clock is now: a session that was valid then may
\* have expired since, and a backoff may be over.
Skip(t) ==
    /\ tick[t].phase = "next"
    /\ \/ Head1(t).valid /\ ModeOf(t) = "OBSERVE"
       \/ Capped(Head1(t))
       \/ Head1(t).failures > 0
    /\ tick' = PassedOver(t)
    /\ UNCHANGED <<row, place, brake, down, run, tries>>

\* A target or an egress policy that refuses, a sign-in that fails, a login that
\* leaves no session and a session that cannot be sealed are one failure here;
\* whether the form was reached is not asked, and it is counted as if it was.
Attempt(t) ==
    /\ tick[t].phase = "next"
    /\ ~Capped(Head1(t))
    /\ tick' = [tick EXCEPT ![t] = [phase |-> "write", batch |-> @.batch, mode |-> ModeOf(t),
                                    ok |-> Head1(t).profile \notin down]]
    /\ UNCHANGED <<row, place, brake, down, run, tries>>

\* A slip: the number the sweep read, plus one.
FailureComputed(r, read) == [r EXCEPT !.failures = read.failures + 1]

\* failureWrite: the database increments, nothing of the session is touched.
Failure(r, read) == [r EXCEPT !.failures = @ + 1]

\* A slip: the failures before are kept.
SuccessKeepsFailures(r, mode) ==
    IF mode = "ENFORCE" THEN Sealed(r) ELSE [Plain(r) EXCEPT !.reseal = FALSE]

Success(r, mode) ==
    [(IF mode = "ENFORCE" THEN Sealed(r) ELSE [Plain(r) EXCEPT !.reseal = FALSE])
        EXCEPT !.failures = 0]

\* To the last place; those behind it move up.
AttemptedNow(p) ==
    [q \in Profile |-> IF q = p THEN Cardinality(Profile)
                       ELSE IF place[q] > place[p] THEN place[q] - 1 ELSE place[q]]

RecordAttempt(t) ==
    /\ tick[t].phase = "write"
    /\ LET p == Head1(t).profile IN
          /\ row' = [row EXCEPT ![p] = IF tick[t].ok THEN Success(@, tick[t].mode)
                                                     ELSE Failure(@, Head1(t))]
          /\ place' = AttemptedNow(p)
          /\ tries' = [tries EXCEPT ![p] = IF tick[t].ok THEN 0 ELSE @ + 1]
    /\ tick' = PassedOver(t)
    /\ UNCHANGED <<brake, down, run>>

\* The update throws: it is logged, and the attempt is not counted.
WriteFails(t) ==
    /\ tick[t].phase = "write"
    /\ tick' = PassedOver(t)
    /\ UNCHANGED <<row, place, brake, down, run, tries>>

WorkerDies(t) ==
    /\ tick[t].phase # "idle"
    /\ tick' = [tick EXCEPT ![t] = IdleTick]
    /\ UNCHANGED <<row, place, brake, down, run, tries>>
-------------------------------------------------------------------------------
(***************************************************************************)
(* A run, and a person                                                     *)
(***************************************************************************)

IdleRun == [phase |-> "idle", profile |-> CHOOSE p \in Profile : TRUE,
            mode |-> CHOOSE b \in Brakes : TRUE]

\* resolveSession: the brake and the row are read, and a session that can be
\* carried is; nothing is written then, nor when the sign-in fails.
RunSignsIn(p) ==
    /\ "run" \in Writers /\ run.phase = "idle"
    /\ Carried(row[p]) = "none" /\ p \notin down
    /\ run' = [phase |-> "save", profile |-> p, mode |-> brake]
    /\ UNCHANGED <<row, place, brake, down, tick, tries>>

\* A failed write costs the next run a sign-in.
RunSaves ==
    /\ run.phase = "save"
    /\ \/ row' = [row EXCEPT ![run.profile] = IF run.mode = "ENFORCE" THEN Sealed(@)
                                                                      ELSE Plain(@)]
       \/ UNCHANGED row
    /\ run' = IdleRun
    /\ UNCHANGED <<place, brake, down, tick, tries>>

\* The cockpit seals whatever the brake says, leaves the sweep's columns alone,
\* and what it writes depends on nothing it read.
PersonSignsIn(p) ==
    /\ "person" \in Writers /\ p \notin down
    /\ row' = [row EXCEPT ![p] = Sealed(@)]
    /\ UNCHANGED <<place, brake, down, tick, run, tries>>
-------------------------------------------------------------------------------
(***************************************************************************)
(* The environment                                                         *)
(***************************************************************************)

TimePasses(p) ==
    /\ row[p].owner # "none" /\ row[p].left # "expired"
    /\ row' = [row EXCEPT ![p].left = IF @ = "fresh" THEN "due" ELSE "expired"]
    /\ UNCHANGED <<place, brake, down, tick, run, tries>>

SignInBreaks(p) ==
    /\ p \notin down
    /\ down' = down \cup {p}
    /\ UNCHANGED <<row, place, brake, tick, run, tries>>

SignInWorks(p) ==
    /\ p \in down
    /\ down' = down \ {p}
    /\ UNCHANGED <<row, place, brake, tick, run, tries>>

SetsBrake(b) ==
    /\ brake # b
    /\ brake' = b
    /\ UNCHANGED <<row, place, down, tick, run, tries>>

\* A profile that never signed in, one the sealing migration emptied, and one
\* an older image wrote a session for.
Absent == [plain |-> FALSE, sealed |-> FALSE, owner |-> "none", left |-> "expired",
           reseal |-> FALSE, failures |-> 0]
Migrated == [Absent EXCEPT !.reseal = TRUE]

Init ==
    /\ row \in [Profile -> {Absent, Migrated, Plain(Absent)}]
    /\ place \in Placing
    /\ brake \in Brakes
    /\ down = {}
    /\ tick = [t \in Tick |-> IdleTick]
    /\ run = IdleRun
    /\ tries = [p \in Profile |-> 0]

Sweeps(t) ==
    \/ TickBegins(t) \/ Skip(t) \/ Attempt(t) \/ RecordAttempt(t)
    \/ WriteFails(t) \/ WorkerDies(t)

Signs(p) == RunSignsIn(p) \/ PersonSignsIn(p)
Environment(p) == TimePasses(p) \/ SignInBreaks(p) \/ SignInWorks(p)

Next ==
    \/ \E t \in Tick : Sweeps(t)
    \/ \E p \in Profile : Signs(p) \/ Environment(p)
    \/ RunSaves
    \/ \E b \in Brakes : SetsBrake(b)

Spec == Init /\ [][Next]_vars

Looks(t, p) == (Skip(t) \/ Attempt(t)) /\ Head1(t).profile = p
AttemptOf(t, p) == Attempt(t) /\ Head1(t).profile = p
RecordOf(t, p) == RecordAttempt(t) /\ Head1(t).profile = p

\* One worker repeats the sweep for as long as it lives; the other ticks may be
\* stalled for good.  A tick may die and a write may fail, again and again but not
\* always; a profile that is looked at again and again is once found outside its
\* backoff.
Fairness ==
    LET t == CHOOSE u \in Tick : TRUE IN
    /\ WF_vars(TickBegins(t))
    /\ \A p \in Profile :
          SF_vars(Looks(t, p)) /\ SF_vars(AttemptOf(t, p)) /\ SF_vars(RecordOf(t, p))
    /\ WF_vars(RunSaves)

FairSpec == Spec /\ Fairness
-------------------------------------------------------------------------------
(***************************************************************************)
(* Properties                                                              *)
(***************************************************************************)

\* However the ticks overlap and whatever rows they read, a profile whose sign-in
\* keeps failing is tried at most MAX_REFRESH_FAILURES times and once more for each
\* other tick that had already decided, the attempts whose record was lost left
\* out (auth-refresh.ts, MAX_REFRESH_FAILURES and failureWrite).
CapHolds ==
    \A p \in Profile : tries[p] <= MaxFailures + Cardinality(Tick) - 1

\* Whoever wrote last, and in which mode, the session a run may carry is judged by
\* its own expiry and never by that of another (SealedSessionWrite moves the
\* columns together; openCachedSession).
CarriedOnItsOwnExpiry ==
    \A p \in Profile : Carried(row[p]) # "none" => row[p].owner = Carried(row[p])

\* The cap has stopped the sweep, and for that many failures.
Stopped(p) == tries[p] >= MaxFailures

\* Capped profiles keep their place at the head of the worklist: enough of them
\* and no other profile is looked at.
Crowded == Cardinality({p \in Profile : Stopped(p)}) >= Take
Served(p) == ~OnWorklist(row[p]) \/ ~RefreshDue(row[p], brake)

\* Once a profile can be signed in and the brake is left alone, a session that is
\* due is refreshed, unless the cap has stopped the sweep (run.ts: "costs at most
\* an hour and then clears itself").
DueIsRefreshed ==
    \A p \in Profile, b \in Brakes :
        <>[](p \notin down /\ brake = b) => []<>(Served(p) \/ Stopped(p) \/ Crowded)

\* Once the brake is armed for good, no plain session stays: a run that began
\* before may still write one, and the sweep replaces it.
ArmedPlaintextGoes ==
    \A p \in Profile :
        <>[](p \notin down /\ brake = "ENFORCE") => []<>(~row[p].plain \/ Stopped(p) \/ Crowded)
===============================================================================

------------------------------ MODULE BrowserPool ------------------------------
(***************************************************************************)
(* The pool of browsers the tests of one worker process share              *)
(* (packages/runner/src/browser-pool.ts).  The code is asynchronous and    *)
(* runs on one thread, so a step here is what happens between two awaits:  *)
(* other callers, timers and browser events come in between.               *)
(*                                                                         *)
(* An entry adopts at most one browser in its life, which is why the entry *)
(* and its browser share a name, and a new object takes the name of one    *)
(* nobody refers to any more.                                              *)
(***************************************************************************)
EXTENDS Integers, FiniteSets

CONSTANTS
    Key,          \* launch configurations
    Entry,        \* names of PoolEntry objects; the bound on those alive
    Caller,       \* tests that borrow browsers
    MaxBrowsers,  \* QAAI_BROWSER_POOL_MAX
    NoEntry,
    NoKey

ASSUME PoolConstants ==
    /\ MaxBrowsers \in Nat \ {0}
    /\ IsFiniteSet(Caller)
    /\ NoEntry \notin Entry
    /\ NoKey \notin Key

VARIABLES
    entries,   \* the map: the entry of each key, or NoEntry
    browser,   \* entry.browser, "dead" once isConnected() is false
    launch,    \* entry.pending: "discarding" closes what was launched for nobody
    leases,    \* entry.leases
    older,     \* entry.lastUsedSeq: the mapped entries used before this one
    timer,     \* entry.idleTimer is armed
    caller,    \* where each acquireBrowser or release is suspended
    closed     \* shutdownBrowserPool has been called

poolVars == <<entries, browser, launch, leases, older, timer>>
vars == <<poolVars, caller, closed>>

Phase == {"idle", "evicting", "retrying", "waiting", "launched", "refused",
          "leased", "clearing", "direct"}

PoolTypeOK ==
    /\ entries \in [Key -> Entry \cup {NoEntry}]
    /\ browser \in [Entry -> {"none", "open", "dead"}]
    /\ launch \in [Entry -> {"none", "starting", "discarding"}]
    /\ leases \in [Entry -> Nat]
    /\ older \in [Entry -> SUBSET Entry]
    /\ timer \in [Entry -> BOOLEAN]
    /\ caller \in [Caller -> [phase : Phase, at : Entry \cup {NoEntry},
                              key : Key \cup {NoKey}, attempt : 0 .. 3,
                              awaits : BOOLEAN]]
    /\ closed \in BOOLEAN

\* In checkout for key k, in pass n, with entry e in hand, w while the close of
\* a browser is awaited.
Suspended(p, k, n, e, w) ==
    [phase |-> p, key |-> k, attempt |-> n, at |-> e, awaits |-> w]
Holding(p, e) == Suspended(p, NoKey, 0, e, FALSE)
Nowhere(p) == Holding(p, NoEntry)

Init ==
    /\ entries = [k \in Key |-> NoEntry]
    /\ browser = [e \in Entry |-> "none"]
    /\ launch = [e \in Entry |-> "none"]
    /\ leases = [e \in Entry |-> 0]
    /\ older = [e \in Entry |-> {}]
    /\ timer = [e \in Entry |-> FALSE]
    /\ caller = [c \in Caller |-> Nowhere("idle")]
    /\ closed = FALSE

Has(e) == browser[e] \in {"open", "dead"}

Mapped == {e \in Entry : \E k \in Key : entries[k] = e}

\* No one refers to the object: a new PoolEntry may take its name.
Free == {e \in Entry \ Mapped : /\ ~Has(e)
                               /\ launch[e] = "none"
                               /\ \A c \in Caller : caller[c].at # e}

Holders(e) == {c \in Caller : caller[c].phase = "leased" /\ caller[c].at = e}

-------------------------------------------------------------------------------
(***************************************************************************)
(* What several steps do to an entry                                       *)
(***************************************************************************)

Unmap(e) ==
    /\ entries' = [k \in Key |-> IF entries[k] = e THEN NoEntry ELSE entries[k]]
    /\ older' = [f \in Entry |-> IF f = e THEN {} ELSE older[f] \ {e}]

\* nextUse(): e becomes the most recently used.
Touched(e) ==
    IF e \in Mapped
    THEN [f \in Entry |-> IF f = e THEN Mapped \ {e} ELSE older[f] \ {e}]
    ELSE older

\* A slip: an idle timer that does not look at the leases again.
CloseEntryAnyway(e) ==
    /\ timer' = [timer EXCEPT ![e] = FALSE]
    /\ Unmap(e) /\ browser' = [browser EXCEPT ![e] = "none"]

\* closeEntry up to its await.
CloseEntry(e) ==
    /\ timer' = [timer EXCEPT ![e] = FALSE]
    /\ IF leases[e] > 0
       THEN UNCHANGED <<entries, older, browser>>
       ELSE Unmap(e) /\ browser' = [browser EXCEPT ![e] = "none"]

\* closeEntry goes on to close a browser.
Closes(e) == leases[e] = 0 /\ Has(e)

\* What has settled is resumed before the event loop takes up the next answer
\* of a browser or the next timer; other tests may still run in between.
Ready(c) ==
    \/ caller[c].phase \in {"launched", "refused"}
    \/ caller[c].phase \in {"evicting", "retrying"} /\ ~caller[c].awaits

EventLoop == \A c \in Caller : ~Ready(c)

\* A slip: the bound is off by one.
FullTooLate == Cardinality(Mapped) > MaxBrowsers

Full == Cardinality(Mapped) >= MaxBrowsers

\* reserveSlot: the least recently used of those nobody holds.
Unheld == {e \in Mapped : leases[e] = 0}
Victims == {v \in Unheld : older[v] \cap Unheld = {}}

\* A slip: waiting for a slot.
NoRoomWaits == FALSE

NoRoom == Full /\ Unheld = {}

-------------------------------------------------------------------------------
(***************************************************************************)
(* checkout                                                                *)
(***************************************************************************)

GoesTo(c, p) == caller' = [caller EXCEPT ![c] = Nowhere(p)]

\* tryLease succeeds.
Lease(c, e) ==
    /\ leases' = [leases EXCEPT ![e] = @ + 1]
    /\ older' = Touched(e)
    /\ caller' = [caller EXCEPT ![c] = Holding("leased", e)]

\* From clearIdle on: the browser is warm, or has died in the pool, or is to
\* be launched by whoever comes first.
Use(c, k, n, e) ==
    \/ /\ browser[e] = "open"
       /\ Lease(c, e)
       /\ timer' = [timer EXCEPT ![e] = FALSE]
       /\ UNCHANGED <<entries, browser, launch>>
    \/ /\ browser[e] = "dead"
       /\ CloseEntry(e)
       /\ caller' = [caller EXCEPT ![c] = Suspended("retrying", k, n + 1, e, Closes(e))]
       /\ UNCHANGED <<launch, leases>>
    \/ /\ ~Has(e)
       /\ launch' = [launch EXCEPT ![e] = IF @ = "none" THEN "starting" ELSE @]
       /\ timer' = [timer EXCEPT ![e] = FALSE]
       /\ caller' = [caller EXCEPT ![c] = Suspended("waiting", k, n, e, FALSE)]
       /\ UNCHANGED <<entries, browser, leases, older>>

\* A miss with room: the entry is in the map before anything is awaited.
Insert(c, k, n) ==
    /\ entries[k] = NoEntry /\ ~Full /\ Free # {}
    /\ LET e == CHOOSE e \in Free : TRUE
       IN  /\ entries' = [entries EXCEPT ![k] = e]
           /\ launch' = [launch EXCEPT ![e] = "starting"]
           /\ leases' = [leases EXCEPT ![e] = 0]
           /\ older' = [older EXCEPT ![e] = Mapped]
           /\ timer' = [timer EXCEPT ![e] = FALSE]
           /\ caller' = [caller EXCEPT ![c] = Suspended("waiting", k, n, e, FALSE)]
    /\ UNCHANGED browser

\* A miss in a full pool: the victim's slot changes hands at once, and the
\* caller then awaits the close of the victim's browser.
Evict(c, k, n) ==
    /\ entries[k] = NoEntry /\ Full /\ Free # {}
    /\ LET e == CHOOSE e \in Free : TRUE
       IN  \E v \in Victims :
             /\ entries' = [q \in Key |-> IF q = k THEN e
                                          ELSE IF entries[q] = v THEN NoEntry ELSE entries[q]]
             /\ leases' = [leases EXCEPT ![e] = 0]
             /\ older' = [f \in Entry |-> IF f = e THEN Mapped \ {v}
                                          ELSE IF f = v THEN {} ELSE older[f] \ {v}]
             /\ timer' = [timer EXCEPT ![v] = FALSE, ![e] = FALSE]
             /\ browser' = [browser EXCEPT ![v] = "none"]
             /\ caller' = [caller EXCEPT ![c] = Suspended("evicting", k, n, e, Closes(v))]
    /\ UNCHANGED launch

\* A slip: replacing for as long as there is something to replace.
PassWithoutEnd(c, k, n) ==
    \/ entries[k] # NoEntry /\ Use(c, k, n, entries[k])
    \/ Insert(c, k, n)
    \/ Evict(c, k, n)
    \/ entries[k] = NoEntry /\ NoRoom /\ GoesTo(c, "direct") /\ UNCHANGED poolVars

\* One pass of the loop.  The third replacement is the last.
Pass(c, k, n) ==
    \/ n < 3 /\ entries[k] # NoEntry /\ Use(c, k, n, entries[k])
    \/ n < 3 /\ Insert(c, k, n)
    \/ n < 3 /\ Evict(c, k, n)
    \/ /\ n = 3 \/ (entries[k] = NoEntry /\ NoRoom)
       /\ GoesTo(c, "direct")
       /\ UNCHANGED poolVars

Acquire(c, k) ==
    /\ caller[c].phase = "idle"
    /\ ~closed
    /\ Pass(c, k, 0)
    /\ UNCHANGED closed

\* The pool is off or shut down, or the options have no key.
AcquireDirect(c) ==
    /\ caller[c].phase = "idle"
    /\ GoesTo(c, "direct")
    /\ UNCHANGED <<poolVars, closed>>

\* The victim is closed.  The entry put in its place may be gone by now.
Evicted(c) ==
    /\ caller[c].phase = "evicting" /\ ~caller[c].awaits
    /\ Use(c, caller[c].key, caller[c].attempt, caller[c].at)
    /\ UNCHANGED closed

Retry(c) ==
    /\ caller[c].phase = "retrying" /\ ~caller[c].awaits
    /\ Pass(c, caller[c].key, caller[c].attempt)
    /\ UNCHANGED closed

\* entry.pending was fulfilled.
Launched(c) ==
    /\ caller[c].phase = "launched"
    /\ LET e == caller[c].at
           k == caller[c].key
           n == caller[c].attempt
       IN  \/ /\ browser[e] = "open"
              /\ Lease(c, e)
              /\ UNCHANGED <<entries, browser, launch, timer>>
           \/ /\ browser[e] # "open" /\ e \in Mapped
              /\ CloseEntry(e)
              /\ caller' = [caller EXCEPT ![c] = Suspended("retrying", k, n + 1, e, Closes(e))]
              /\ UNCHANGED <<launch, leases>>
           \/ /\ browser[e] # "open" /\ e \notin Mapped
              /\ Pass(c, k, n + 1)
    /\ UNCHANGED closed

\* entry.pending was rejected: acquireBrowser launches directly.
Refused(c) ==
    /\ caller[c].phase = "refused"
    /\ Unmap(caller[c].at)
    /\ GoesTo(c, "direct")
    /\ UNCHANGED <<browser, launch, leases, timer, closed>>

\* A direct launch, its test and the close at the end, or the error of the
\* launch, which is the only one a caller sees: the pool takes no part in it.
GiveBack(c) ==
    /\ caller[c].phase = "direct"
    /\ GoesTo(c, "idle")
    /\ UNCHANGED <<poolVars, closed>>

-------------------------------------------------------------------------------
(***************************************************************************)
(* launchInto, and what Playwright does                                    *)
(***************************************************************************)

\* The promise settles: those who await it will find out in some later turn.
Wakes(e, p) ==
    caller' = [c \in Caller |-> IF caller[c].phase = "waiting" /\ caller[c].at = e
                                THEN [caller[c] EXCEPT !.phase = p] ELSE caller[c]]

\* A slip: only shutdown is looked for.
WantedUnlessClosed(e) == ~closed

Wanted(e) == ~closed /\ e \in Mapped

LaunchOpens(e) ==
    /\ EventLoop
    /\ launch[e] = "starting"
    /\ IF Wanted(e)
       THEN /\ launch' = [launch EXCEPT ![e] = "none"]
            /\ browser' = [browser EXCEPT ![e] = "open"]
            /\ Wakes(e, "launched")
       ELSE /\ launch' = [launch EXCEPT ![e] = "discarding"]
            /\ UNCHANGED <<browser, caller>>
    /\ UNCHANGED <<entries, leases, older, timer, closed>>

\* The launch fails, or what it opened for nobody has been closed.
LaunchRejects(e) ==
    /\ EventLoop
    /\ launch[e] # "none"
    /\ launch' = [launch EXCEPT ![e] = "none"]
    /\ Wakes(e, "refused")
    /\ UNCHANGED <<entries, browser, leases, older, timer, closed>>

\* browser.close() returns.
CloseReturns(c) ==
    /\ EventLoop
    /\ caller[c].awaits
    /\ caller' = [caller EXCEPT ![c].awaits = FALSE]
    /\ UNCHANGED <<poolVars, closed>>

\* isConnected() turns false ...
Crash(e) ==
    /\ EventLoop
    /\ browser[e] = "open"
    /\ browser' = [browser EXCEPT ![e] = "dead"]
    /\ UNCHANGED <<entries, launch, leases, older, timer, caller, closed>>

\* ... and 'disconnected' is fired, if the pool still listens.
Disconnected(e) ==
    /\ EventLoop
    /\ browser[e] = "dead"
    /\ browser' = [browser EXCEPT ![e] = "none"]
    /\ Unmap(e)
    /\ timer' = [timer EXCEPT ![e] = FALSE]
    /\ UNCHANGED <<launch, leases, caller, closed>>

-------------------------------------------------------------------------------
(***************************************************************************)
(* Releasing, idling, shutting down                                        *)
(***************************************************************************)

Arm(e) == timer' = [timer EXCEPT ![e] = @ \/ (e \in Mapped /\ Has(e))]

\* releaseEntry up to its await.  With no process there is no context to close.
Release(c) ==
    /\ caller[c].phase = "leased"
    /\ LET e == caller[c].at
       IN  /\ leases' = [leases EXCEPT ![e] = @ - 1]
           /\ older' = Touched(e)
           /\ \/ /\ leases[e] > 1
                 /\ GoesTo(c, "idle")
                 /\ UNCHANGED timer
              \/ /\ leases[e] <= 1 /\ browser[e] = "open"
                 /\ caller' = [caller EXCEPT ![c] = Holding("clearing", e)]
                 /\ UNCHANGED timer
              \/ /\ leases[e] <= 1 /\ browser[e] # "open"
                 /\ GoesTo(c, "idle")
                 /\ Arm(e)
    /\ UNCHANGED <<entries, browser, launch, closed>>

\* A slip: the idle clock is not started.
ClearedUnarmed(c) ==
    /\ caller[c].phase = "clearing"
    /\ GoesTo(c, "idle")
    /\ UNCHANGED <<poolVars, closed>>

\* The contexts are closed.  Others may have borrowed the browser meanwhile.
Cleared(c) ==
    /\ caller[c].phase = "clearing"
    /\ Arm(caller[c].at)
    /\ GoesTo(c, "idle")
    /\ UNCHANGED <<entries, browser, launch, leases, older, closed>>

IdleFires(e) ==
    /\ EventLoop
    /\ timer[e]
    /\ CloseEntry(e)
    /\ UNCHANGED <<launch, leases, caller, closed>>

\* shutdownBrowserPool up to its await: leased browsers are closed too.  When
\* it returns is of no consequence here.
Shutdown ==
    /\ ~closed
    /\ closed' = TRUE
    /\ entries' = [k \in Key |-> NoEntry]
    /\ older' = [e \in Entry |-> {}]
    /\ timer' = [e \in Entry |-> timer[e] /\ e \notin Mapped]
    /\ browser' = [e \in Entry |-> IF e \in Mapped THEN "none" ELSE browser[e]]
    /\ UNCHANGED <<launch, leases, caller>>

CallerGoesOn(c) ==
    Evicted(c) \/ Retry(c) \/ Launched(c) \/ Refused(c) \/ Cleared(c)

Next ==
    \/ \E c \in Caller :
         \/ \E k \in Key : Acquire(c, k)
         \/ AcquireDirect(c)
         \/ CallerGoesOn(c)
         \/ CloseReturns(c)
         \/ Release(c)
         \/ GiveBack(c)
    \/ \E e \in Entry :
         \/ LaunchOpens(e)
         \/ LaunchRejects(e)
         \/ Crash(e)
         \/ Disconnected(e)
         \/ IdleFires(e)
    \/ Shutdown

Spec == Init /\ [][Next]_vars

\* What a caller of acquireBrowser awaits comes, and the caller goes on.
AwaitEnds(c) ==
    \/ CallerGoesOn(c)
    \/ CloseReturns(c)
    \/ \E e \in Entry :
         /\ caller[c].phase = "waiting" /\ caller[c].at = e
         /\ (LaunchOpens(e) \/ LaunchRejects(e))

\* A promise of Playwright settles and a continuation runs, strongly fair
\* because the event loop serves others in between.  Nothing makes a test
\* release its browser, or a timer fire.
FairSpec ==
    /\ Spec
    /\ \A c \in Caller : SF_vars(AwaitEnds(c))

-------------------------------------------------------------------------------
(***************************************************************************)
(* Properties                                                              *)
(***************************************************************************)

\* The pool never closes a browser some test still holds, except to shut
\* down: not by its idle timer, not to make room, not when it replaces a
\* browser it took for dead (closeEntry, reserveSlot).
NotClosedUnderLease ==
    [][\A e \in Entry :
          browser[e] = "open" /\ Holders(e) # {} => browser'[e] # "none" \/ closed']_vars

\* Every browser process the pool keeps running is one it can still find: the
\* browser of an entry in the map, and none after shutdown, whatever happened
\* while it was being launched (launchInto).
NoStrayBrowser ==
    \A e \in Entry : Has(e) => ~closed /\ e \in Mapped

\* A running browser nobody holds is on its way out or back into use: its
\* idle clock runs, or a caller is about to take it or to start the clock.
IdleBrowserExpires ==
    \A e \in Entry :
        browser[e] = "open" /\ leases[e] = 0 =>
            \/ timer[e]
            \/ \E c \in Caller : /\ caller[c].at = e
                                 /\ caller[c].phase \in {"launched", "clearing"}

\* No more than QAAI_BROWSER_POOL_MAX pooled browsers are kept running.
KeptAliveBounded == Cardinality({e \in Entry : Has(e)}) <= MaxBrowsers

\* Pooling never stalls a test: checkout ends with a lease or sends the test
\* to a direct launch, even if no other test ever gives its browser back.
AcquireReturns ==
    \A c \in Caller :
        caller[c].phase \in {"evicting", "retrying", "waiting", "launched", "refused"}
            ~> caller[c].phase \in {"leased", "direct"}
===============================================================================

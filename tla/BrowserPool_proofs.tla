-------------------------- MODULE BrowserPool_proofs --------------------------
(***************************************************************************)
(* Theorems about BrowserPool, for any number of keys, callers and entries *)
(* and any bound on the browsers.                                          *)
(***************************************************************************)
EXTENDS BrowserPool, FiniteSetTheorems, TLAPS

-------------------------------------------------------------------------------
(***************************************************************************)
(* The inductive invariant                                                 *)
(***************************************************************************)

InCheckout == {"evicting", "retrying", "waiting", "launched", "refused"}

\* What a suspended caller remembers: a key and an entry, and a number of
\* passes that leaves room for one more.
CallersPlaced ==
    \A c \in Caller :
        /\ caller[c].phase \in InCheckout \cup {"leased", "clearing"} => caller[c].at \in Entry
        /\ caller[c].phase \in InCheckout => caller[c].key \in Key
        /\ caller[c].phase \in {"evicting", "waiting", "launched"} => caller[c].attempt \in 0 .. 2

\* A counter of leases counts the leases.
LeasesCounted == \A e \in Entry : leases[e] = Cardinality(Holders(e))

\* While an entry launches it has no browser, and nobody is told of a failed
\* launch after another one has succeeded.
LaunchingIsBare ==
    /\ \A e \in Entry : launch[e] # "none" => ~Has(e)
    /\ \A c \in Caller : caller[c].phase = "refused" => ~Has(caller[c].at)

PoolInv ==
    /\ PoolTypeOK
    /\ CallersPlaced
    /\ LeasesCounted
    /\ LaunchingIsBare
    /\ NoStrayBrowser

\* What one step does to a browser under lease.
KeptOpen ==
    \A e \in Entry :
        browser[e] = "open" /\ Holders(e) # {} => browser'[e] # "none" \/ closed'

-------------------------------------------------------------------------------
(***************************************************************************)
(* Leases                                                                  *)
(***************************************************************************)

\* The leases of an entry without holders are none, and the converse.
LEMMA HeldHasLeases ==
    ASSUME PoolInv, NEW e \in Entry
    PROVE  /\ IsFiniteSet(Holders(e))
           /\ leases[e] \in Nat
           /\ leases[e] = Cardinality(Holders(e))
           /\ Holders(e) # {} <=> leases[e] > 0
<1>1. IsFiniteSet(Holders(e))
  BY FS_Subset, PoolConstants DEF Holders
<1>2. leases[e] = Cardinality(Holders(e)) /\ leases[e] \in Nat
  BY DEF PoolInv, LeasesCounted, PoolTypeOK
<1>3. Cardinality(Holders(e)) = 0 <=> Holders(e) = {}
  BY <1>1, FS_EmptySet
<1> QED
  BY <1>1, <1>2, <1>3

\* A caller that holds no lease before or after its step changes no holders.
LEMMA HoldersStay ==
    ASSUME PoolInv, NEW c \in Caller, NEW x,
           caller' = [caller EXCEPT ![c] = x],
           caller[c].phase # "leased", x.phase # "leased",
           NEW e \in Entry
    PROVE  Holders(e)' = Holders(e)
BY DEF PoolInv, PoolTypeOK, Holders

\* A lease is counted when it is given.
LEMMA LeaseCounts ==
    ASSUME PoolInv, NEW c \in Caller, NEW e \in Entry, Lease(c, e),
           caller[c].phase # "leased"
    PROVE  LeasesCounted'
<1> SUFFICES ASSUME NEW f \in Entry
             PROVE  leases'[f] = Cardinality(Holders(f)')
  BY DEF LeasesCounted
<1>1. leases' = [leases EXCEPT ![e] = @ + 1] /\ leases \in [Entry -> Nat]
  BY DEF Lease, PoolInv, PoolTypeOK
<1>2. caller' = [caller EXCEPT ![c] = Holding("leased", e)]
  BY DEF Lease
<1>3. caller \in [Caller -> [phase : Phase, at : Entry \cup {NoEntry},
                             key : Key \cup {NoKey}, attempt : 0 .. 3,
                             awaits : BOOLEAN]]
  BY DEF PoolInv, PoolTypeOK
<1>4. CASE f = e
  <2>1. Holders(f)' = Holders(f) \cup {c} /\ c \notin Holders(f)
    BY <1>2, <1>3, <1>4 DEF Holders, Holding, Suspended
  <2>2. Cardinality(Holders(f)') = Cardinality(Holders(f)) + 1
    BY <2>1, HeldHasLeases, FS_AddElement
  <2> QED
    BY <1>1, <1>4, <2>2, HeldHasLeases
<1>5. CASE f # e
  <2>1. Holders(f)' = Holders(f)
    BY <1>2, <1>3, <1>5 DEF Holders, Holding, Suspended
  <2> QED
    BY <1>1, <1>5, <2>1, HeldHasLeases
<1> QED
  BY <1>4, <1>5

\* A name that is free has no lease.
LEMMA FreeIsUnheld ==
    ASSUME PoolInv, NEW e \in Free
    PROVE  /\ e \in Entry /\ e \notin Mapped /\ ~Has(e) /\ launch[e] = "none"
           /\ leases[e] = 0
           /\ \A c \in Caller : caller[c].at # e
<1>1. Holders(e) = {} /\ e \in Entry
  BY DEF Free, Holders
<1> QED
  BY <1>1, HeldHasLeases DEF Free

-------------------------------------------------------------------------------
(***************************************************************************)
(* The parts of a step                                                     *)
(***************************************************************************)

\* Where browsers only go and entries that keep theirs stay in the map, no
\* browser is lost.
LEMMA OnlyLess ==
    ASSUME PoolInv, closed' = closed,
           \A f \in Entry : Has(f)' => Has(f) /\ (f \in Mapped => f \in Mapped')
    PROVE  NoStrayBrowser'
BY DEF PoolInv, NoStrayBrowser

\* Leaving the map takes one entry from it, whatever key had it.
LEMMA UnmapTakesOne ==
    ASSUME PoolInv, NEW e \in Entry, Unmap(e)
    PROVE  /\ entries' \in [Key -> Entry \cup {NoEntry}]
           /\ older' \in [Entry -> SUBSET Entry]
           /\ Mapped' = Mapped \ {e}
<1>1. /\ entries' = [k \in Key |-> IF entries[k] = e THEN NoEntry ELSE entries[k]]
      /\ older' = [f \in Entry |-> IF f = e THEN {} ELSE older[f] \ {e}]
      /\ entries \in [Key -> Entry \cup {NoEntry}]
      /\ older \in [Entry -> SUBSET Entry]
  BY DEF Unmap, PoolInv, PoolTypeOK
<1>2. Mapped' = Mapped \ {e}
  BY <1>1, PoolConstants DEF Mapped
<1> QED
  BY <1>1, <1>2

\* closeEntry spares a browser under lease and loses none.
LEMMA CloseEntrySpares ==
    ASSUME PoolInv, NEW e \in Entry, CloseEntry(e)
    PROVE  /\ entries' \in [Key -> Entry \cup {NoEntry}]
           /\ older' \in [Entry -> SUBSET Entry]
           /\ timer' \in [Entry -> BOOLEAN]
           /\ browser' \in [Entry -> {"none", "open", "dead"}]
           /\ \A f \in Entry : Has(f)' => Has(f) /\ (f \in Mapped => f \in Mapped')
           /\ KeptOpen
<1>1. /\ timer' = [timer EXCEPT ![e] = FALSE]
      /\ PoolTypeOK
  BY DEF CloseEntry, PoolInv
<1>2. CASE leases[e] > 0
  <2>1. entries' = entries /\ older' = older /\ browser' = browser
    BY <1>2 DEF CloseEntry
  <2> QED
    BY <1>1, <2>1 DEF PoolTypeOK, Has, Mapped, KeptOpen
<1>3. CASE ~(leases[e] > 0)
  <2>1. Unmap(e) /\ browser' = [browser EXCEPT ![e] = "none"]
    BY <1>3 DEF CloseEntry
  <2>2. Holders(e) = {}
    BY <1>3, HeldHasLeases
  <2>3. \A f \in Entry : browser'[f] = IF f = e THEN "none" ELSE browser[f]
    BY <1>1, <2>1 DEF PoolTypeOK
  <2>4. KeptOpen
    BY <2>2, <2>3 DEF KeptOpen
  <2>5. \A f \in Entry : Has(f)' => Has(f) /\ (f \in Mapped => f \in Mapped')
    BY <2>1, <2>3, UnmapTakesOne DEF Has
  <2> QED
    BY <1>1, <2>1, <2>4, <2>5, UnmapTakesOne DEF PoolTypeOK
<1> QED
  BY <1>2, <1>3

Suspendable == {"idle", "evicting", "retrying", "launched"}

\* A caller that goes on without a lease: what it remembers has its type, and
\* the leases are as before.
LEMMA CallerMoves ==
    ASSUME PoolInv, NEW c \in Caller, NEW p \in Phase \ {"leased", "refused"},
           NEW k \in Key \cup {NoKey}, NEW n \in 0 .. 3, NEW e \in Entry \cup {NoEntry},
           NEW w \in BOOLEAN,
           p \in InCheckout => k \in Key /\ e \in Entry,
           p = "clearing" => e \in Entry,
           p \in {"evicting", "waiting", "launched"} => n \in 0 .. 2,
           caller[c].phase # "leased",
           caller' = [caller EXCEPT ![c] = Suspended(p, k, n, e, w)],
           \A f \in Entry : Has(f)' => Has(f)
    PROVE  /\ caller' \in [Caller -> [phase : Phase, at : Entry \cup {NoEntry},
                                      key : Key \cup {NoKey}, attempt : 0 .. 3,
                                      awaits : BOOLEAN]]
           /\ CallersPlaced'
           /\ \A f \in Entry : Holders(f)' = Holders(f)
           /\ \A d \in Caller : caller'[d].phase = "refused" => ~Has(caller[d].at)'
<1> DEFINE x == Suspended(p, k, n, e, w)
<1>1. /\ x \in [phase : Phase, at : Entry \cup {NoEntry}, key : Key \cup {NoKey},
                attempt : 0 .. 3, awaits : BOOLEAN]
      /\ x.phase = p /\ x.key = k /\ x.attempt = n /\ x.at = e
  BY DEF Suspended
<1>2. /\ caller \in [Caller -> [phase : Phase, at : Entry \cup {NoEntry},
                                key : Key \cup {NoKey}, attempt : 0 .. 3,
                                awaits : BOOLEAN]]
      /\ caller' = [caller EXCEPT ![c] = x]
  BY DEF PoolInv, PoolTypeOK
<1> HIDE DEF x
<1>3. \A d \in Caller : caller'[d] = IF d = c THEN x ELSE caller[d]
  BY <1>2
<1>4. CallersPlaced'
  <2> SUFFICES ASSUME NEW d \in Caller
               PROVE  /\ caller'[d].phase \in InCheckout \cup {"leased", "clearing"} => caller'[d].at \in Entry
                      /\ caller'[d].phase \in InCheckout => caller'[d].key \in Key
                      /\ caller'[d].phase \in {"evicting", "waiting", "launched"}
                            => caller'[d].attempt \in 0 .. 2
    BY DEF CallersPlaced
  <2>1. CASE d = c
    BY <1>1, <1>3, <2>1
  <2>2. CASE d # c
    BY <1>3, <2>2 DEF PoolInv, CallersPlaced
  <2> QED
    BY <2>1, <2>2
<1>5. \A f \in Entry : Holders(f)' = Holders(f)
  <2>1. x.phase # "leased"
    BY <1>1
  <2> QED
    BY <1>2, <2>1, HoldersStay
<1>6. ASSUME NEW d \in Caller, caller'[d].phase = "refused"
      PROVE  ~Has(caller[d].at)'
  <2>1. d # c /\ caller[d].phase = "refused" /\ caller'[d].at = caller[d].at
    BY <1>1, <1>3, <1>6
  <2>2. caller[d].at \in Entry /\ ~Has(caller[d].at)
    BY <2>1 DEF PoolInv, CallersPlaced, LaunchingIsBare, InCheckout
  <2> QED
    BY <2>1, <2>2
<1> QED
  BY <1>1, <1>2, <1>4, <1>5, <1>6


\* The same for a caller that takes a lease.
LEMMA LeaseMoves ==
    ASSUME PoolInv, NEW c \in Caller, NEW e \in Entry, Lease(c, e),
           caller[c].phase # "leased", browser' = browser
    PROVE  /\ leases' \in [Entry -> Nat]
           /\ older' \in [Entry -> SUBSET Entry]
           /\ caller' \in [Caller -> [phase : Phase, at : Entry \cup {NoEntry},
                                      key : Key \cup {NoKey}, attempt : 0 .. 3,
                                      awaits : BOOLEAN]]
           /\ CallersPlaced'
           /\ LeasesCounted'
           /\ \A d \in Caller : caller'[d].phase = "refused" => ~Has(caller[d].at)'
<1>1. /\ leases' = [leases EXCEPT ![e] = @ + 1] /\ older' = Touched(e)
      /\ caller' = [caller EXCEPT ![c] = Holding("leased", e)]
      /\ PoolTypeOK
  BY DEF Lease, PoolInv
<1>2. leases' \in [Entry -> Nat] /\ older' \in [Entry -> SUBSET Entry]
  BY <1>1 DEF PoolTypeOK, Touched, Mapped
<1>3. Holding("leased", e) \in [phase : Phase, at : Entry \cup {NoEntry}, key : Key \cup {NoKey},
                                attempt : 0 .. 3, awaits : BOOLEAN]
      /\ Holding("leased", e).phase = "leased" /\ Holding("leased", e).at = e
  BY DEF Holding, Suspended, Phase
<1>4. \A d \in Caller : caller'[d] = IF d = c THEN Holding("leased", e) ELSE caller[d]
  BY <1>1 DEF PoolTypeOK
<1>5. CallersPlaced'
  BY <1>3, <1>4 DEF PoolInv, CallersPlaced, InCheckout
<1>6. \A d \in Caller : caller'[d].phase = "refused" => ~Has(caller[d].at)'
  BY <1>3, <1>4 DEF PoolInv, LaunchingIsBare, Has
<1>7. caller' \in [Caller -> [phase : Phase, at : Entry \cup {NoEntry}, key : Key \cup {NoKey},
                              attempt : 0 .. 3, awaits : BOOLEAN]]
  BY <1>1, <1>3 DEF PoolTypeOK
<1> QED
  BY <1>2, <1>5, <1>6, <1>7, LeaseCounts

\* An entry in hand, warm, dead or bare.
LEMMA UseKeeps ==
    ASSUME PoolInv, NEW c \in Caller, caller[c].phase \in Suspendable,
           NEW k \in Key, NEW n \in 0 .. 2, NEW e \in Entry,
           Use(c, k, n, e), closed' = closed
    PROVE  PoolInv' /\ KeptOpen
<1>1. caller[c].phase # "leased" /\ PoolTypeOK
  BY DEF Suspendable, PoolInv
<1>2. CASE /\ browser[e] = "open"
           /\ Lease(c, e)
           /\ timer' = [timer EXCEPT ![e] = FALSE]
           /\ UNCHANGED <<entries, browser, launch>>
  <2>1. timer' \in [Entry -> BOOLEAN]
    BY <1>1, <1>2 DEF PoolTypeOK
  <2>2. PoolTypeOK' /\ CallersPlaced' /\ LeasesCounted'
    BY <1>1, <1>2, <2>1, LeaseMoves DEF PoolTypeOK
  <2>3. LaunchingIsBare'
    <3>1. \A f \in Entry : launch'[f] # "none" => ~Has(f)'
      BY <1>2 DEF PoolInv, LaunchingIsBare, Has
    <3>2. \A d \in Caller : caller'[d].phase = "refused" => ~Has(caller[d].at)'
      BY <1>1, <1>2, LeaseMoves
    <3> QED
      BY <3>1, <3>2 DEF LaunchingIsBare
  <2>4. NoStrayBrowser'
    BY <1>2 DEF PoolInv, NoStrayBrowser, Has, Mapped
  <2>5. KeptOpen
    BY <1>2 DEF KeptOpen
  <2> QED
    BY <2>2, <2>3, <2>4, <2>5 DEF PoolInv
<1>3. CASE /\ browser[e] = "dead"
           /\ CloseEntry(e)
           /\ caller' = [caller EXCEPT ![c] = Suspended("retrying", k, n + 1, e, Closes(e))]
           /\ UNCHANGED <<launch, leases>>
  <2>1. /\ Closes(e) \in BOOLEAN /\ n + 1 \in 0 .. 3
        /\ "retrying" \in Phase \ {"leased", "refused"}
        /\ "retrying" \notin {"evicting", "waiting", "launched", "clearing"}
    BY DEF Closes, Phase
  <2>2. \A f \in Entry : Has(f)' => Has(f)
    BY <1>3, CloseEntrySpares
  <2>3. /\ caller' \in [Caller -> [phase : Phase, at : Entry \cup {NoEntry}, key : Key \cup {NoKey},
                                   attempt : 0 .. 3, awaits : BOOLEAN]]
        /\ CallersPlaced'
        /\ \A f \in Entry : Holders(f)' = Holders(f)
        /\ \A d \in Caller : caller'[d].phase = "refused" => ~Has(caller[d].at)'
    BY <1>1, <1>3, <2>1, <2>2, CallerMoves
  <2>4. PoolTypeOK'
    BY <1>1, <1>3, <2>3, CloseEntrySpares DEF PoolTypeOK
  <2>5. LeasesCounted'
    BY <1>3, <2>3 DEF PoolInv, LeasesCounted
  <2>6. LaunchingIsBare'
    BY <1>3, <2>2, <2>3 DEF PoolInv, LaunchingIsBare
  <2> QED
    BY <1>3, <2>3, <2>4, <2>5, <2>6, CloseEntrySpares, OnlyLess DEF PoolInv
<1>4. CASE /\ ~Has(e)
           /\ launch' = [launch EXCEPT ![e] = IF @ = "none" THEN "starting" ELSE @]
           /\ timer' = [timer EXCEPT ![e] = FALSE]
           /\ caller' = [caller EXCEPT ![c] = Suspended("waiting", k, n, e, FALSE)]
           /\ UNCHANGED <<entries, browser, leases, older>>
  <2>1. /\ n \in 0 .. 3 /\ FALSE \in BOOLEAN
        /\ "waiting" \in Phase \ {"leased", "refused"} /\ "waiting" # "clearing"
    BY DEF Phase
  <2>2. \A f \in Entry : Has(f)' <=> Has(f)
    BY <1>4 DEF Has
  <2>3. /\ caller' \in [Caller -> [phase : Phase, at : Entry \cup {NoEntry}, key : Key \cup {NoKey},
                                   attempt : 0 .. 3, awaits : BOOLEAN]]
        /\ CallersPlaced'
        /\ \A f \in Entry : Holders(f)' = Holders(f)
        /\ \A d \in Caller : caller'[d].phase = "refused" => ~Has(caller[d].at)'
    BY <1>1, <1>4, <2>1, <2>2, CallerMoves
  <2>4. launch' \in [Entry -> {"none", "starting", "discarding"}] /\ timer' \in [Entry -> BOOLEAN]
    BY <1>1, <1>4 DEF PoolTypeOK
  <2>5. PoolTypeOK'
    BY <1>1, <1>4, <2>3, <2>4 DEF PoolTypeOK
  <2>6. LeasesCounted'
    BY <1>4, <2>3 DEF PoolInv, LeasesCounted
  <2>7. \A f \in Entry : launch'[f] # "none" => ~Has(f)'
    BY <1>1, <1>4, <2>2 DEF PoolInv, PoolTypeOK, LaunchingIsBare
  <2>8. LaunchingIsBare'
    BY <2>3, <2>7 DEF LaunchingIsBare
  <2>9. NoStrayBrowser' /\ KeptOpen
    BY <1>4 DEF PoolInv, NoStrayBrowser, Has, Mapped, KeptOpen
  <2> QED
    BY <2>3, <2>5, <2>6, <2>8, <2>9 DEF PoolInv
<1> QED
  BY <1>2, <1>3, <1>4 DEF Use


\* A new entry in a pool with room.
LEMMA InsertKeeps ==
    ASSUME PoolInv, NEW c \in Caller, caller[c].phase \in Suspendable,
           NEW k \in Key, NEW n \in 0 .. 2, Insert(c, k, n), closed' = closed
    PROVE  PoolInv' /\ KeptOpen
<1> DEFINE e == CHOOSE f \in Free : TRUE
<1>1. e \in Free
  BY DEF Insert
<1>2. /\ e \in Entry /\ e \notin Mapped /\ ~Has(e) /\ leases[e] = 0
      /\ caller[c].phase # "leased" /\ PoolTypeOK
  BY <1>1, FreeIsUnheld DEF Suspendable, PoolInv
<1>3. /\ entries[k] = NoEntry
      /\ entries' = [entries EXCEPT ![k] = e]
      /\ launch' = [launch EXCEPT ![e] = "starting"]
      /\ leases' = [leases EXCEPT ![e] = 0]
      /\ older' = [older EXCEPT ![e] = Mapped]
      /\ timer' = [timer EXCEPT ![e] = FALSE]
      /\ caller' = [caller EXCEPT ![c] = Suspended("waiting", k, n, e, FALSE)]
      /\ browser' = browser
  BY DEF Insert
<1> HIDE DEF e
<1>4. /\ n \in 0 .. 3 /\ FALSE \in BOOLEAN
      /\ "waiting" \in Phase \ {"leased", "refused"} /\ "waiting" # "clearing"
  BY DEF Phase
<1>5. \A f \in Entry : Has(f)' <=> Has(f)
  BY <1>3 DEF Has
<1>6. /\ caller' \in [Caller -> [phase : Phase, at : Entry \cup {NoEntry}, key : Key \cup {NoKey},
                                 attempt : 0 .. 3, awaits : BOOLEAN]]
      /\ CallersPlaced'
      /\ \A f \in Entry : Holders(f)' = Holders(f)
      /\ \A d \in Caller : caller'[d].phase = "refused" => ~Has(caller[d].at)'
  BY <1>2, <1>3, <1>4, <1>5, CallerMoves
<1>7. PoolTypeOK'
  BY <1>2, <1>3, <1>6 DEF PoolTypeOK, Mapped
<1>8. leases' = leases
  BY <1>2, <1>3 DEF PoolTypeOK
<1>9. LeasesCounted'
  BY <1>6, <1>8 DEF PoolInv, LeasesCounted
<1>10. \A f \in Entry : launch'[f] # "none" => ~Has(f)'
  BY <1>2, <1>3, <1>5 DEF PoolInv, PoolTypeOK, LaunchingIsBare
<1>11. LaunchingIsBare'
  BY <1>6, <1>10 DEF LaunchingIsBare
<1>12. \A f \in Mapped : f \in Mapped'
  BY <1>2, <1>3, PoolConstants DEF Mapped, PoolTypeOK
<1>13. NoStrayBrowser' /\ KeptOpen
  BY <1>3, <1>5, <1>12, OnlyLess DEF KeptOpen
<1> QED
  BY <1>6, <1>7, <1>9, <1>11, <1>13 DEF PoolInv

\* A new entry in the place of one nobody holds.
LEMMA EvictKeeps ==
    ASSUME PoolInv, NEW c \in Caller, caller[c].phase \in Suspendable,
           NEW k \in Key, NEW n \in 0 .. 2, Evict(c, k, n), closed' = closed
    PROVE  PoolInv' /\ KeptOpen
<1> DEFINE e == CHOOSE f \in Free : TRUE
<1>1. e \in Free
  BY DEF Evict
<1>2. /\ e \in Entry /\ e \notin Mapped /\ ~Has(e) /\ leases[e] = 0
      /\ caller[c].phase # "leased" /\ PoolTypeOK
  BY <1>1, FreeIsUnheld DEF Suspendable, PoolInv
<1>3. PICK v \in Victims :
        /\ entries' = [q \in Key |-> IF q = k THEN e ELSE IF entries[q] = v THEN NoEntry ELSE entries[q]]
        /\ leases' = [leases EXCEPT ![e] = 0]
        /\ older' = [f \in Entry |-> IF f = e THEN Mapped \ {v}
                                     ELSE IF f = v THEN {} ELSE older[f] \ {v}]
        /\ timer' = [timer EXCEPT ![v] = FALSE, ![e] = FALSE]
        /\ browser' = [browser EXCEPT ![v] = "none"]
        /\ caller' = [caller EXCEPT ![c] = Suspended("evicting", k, n, e, Closes(v))]
  BY DEF Evict
<1>4. entries[k] = NoEntry /\ launch' = launch
  BY DEF Evict
<1>5. v \in Mapped /\ v \in Entry /\ leases[v] = 0
  BY DEF Victims, Unheld, Mapped
<1> HIDE DEF e
<1>6. /\ n \in 0 .. 3 /\ Closes(v) \in BOOLEAN
      /\ "evicting" \in Phase \ {"leased", "refused"} /\ "evicting" # "clearing"
  BY DEF Phase, Closes
<1>7. /\ \A f \in Entry : browser'[f] = IF f = v THEN "none" ELSE browser[f]
      /\ \A f \in Entry : Has(f)' <=> Has(f) /\ f # v
  BY <1>2, <1>3, <1>5 DEF Has, PoolTypeOK
<1>8. /\ caller' \in [Caller -> [phase : Phase, at : Entry \cup {NoEntry}, key : Key \cup {NoKey},
                                 attempt : 0 .. 3, awaits : BOOLEAN]]
      /\ CallersPlaced'
      /\ \A f \in Entry : Holders(f)' = Holders(f)
      /\ \A d \in Caller : caller'[d].phase = "refused" => ~Has(caller[d].at)'
  BY <1>2, <1>3, <1>6, <1>7, CallerMoves
<1>9. PoolTypeOK'
  BY <1>2, <1>3, <1>4, <1>5, <1>8 DEF PoolTypeOK, Mapped
<1>10. leases' = leases
  BY <1>2, <1>3 DEF PoolTypeOK
<1>11. LeasesCounted'
  BY <1>8, <1>10 DEF PoolInv, LeasesCounted
<1>12. LaunchingIsBare'
  BY <1>4, <1>7, <1>8 DEF PoolInv, LaunchingIsBare
<1>13. \A f \in Mapped \ {v} : f \in Mapped'
  <2> SUFFICES ASSUME NEW f \in Mapped \ {v}
               PROVE  f \in Mapped'
    OBVIOUS
  <2>1. PICK q \in Key : entries[q] = f
    BY DEF Mapped
  <2>2. f \in Entry /\ q # k
    BY <1>4, <2>1, PoolConstants DEF Mapped
  <2>3. entries'[q] = f
    BY <1>3, <2>1, <2>2
  <2> QED
    BY <2>2, <2>3 DEF Mapped
<1>14. NoStrayBrowser'
  BY <1>7, <1>13, OnlyLess
<1>15. KeptOpen
  BY <1>5, <1>7, HeldHasLeases DEF KeptOpen
<1> QED
  BY <1>8, <1>9, <1>11, <1>12, <1>14, <1>15 DEF PoolInv

\* A caller leaves for a direct launch, or is done.
LEMMA LeavingKeeps ==
    ASSUME PoolInv, NEW c \in Caller, caller[c].phase # "leased",
           NEW p \in {"idle", "direct"}, GoesTo(c, p),
           UNCHANGED <<entries, browser, launch, leases, older, closed>>,
           timer' \in [Entry -> BOOLEAN]
    PROVE  PoolInv' /\ KeptOpen
<1>1. caller' = [caller EXCEPT ![c] = Suspended(p, NoKey, 0, NoEntry, FALSE)] /\ PoolTypeOK
  BY DEF GoesTo, Nowhere, Holding, PoolInv
<1>2. /\ p \in Phase \ {"leased", "refused"} /\ p \notin InCheckout /\ p # "clearing"
      /\ 0 \in 0 .. 3 /\ FALSE \in BOOLEAN /\ p \notin {"evicting", "waiting", "launched"}
  BY DEF Phase, InCheckout
<1>3. \A f \in Entry : Has(f)' <=> Has(f)
  BY DEF Has
<1>4. /\ caller' \in [Caller -> [phase : Phase, at : Entry \cup {NoEntry}, key : Key \cup {NoKey},
                                 attempt : 0 .. 3, awaits : BOOLEAN]]
      /\ CallersPlaced'
      /\ \A f \in Entry : Holders(f)' = Holders(f)
      /\ \A d \in Caller : caller'[d].phase = "refused" => ~Has(caller[d].at)'
  BY <1>1, <1>2, <1>3, CallerMoves
<1>5. PoolTypeOK' /\ LeasesCounted' /\ LaunchingIsBare'
  BY <1>1, <1>3, <1>4 DEF PoolInv, PoolTypeOK, LeasesCounted, LaunchingIsBare
<1>6. NoStrayBrowser' /\ KeptOpen
  BY DEF PoolInv, NoStrayBrowser, Has, Mapped, KeptOpen
<1> QED
  BY <1>4, <1>5, <1>6 DEF PoolInv

\* One pass of the loop of checkout.
LEMMA PassKeeps ==
    ASSUME PoolInv, NEW c \in Caller, caller[c].phase \in Suspendable,
           NEW k \in Key, NEW n \in 0 .. 3, Pass(c, k, n), closed' = closed
    PROVE  PoolInv' /\ KeptOpen
<1>1. CASE n < 3 /\ entries[k] # NoEntry /\ Use(c, k, n, entries[k])
  <2>1. entries[k] \in Entry /\ n \in 0 .. 2
    BY <1>1 DEF PoolInv, PoolTypeOK
  <2> QED
    BY <1>1, <2>1, UseKeeps
<1>2. CASE n < 3 /\ Insert(c, k, n)
  <2>1. n \in 0 .. 2
    BY <1>2
  <2> QED
    BY <1>2, <2>1, InsertKeeps
<1>3. CASE n < 3 /\ Evict(c, k, n)
  <2>1. n \in 0 .. 2
    BY <1>3
  <2> QED
    BY <1>3, <2>1, EvictKeeps
<1>4. CASE GoesTo(c, "direct") /\ UNCHANGED poolVars
  <2>1. /\ caller[c].phase # "leased" /\ timer' \in [Entry -> BOOLEAN]
        /\ UNCHANGED <<entries, browser, launch, leases, older, closed>>
    BY <1>4 DEF Suspendable, poolVars, PoolInv, PoolTypeOK
  <2> QED
    BY <1>4, <2>1, LeavingKeeps
<1> QED
  BY <1>1, <1>2, <1>3, <1>4 DEF Pass


-------------------------------------------------------------------------------
(***************************************************************************)
(* The steps                                                               *)
(***************************************************************************)

CallerType == [phase : Phase, at : Entry \cup {NoEntry}, key : Key \cup {NoKey},
               attempt : 0 .. 3, awaits : BOOLEAN]

\* A caller takes up the browser it awaited, or finds it gone.
LEMMA LaunchedKeeps ==
    ASSUME PoolInv, NEW c \in Caller, Launched(c)
    PROVE  PoolInv' /\ KeptOpen
<1> DEFINE e == caller[c].at
           k == caller[c].key
           n == caller[c].attempt
<1>1. /\ e \in Entry /\ k \in Key /\ n \in 0 .. 2
      /\ caller[c].phase \in Suspendable /\ caller[c].phase # "leased"
      /\ PoolTypeOK /\ closed' = closed
  BY DEF Launched, PoolInv, CallersPlaced, InCheckout, Suspendable
<1>2. n + 1 \in 0 .. 3
  BY <1>1
<1>3. CASE /\ browser[e] = "open"
           /\ Lease(c, e)
           /\ UNCHANGED <<entries, browser, launch, timer>>
  <2>1. PoolTypeOK' /\ CallersPlaced' /\ LeasesCounted'
    BY <1>1, <1>3, LeaseMoves DEF PoolTypeOK
  <2>2. LaunchingIsBare'
    <3>1. \A f \in Entry : launch'[f] # "none" => ~Has(f)'
      BY <1>3 DEF PoolInv, LaunchingIsBare, Has
    <3>2. \A d \in Caller : caller'[d].phase = "refused" => ~Has(caller[d].at)'
      BY <1>1, <1>3, LeaseMoves
    <3> QED
      BY <3>1, <3>2 DEF LaunchingIsBare
  <2>3. NoStrayBrowser' /\ KeptOpen
    BY <1>1, <1>3 DEF PoolInv, NoStrayBrowser, Has, Mapped, KeptOpen
  <2> QED
    BY <2>1, <2>2, <2>3 DEF PoolInv
<1>4. CASE /\ CloseEntry(e)
           /\ caller' = [caller EXCEPT ![c] = Suspended("retrying", k, n + 1, e, Closes(e))]
           /\ UNCHANGED <<launch, leases>>
  <2>1. /\ Closes(e) \in BOOLEAN
        /\ "retrying" \in Phase \ {"leased", "refused"}
        /\ "retrying" \notin {"evicting", "waiting", "launched", "clearing"}
    BY DEF Closes, Phase
  <2>2. \A f \in Entry : Has(f)' => Has(f)
    BY <1>1, <1>4, CloseEntrySpares
  <2>3. /\ caller' \in [Caller -> CallerType]
        /\ CallersPlaced'
        /\ \A f \in Entry : Holders(f)' = Holders(f)
        /\ \A d \in Caller : caller'[d].phase = "refused" => ~Has(caller[d].at)'
    BY <1>1, <1>2, <1>4, <2>1, <2>2, CallerMoves DEF CallerType
  <2>4. PoolTypeOK'
    BY <1>1, <1>4, <2>3, CloseEntrySpares DEF PoolTypeOK, CallerType
  <2>5. LeasesCounted' /\ LaunchingIsBare'
    BY <1>4, <2>2, <2>3 DEF PoolInv, LeasesCounted, LaunchingIsBare
  <2> QED
    BY <1>1, <1>4, <2>3, <2>4, <2>5, CloseEntrySpares, OnlyLess DEF PoolInv
<1>5. CASE Pass(c, k, n + 1)
  BY <1>1, <1>2, <1>5, PassKeeps
<1> QED
  BY <1>3, <1>4, <1>5 DEF Launched

\* A caller whose launch failed goes to a direct one.
LEMMA RefusedKeeps ==
    ASSUME PoolInv, NEW c \in Caller, Refused(c)
    PROVE  PoolInv' /\ KeptOpen
<1> DEFINE e == caller[c].at
<1>1. /\ e \in Entry /\ ~Has(e) /\ PoolTypeOK /\ caller[c].phase # "leased"
      /\ Unmap(e) /\ UNCHANGED <<browser, launch, leases, timer, closed>>
      /\ caller' = [caller EXCEPT ![c] = Suspended("direct", NoKey, 0, NoEntry, FALSE)]
  BY DEF Refused, PoolInv, CallersPlaced, LaunchingIsBare, InCheckout, GoesTo, Nowhere, Holding
<1>2. /\ "direct" \in Phase \ {"leased", "refused"} /\ "direct" \notin InCheckout
      /\ "direct" # "clearing" /\ "direct" \notin {"evicting", "waiting", "launched"}
      /\ 0 \in 0 .. 3 /\ FALSE \in BOOLEAN
  BY DEF Phase, InCheckout
<1>3. \A f \in Entry : Has(f)' => Has(f) /\ (f \in Mapped => f \in Mapped')
  BY <1>1, UnmapTakesOne DEF Has
<1>4. /\ caller' \in [Caller -> CallerType]
      /\ CallersPlaced'
      /\ \A f \in Entry : Holders(f)' = Holders(f)
      /\ \A d \in Caller : caller'[d].phase = "refused" => ~Has(caller[d].at)'
  BY <1>1, <1>2, <1>3, CallerMoves DEF CallerType
<1>5. PoolTypeOK'
  BY <1>1, <1>4, UnmapTakesOne DEF PoolTypeOK, CallerType
<1>6. LeasesCounted' /\ LaunchingIsBare'
  BY <1>1, <1>3, <1>4 DEF PoolInv, LeasesCounted, LaunchingIsBare
<1>7. NoStrayBrowser' /\ KeptOpen
  BY <1>1, <1>3, OnlyLess DEF KeptOpen
<1> QED
  BY <1>4, <1>5, <1>6, <1>7 DEF PoolInv

\* Those who awaited a launch are told how it ended, and nobody else is.
LEMMA WakesTells ==
    ASSUME PoolInv, NEW e \in Entry, NEW p \in {"launched", "refused"}, Wakes(e, p)
    PROVE  /\ caller' \in [Caller -> CallerType]
           /\ CallersPlaced'
           /\ \A f \in Entry : Holders(f)' = Holders(f)
           /\ \A d \in Caller :
                /\ caller'[d].at = caller[d].at
                /\ caller'[d].phase = "refused" =>
                      \/ caller[d].phase = "refused"
                      \/ p = "refused" /\ caller[d].at = e
<1>1. caller \in [Caller -> CallerType] /\ p \in Phase
  BY DEF PoolInv, PoolTypeOK, CallerType, Phase
<1>2. \A d \in Caller :
         caller'[d] = IF caller[d].phase = "waiting" /\ caller[d].at = e
                      THEN [caller[d] EXCEPT !.phase = p] ELSE caller[d]
  BY DEF Wakes
<1>3. caller' \in [Caller -> CallerType]
  BY <1>1 DEF Wakes, CallerType
<1>4. \A d \in Caller :
         /\ caller'[d].at = caller[d].at
         /\ caller'[d].key = caller[d].key
         /\ caller'[d].attempt = caller[d].attempt
         /\ caller'[d].phase = IF caller[d].phase = "waiting" /\ caller[d].at = e
                               THEN p ELSE caller[d].phase
  BY <1>1, <1>2 DEF CallerType
<1>5. CallersPlaced'
  BY <1>4 DEF PoolInv, CallersPlaced, InCheckout
<1>6. \A f \in Entry : Holders(f)' = Holders(f)
  BY <1>4 DEF Holders
<1> QED
  BY <1>3, <1>4, <1>5, <1>6

\* A browser opens, for the pool or for nobody.
LEMMA LaunchOpensKeeps ==
    ASSUME PoolInv, NEW e \in Entry, LaunchOpens(e)
    PROVE  PoolInv' /\ KeptOpen
<1>1. /\ \A d \in Caller : caller[d].phase # "refused"
      /\ launch[e] = "starting" /\ PoolTypeOK
      /\ UNCHANGED <<entries, leases, older, timer, closed>>
  BY DEF LaunchOpens, EventLoop, Ready, PoolInv
<1>2. CASE /\ Wanted(e)
           /\ launch' = [launch EXCEPT ![e] = "none"]
           /\ browser' = [browser EXCEPT ![e] = "open"]
           /\ Wakes(e, "launched")
  <2>1. /\ \A f \in Entry : browser'[f] = IF f = e THEN "open" ELSE browser[f]
        /\ \A f \in Entry : launch'[f] = IF f = e THEN "none" ELSE launch[f]
    BY <1>1, <1>2 DEF PoolTypeOK
  <2>2. /\ caller' \in [Caller -> CallerType]
        /\ CallersPlaced'
        /\ \A f \in Entry : Holders(f)' = Holders(f)
        /\ \A d \in Caller : caller'[d].phase # "refused"
    BY <1>1, <1>2, WakesTells
  <2>3. PoolTypeOK'
    BY <1>1, <1>2, <2>2 DEF PoolTypeOK, CallerType
  <2>4. LeasesCounted' /\ LaunchingIsBare'
    BY <1>1, <2>1, <2>2 DEF PoolInv, LeasesCounted, LaunchingIsBare, Has
  <2>5. NoStrayBrowser' /\ KeptOpen
    BY <1>1, <1>2, <2>1 DEF PoolInv, NoStrayBrowser, Has, Mapped, Wanted, KeptOpen
  <2> QED
    BY <2>2, <2>3, <2>4, <2>5 DEF PoolInv
<1>3. CASE launch' = [launch EXCEPT ![e] = "discarding"] /\ UNCHANGED <<browser, caller>>
  <2>1. PoolTypeOK'
    BY <1>1, <1>3 DEF PoolTypeOK
  <2>2. CallersPlaced' /\ LeasesCounted' /\ LaunchingIsBare'
    BY <1>1, <1>3 DEF PoolInv, PoolTypeOK, CallersPlaced, LeasesCounted, Holders, LaunchingIsBare, Has
  <2>3. NoStrayBrowser' /\ KeptOpen
    BY <1>1, <1>3 DEF PoolInv, NoStrayBrowser, Has, Mapped, KeptOpen
  <2> QED
    BY <2>1, <2>2, <2>3 DEF PoolInv
<1> QED
  BY <1>2, <1>3 DEF LaunchOpens

\* A launch fails, or what it opened for nobody is closed.
LEMMA LaunchRejectsKeeps ==
    ASSUME PoolInv, NEW e \in Entry, LaunchRejects(e)
    PROVE  PoolInv' /\ KeptOpen
<1>1. /\ launch[e] # "none" /\ ~Has(e) /\ PoolTypeOK
      /\ launch' = [launch EXCEPT ![e] = "none"]
      /\ Wakes(e, "refused")
      /\ UNCHANGED <<entries, browser, leases, older, timer, closed>>
  BY DEF LaunchRejects, PoolInv, LaunchingIsBare
<1>2. /\ caller' \in [Caller -> CallerType]
      /\ CallersPlaced'
      /\ \A f \in Entry : Holders(f)' = Holders(f)
      /\ \A d \in Caller : caller'[d].phase = "refused" => ~Has(caller'[d].at)
  BY <1>1, WakesTells DEF PoolInv, LaunchingIsBare
<1>3. PoolTypeOK'
  BY <1>1, <1>2 DEF PoolTypeOK, CallerType
<1>4. LeasesCounted' /\ LaunchingIsBare'
  BY <1>1, <1>2 DEF PoolInv, PoolTypeOK, LeasesCounted, LaunchingIsBare, Has
<1>5. NoStrayBrowser' /\ KeptOpen
  BY <1>1 DEF PoolInv, NoStrayBrowser, Has, Mapped, KeptOpen
<1> QED
  BY <1>2, <1>3, <1>4, <1>5 DEF PoolInv


\* A test gives its browser back.
LEMMA ReleaseKeeps ==
    ASSUME PoolInv, NEW c \in Caller, Release(c)
    PROVE  PoolInv' /\ KeptOpen
<1> DEFINE e == caller[c].at
<1>1. /\ e \in Entry /\ c \in Holders(e) /\ PoolTypeOK
      /\ leases' = [leases EXCEPT ![e] = @ - 1]
      /\ older' = Touched(e)
      /\ UNCHANGED <<entries, browser, launch, closed>>
  BY DEF Release, PoolInv, CallersPlaced, Holders
<1>2. PICK x \in CallerType :
        /\ caller' = [caller EXCEPT ![c] = x]
        /\ x.phase \in {"idle", "clearing"}
        /\ x.phase = "clearing" => x.at = e
  <2>1. /\ Nowhere("idle") \in CallerType /\ Nowhere("idle").phase = "idle"
        /\ Holding("clearing", e) \in CallerType
        /\ Holding("clearing", e).phase = "clearing" /\ Holding("clearing", e).at = e
    BY <1>1 DEF Nowhere, Holding, Suspended, CallerType, Phase
  <2> QED
    BY <2>1 DEF Release, GoesTo
<1>3. \A d \in Caller : caller'[d] = IF d = c THEN x ELSE caller[d]
  BY <1>1, <1>2 DEF PoolTypeOK
<1>4. leases[e] > 0 /\ leases[e] \in Nat
  BY <1>1, HeldHasLeases
<1>5. timer' \in [Entry -> BOOLEAN]
  BY <1>1 DEF Release, PoolTypeOK, Arm
<1>6. PoolTypeOK'
  <2>1. leases' \in [Entry -> Nat] /\ older' \in [Entry -> SUBSET Entry]
    BY <1>1, <1>4 DEF PoolTypeOK, Touched, Mapped
  <2>2. caller' \in [Caller -> CallerType]
    BY <1>1, <1>2 DEF PoolTypeOK, CallerType
  <2> QED
    BY <1>1, <1>5, <2>1, <2>2 DEF PoolTypeOK, CallerType
<1>7. CallersPlaced'
  BY <1>1, <1>2, <1>3 DEF PoolInv, CallersPlaced, InCheckout
<1>8. LeasesCounted'
  <2> SUFFICES ASSUME NEW f \in Entry
               PROVE  leases'[f] = Cardinality(Holders(f)')
    BY DEF LeasesCounted
  <2>1. CASE f = e
    <3>1. Holders(f)' = Holders(f) \ {c}
      BY <1>2, <1>3, <2>1 DEF Holders
    <3>2. Cardinality(Holders(f)') = Cardinality(Holders(f)) - 1
      BY <1>1, <2>1, <3>1, HeldHasLeases, FS_RemoveElement
    <3> QED
      BY <1>1, <2>1, <3>2, HeldHasLeases DEF PoolTypeOK
  <2>2. CASE f # e
    <3>1. Holders(f)' = Holders(f)
      BY <1>1, <1>2, <1>3, <2>2 DEF Holders
    <3> QED
      BY <1>1, <2>2, <3>1, HeldHasLeases DEF PoolTypeOK
  <2> QED
    BY <2>1, <2>2
<1>9. LaunchingIsBare'
  BY <1>1, <1>2, <1>3 DEF PoolInv, LaunchingIsBare, Has
<1>10. NoStrayBrowser' /\ KeptOpen
  BY <1>1 DEF PoolInv, NoStrayBrowser, Has, Mapped, KeptOpen
<1> QED
  BY <1>6, <1>7, <1>8, <1>9, <1>10 DEF PoolInv

\* The contexts of a browser given back are closed.
LEMMA ClearedKeeps ==
    ASSUME PoolInv, NEW c \in Caller, Cleared(c)
    PROVE  PoolInv' /\ KeptOpen
<1>1. timer' \in [Entry -> BOOLEAN]
  BY DEF Cleared, Arm, PoolInv, PoolTypeOK
<1> QED
  BY <1>1, LeavingKeeps DEF Cleared

\* The close of a browser that a caller awaits returns.
LEMMA CloseReturnsKeeps ==
    ASSUME PoolInv, NEW c \in Caller, CloseReturns(c)
    PROVE  PoolInv' /\ KeptOpen
<1>1. /\ caller \in [Caller -> CallerType] /\ PoolTypeOK
      /\ caller' = [caller EXCEPT ![c].awaits = FALSE]
      /\ UNCHANGED <<entries, browser, launch, leases, older, timer, closed>>
  BY DEF CloseReturns, poolVars, PoolInv, PoolTypeOK, CallerType
<1>2. caller' \in [Caller -> CallerType]
  BY <1>1 DEF CallerType
<1>3. \A d \in Caller :
        /\ caller'[d].phase = caller[d].phase /\ caller'[d].at = caller[d].at
        /\ caller'[d].key = caller[d].key /\ caller'[d].attempt = caller[d].attempt
  BY <1>1 DEF CallerType
<1>4. PoolTypeOK'
  BY <1>1, <1>2 DEF PoolTypeOK, CallerType
<1>5. CallersPlaced' /\ LaunchingIsBare'
  BY <1>1, <1>3 DEF PoolInv, CallersPlaced, LaunchingIsBare, Has
<1>6. \A f \in Entry : Holders(f)' = Holders(f)
  BY <1>3 DEF Holders
<1>7. LeasesCounted' /\ NoStrayBrowser' /\ KeptOpen
  BY <1>1, <1>6 DEF PoolInv, LeasesCounted, NoStrayBrowser, Has, Mapped, KeptOpen
<1> QED
  BY <1>4, <1>5, <1>7 DEF PoolInv

\* What happens to an entry while all callers stay where they are.
LEMMA EntryStep ==
    ASSUME PoolInv, UNCHANGED <<launch, leases, caller>>, PoolTypeOK',
           \A f \in Entry : Has(f)' => Has(f)
    PROVE  CallersPlaced' /\ LeasesCounted' /\ LaunchingIsBare'
<1>1. \A f \in Entry : Holders(f)' = Holders(f)
  BY DEF Holders
<1>2. CallersPlaced' /\ LeasesCounted'
  BY <1>1 DEF PoolInv, CallersPlaced, LeasesCounted
<1>3. LaunchingIsBare'
  BY DEF PoolInv, CallersPlaced, LaunchingIsBare, InCheckout
<1> QED
  BY <1>2, <1>3

\* An idle timer fires.
LEMMA IdleFiresKeeps ==
    ASSUME PoolInv, NEW e \in Entry, IdleFires(e)
    PROVE  PoolInv' /\ KeptOpen
<1>1. CloseEntry(e) /\ UNCHANGED <<launch, leases, caller, closed>> /\ PoolTypeOK
  BY DEF IdleFires, PoolInv
<1>2. PoolTypeOK'
  BY <1>1, CloseEntrySpares DEF PoolTypeOK
<1>3. CallersPlaced' /\ LeasesCounted' /\ LaunchingIsBare'
  BY <1>1, <1>2, CloseEntrySpares, EntryStep
<1> QED
  BY <1>1, <1>2, <1>3, CloseEntrySpares, OnlyLess DEF PoolInv

\* A browser dies.
LEMMA CrashKeeps ==
    ASSUME PoolInv, NEW e \in Entry, Crash(e)
    PROVE  PoolInv' /\ KeptOpen
<1>1. /\ browser[e] = "open" /\ browser' = [browser EXCEPT ![e] = "dead"] /\ PoolTypeOK
      /\ UNCHANGED <<entries, launch, leases, older, timer, caller, closed>>
  BY DEF Crash, PoolInv
<1>2. /\ \A f \in Entry : browser'[f] = IF f = e THEN "dead" ELSE browser[f]
      /\ \A f \in Entry : Has(f)' <=> Has(f)
  BY <1>1 DEF PoolTypeOK, Has
<1>3. PoolTypeOK'
  BY <1>1 DEF PoolTypeOK
<1>4. CallersPlaced' /\ LeasesCounted' /\ LaunchingIsBare'
  BY <1>1, <1>2, <1>3, EntryStep
<1>5. NoStrayBrowser' /\ KeptOpen
  BY <1>1, <1>2 DEF PoolInv, NoStrayBrowser, Mapped, KeptOpen
<1> QED
  BY <1>3, <1>4, <1>5 DEF PoolInv

\* The pool hears that one has.
LEMMA DisconnectedKeeps ==
    ASSUME PoolInv, NEW e \in Entry, Disconnected(e)
    PROVE  PoolInv' /\ KeptOpen
<1>1. /\ browser[e] = "dead" /\ browser' = [browser EXCEPT ![e] = "none"] /\ PoolTypeOK
      /\ Unmap(e) /\ timer' = [timer EXCEPT ![e] = FALSE]
      /\ UNCHANGED <<launch, leases, caller, closed>>
  BY DEF Disconnected, PoolInv
<1>2. /\ \A f \in Entry : browser'[f] = IF f = e THEN "none" ELSE browser[f]
      /\ \A f \in Entry : Has(f)' <=> Has(f) /\ f # e
  BY <1>1 DEF PoolTypeOK, Has
<1>3. PoolTypeOK'
  BY <1>1, UnmapTakesOne DEF PoolTypeOK
<1>4. CallersPlaced' /\ LeasesCounted' /\ LaunchingIsBare'
  BY <1>1, <1>2, <1>3, EntryStep
<1>5. NoStrayBrowser'
  BY <1>1, <1>2, UnmapTakesOne, OnlyLess
<1>6. KeptOpen
  BY <1>1, <1>2 DEF KeptOpen
<1> QED
  BY <1>3, <1>4, <1>5, <1>6 DEF PoolInv

\* The pool is shut down.
LEMMA ShutdownKeeps ==
    ASSUME PoolInv, Shutdown
    PROVE  PoolInv' /\ KeptOpen
<1>1. /\ closed' = TRUE /\ PoolTypeOK
      /\ entries' = [k \in Key |-> NoEntry]
      /\ older' = [e \in Entry |-> {}]
      /\ timer' = [e \in Entry |-> timer[e] /\ e \notin Mapped]
      /\ browser' = [e \in Entry |-> IF e \in Mapped THEN "none" ELSE browser[e]]
      /\ UNCHANGED <<launch, leases, caller>>
  BY DEF Shutdown, PoolInv
<1>2. \A f \in Entry : ~Has(f)'
  BY <1>1 DEF PoolInv, NoStrayBrowser, Has
<1>3. PoolTypeOK'
  BY <1>1 DEF PoolTypeOK
<1>4. CallersPlaced' /\ LeasesCounted' /\ LaunchingIsBare'
  BY <1>1, <1>2, <1>3, EntryStep
<1>5. NoStrayBrowser' /\ KeptOpen
  BY <1>1, <1>2 DEF NoStrayBrowser, KeptOpen
<1> QED
  BY <1>3, <1>4, <1>5 DEF PoolInv

-------------------------------------------------------------------------------
(***************************************************************************)
(* Theorems                                                                *)
(***************************************************************************)

\* The invariant holds at first,
LEMMA InitInv ==
    ASSUME Init
    PROVE  PoolInv
<1>1. PoolTypeOK
  <2>1. Nowhere("idle") \in CallerType
    BY DEF Nowhere, Holding, Suspended, CallerType, Phase
  <2>2. caller \in [Caller -> CallerType]
    BY <2>1 DEF Init
  <2> QED
    BY <2>2 DEF Init, PoolTypeOK, CallerType
<1>2. \A c \in Caller : caller[c].phase = "idle"
  BY DEF Init, Nowhere, Holding, Suspended
<1>3. CallersPlaced /\ LaunchingIsBare /\ NoStrayBrowser
  BY <1>2 DEF Init, CallersPlaced, LaunchingIsBare, NoStrayBrowser, InCheckout, Has
<1>4. \A e \in Entry : Holders(e) = {} /\ leases[e] = 0
  BY <1>2 DEF Init, Holders
<1>5. LeasesCounted
  BY <1>4, FS_EmptySet DEF LeasesCounted
<1> QED
  BY <1>1, <1>3, <1>5 DEF PoolInv

\* is kept by every step, none of which closes a browser under lease,
LEMMA NextInv ==
    ASSUME PoolInv, [Next]_vars
    PROVE  PoolInv' /\ (KeptOpen \/ UNCHANGED vars)
<1>1. ASSUME NEW c \in Caller, NEW k \in Key, Acquire(c, k)
      PROVE  PoolInv' /\ KeptOpen
  <2>1. caller[c].phase \in Suspendable /\ 0 \in 0 .. 3 /\ Pass(c, k, 0) /\ closed' = closed
    BY <1>1 DEF Acquire, Suspendable
  <2> QED
    BY <2>1, PassKeeps
<1>2. ASSUME NEW c \in Caller, AcquireDirect(c) \/ GiveBack(c)
      PROVE  PoolInv' /\ KeptOpen
  <2>1. PICK p \in {"idle", "direct"} : GoesTo(c, p)
    BY <1>2 DEF AcquireDirect, GiveBack
  <2>2. /\ caller[c].phase # "leased" /\ timer' \in [Entry -> BOOLEAN]
        /\ UNCHANGED <<entries, browser, launch, leases, older, closed>>
    BY <1>2 DEF AcquireDirect, GiveBack, poolVars, PoolInv, PoolTypeOK
  <2> QED
    BY <2>1, <2>2, LeavingKeeps
<1>3. ASSUME NEW c \in Caller, Evicted(c)
      PROVE  PoolInv' /\ KeptOpen
  <2>1. /\ caller[c].phase \in Suspendable /\ caller[c].key \in Key
        /\ caller[c].attempt \in 0 .. 2 /\ caller[c].at \in Entry /\ closed' = closed
        /\ Use(c, caller[c].key, caller[c].attempt, caller[c].at)
    BY <1>3 DEF Evicted, Suspendable, PoolInv, CallersPlaced, InCheckout
  <2> QED
    BY <2>1, UseKeeps
<1>4. ASSUME NEW c \in Caller, Retry(c)
      PROVE  PoolInv' /\ KeptOpen
  <2>1. /\ caller[c].phase \in Suspendable /\ caller[c].key \in Key
        /\ caller[c].attempt \in 0 .. 3 /\ closed' = closed
        /\ Pass(c, caller[c].key, caller[c].attempt)
    BY <1>4 DEF Retry, Suspendable, PoolInv, PoolTypeOK, CallersPlaced, InCheckout
  <2> QED
    BY <2>1, PassKeeps
<1>5. CASE UNCHANGED vars
  <2>1. UNCHANGED <<entries, browser, launch, leases, older, timer, caller, closed>>
    BY <1>5 DEF vars, poolVars
  <2>2. PoolTypeOK'
    BY <2>1 DEF PoolInv, PoolTypeOK
  <2>3. CallersPlaced' /\ LeasesCounted' /\ LaunchingIsBare'
    BY <2>1, <2>2, EntryStep DEF Has
  <2>4. NoStrayBrowser'
    BY <2>1 DEF PoolInv, NoStrayBrowser, Has, Mapped
  <2> QED
    BY <1>5, <2>2, <2>3, <2>4 DEF PoolInv
<1>6. ASSUME NEW c \in Caller, CallerGoesOn(c)
      PROVE  PoolInv' /\ KeptOpen
  BY <1>3, <1>4, <1>6, LaunchedKeeps, RefusedKeeps, ClearedKeeps DEF CallerGoesOn
<1>7. ASSUME NEW e \in Entry,
             \/ LaunchOpens(e) \/ LaunchRejects(e)
             \/ Crash(e) \/ Disconnected(e) \/ IdleFires(e)
      PROVE  PoolInv' /\ KeptOpen
  BY <1>7, LaunchOpensKeeps, LaunchRejectsKeeps, CrashKeeps, DisconnectedKeeps, IdleFiresKeeps
<1> QED
  BY <1>1, <1>2, <1>5, <1>6, <1>7, ReleaseKeeps, CloseReturnsKeeps, ShutdownKeeps DEF Next

\* and so holds always.
LEMMA PoolInvHolds == Spec => []PoolInv
<1>1. Init => PoolInv
  BY InitInv
<1>2. PoolInv /\ [Next]_vars => PoolInv'
  BY NextInv
<1> QED
  BY <1>1, <1>2, PTL DEF Spec

\* Every variable of the pool has its type; in particular no caller of
\* checkout makes a fourth pass, and no counter of leases falls below zero.
THEOREM PoolTypeCorrect == Spec => []PoolTypeOK
<1>1. PoolInv => PoolTypeOK
  BY DEF PoolInv
<1> QED
  BY <1>1, PoolInvHolds, PTL

\* No browser the pool opened is lost to it: what runs is in the map, and
\* nothing does after shutdown (launchInto, closeEntry, reserveSlot).
THEOREM NoStrayHolds == Spec => []NoStrayBrowser
<1>1. PoolInv => NoStrayBrowser
  BY DEF PoolInv
<1> QED
  BY <1>1, PoolInvHolds, PTL

\* No browser is closed under a lease except to shut down, whatever timers
\* fire and whoever else needs room (closeEntry, reserveSlot, releaseEntry).
THEOREM NeverClosedUnderLease == Spec => NotClosedUnderLease
<1>1. PoolInv /\ [Next]_vars => [KeptOpen]_vars
  BY NextInv
<1>2. PoolInv /\ [Next]_vars =>
        [\A e \in Entry :
            browser[e] = "open" /\ Holders(e) # {} => browser'[e] # "none" \/ closed']_vars
  BY <1>1 DEF KeptOpen
<1> QED
  BY <1>2, PoolInvHolds, PTL DEF Spec, NotClosedUnderLease

-------------------------------------------------------------------------------
(***************************************************************************)
(* The bound on the browsers kept running                                  *)
(***************************************************************************)

Bounded == IsFiniteSet(Mapped) /\ Cardinality(Mapped) <= MaxBrowsers

\* The map gains an entry only where there is room or another one goes.
MapKeepsBound ==
    \/ Mapped' \subseteq Mapped
    \/ ~Full /\ \E e : Mapped' \subseteq Mapped \cup {e}
    \/ \E e : \E v \in Mapped : Mapped' \subseteq (Mapped \ {v}) \cup {e}

\* closeEntry takes one entry out of the map, or none.
LEMMA CloseEntryUnmaps ==
    ASSUME PoolInv, NEW e \in Entry, CloseEntry(e)
    PROVE  Mapped' \subseteq Mapped
<1>1. CASE leases[e] > 0
  BY <1>1 DEF CloseEntry, Mapped
<1>2. CASE ~(leases[e] > 0)
  BY <1>2, UnmapTakesOne DEF CloseEntry
<1> QED
  BY <1>1, <1>2

\* Using an entry adds none.
LEMMA UseAddsNone ==
    ASSUME PoolInv, NEW c, NEW k, NEW n, NEW e \in Entry, Use(c, k, n, e)
    PROVE  Mapped' \subseteq Mapped
<1>1. CASE UNCHANGED entries
  BY <1>1 DEF Mapped
<1>2. CASE CloseEntry(e)
  BY <1>2, CloseEntryUnmaps
<1> QED
  BY <1>1, <1>2 DEF Use

\* A pass of the loop of checkout keeps to the bound.
LEMMA PassKeepsBound ==
    ASSUME PoolInv, NEW c, NEW k \in Key, NEW n, Pass(c, k, n)
    PROVE  MapKeepsBound
<1>1. PoolTypeOK
  BY DEF PoolInv
<1>2. CASE entries[k] # NoEntry /\ Use(c, k, n, entries[k])
  <2>1. entries[k] \in Entry
    BY <1>1, <1>2 DEF PoolTypeOK
  <2> QED
    BY <1>2, <2>1, UseAddsNone DEF MapKeepsBound
<1>3. CASE Insert(c, k, n)
  <2>1. PICK e : entries' = [entries EXCEPT ![k] = e]
    BY <1>3 DEF Insert
  <2>2. Mapped' \subseteq Mapped \cup {e}
    BY <1>1, <2>1 DEF Mapped, PoolTypeOK
  <2> QED
    BY <1>3, <2>2 DEF Insert, MapKeepsBound
<1>4. CASE Evict(c, k, n)
  <2> DEFINE e == CHOOSE f \in Free : TRUE
  <2>1. PICK v \in Victims :
           entries' = [q \in Key |-> IF q = k THEN e
                                     ELSE IF entries[q] = v THEN NoEntry ELSE entries[q]]
    BY <1>4 DEF Evict
  <2> HIDE DEF e
  <2>2. v \in Mapped /\ v # NoEntry
    BY PoolConstants DEF Victims, Unheld, Mapped
  <2>3. Mapped' \subseteq (Mapped \ {v}) \cup {e}
    BY <1>1, <2>1, <2>2, PoolConstants DEF Mapped, PoolTypeOK
  <2> QED
    BY <2>2, <2>3 DEF MapKeepsBound
<1>5. CASE UNCHANGED poolVars
  BY <1>5 DEF poolVars, Mapped, MapKeepsBound
<1> QED
  BY <1>2, <1>3, <1>4, <1>5 DEF Pass

\* Every step keeps to the bound.
LEMMA BoundStep ==
    ASSUME PoolInv, [Next]_vars
    PROVE  MapKeepsBound
<1>1. ASSUME NEW c \in Caller, NEW k \in Key, Acquire(c, k)
      PROVE  MapKeepsBound
  BY <1>1, PassKeepsBound DEF Acquire
<1>2. ASSUME NEW c \in Caller, CallerGoesOn(c)
      PROVE  MapKeepsBound
  <2>1. caller[c].phase \in InCheckout => caller[c].at \in Entry /\ caller[c].key \in Key
    BY DEF PoolInv, CallersPlaced
  <2>2. CASE Evicted(c)
    BY <2>1, <2>2, UseAddsNone DEF Evicted, InCheckout, MapKeepsBound
  <2>3. CASE Retry(c)
    BY <2>1, <2>3, PassKeepsBound DEF Retry, InCheckout
  <2>4. CASE Launched(c)
    <3>1. caller[c].at \in Entry /\ caller[c].key \in Key
      BY <2>1, <2>4 DEF Launched, InCheckout
    <3>2. CASE UNCHANGED entries
      BY <3>2 DEF Mapped, MapKeepsBound
    <3>3. CASE CloseEntry(caller[c].at)
      BY <3>1, <3>3, CloseEntryUnmaps DEF MapKeepsBound
    <3>4. CASE Pass(c, caller[c].key, caller[c].attempt + 1)
      BY <3>1, <3>4, PassKeepsBound
    <3> QED
      BY <2>4, <3>2, <3>3, <3>4 DEF Launched
  <2>5. CASE Refused(c)
    BY <2>1, <2>5, UnmapTakesOne DEF Refused, InCheckout, MapKeepsBound
  <2>6. CASE Cleared(c)
    BY <2>6 DEF Cleared, Mapped, MapKeepsBound
  <2> QED
    BY <1>2, <2>2, <2>3, <2>4, <2>5, <2>6 DEF CallerGoesOn
<1>3. ASSUME NEW e \in Entry, Disconnected(e) \/ IdleFires(e)
      PROVE  MapKeepsBound
  BY <1>3, UnmapTakesOne, CloseEntryUnmaps DEF Disconnected, IdleFires, MapKeepsBound
<1>4. ASSUME Shutdown
      PROVE  MapKeepsBound
  BY <1>4, PoolConstants DEF Shutdown, Mapped, MapKeepsBound
<1>5. CASE UNCHANGED entries
  BY <1>5 DEF Mapped, MapKeepsBound
<1> QED
  BY <1>1, <1>2, <1>3, <1>4, <1>5
  DEF Next, AcquireDirect, CloseReturns, Release, GiveBack, LaunchOpens, LaunchRejects, Crash,
      poolVars, vars

\* An entry more where there is room, or one for another, leaves the bound kept.
LEMMA BoundKept ==
    ASSUME PoolInv, Bounded, MapKeepsBound
    PROVE  Bounded'
<1>1. IsFiniteSet(Mapped) /\ Cardinality(Mapped) \in Nat /\ Cardinality(Mapped) <= MaxBrowsers
      /\ MaxBrowsers \in Nat
  BY FS_CardinalityType, PoolConstants DEF Bounded
<1>2. ASSUME NEW S, IsFiniteSet(S), Cardinality(S) <= MaxBrowsers, Mapped' \subseteq S
      PROVE  Bounded'
  <2>1. IsFiniteSet(Mapped') /\ Cardinality(Mapped') <= Cardinality(S)
    BY <1>2, FS_Subset
  <2>2. Cardinality(Mapped') \in Nat /\ Cardinality(S) \in Nat
    BY <1>2, <2>1, FS_CardinalityType
  <2> QED
    BY <1>1, <1>2, <2>1, <2>2 DEF Bounded
<1>3. CASE Mapped' \subseteq Mapped
  BY <1>1, <1>2, <1>3
<1>4. ASSUME ~Full, NEW e, Mapped' \subseteq Mapped \cup {e}
      PROVE  Bounded'
  <2>1. Cardinality(Mapped) < MaxBrowsers
    BY <1>1, <1>4 DEF Full
  <2>2. IsFiniteSet(Mapped \cup {e}) /\ Cardinality(Mapped \cup {e}) <= Cardinality(Mapped) + 1
    BY <1>1, FS_AddElement
  <2>3. Cardinality(Mapped \cup {e}) \in Nat
    BY <2>2, FS_CardinalityType
  <2>4. Cardinality(Mapped \cup {e}) <= MaxBrowsers
    BY <1>1, <2>1, <2>2, <2>3
  <2> QED
    BY <1>2, <1>4, <2>2, <2>4
<1>5. ASSUME NEW e, NEW v \in Mapped, Mapped' \subseteq (Mapped \ {v}) \cup {e}
      PROVE  Bounded'
  <2>1. IsFiniteSet(Mapped \ {v}) /\ Cardinality(Mapped \ {v}) = Cardinality(Mapped) - 1
    BY <1>1, FS_RemoveElement
  <2>2. /\ IsFiniteSet((Mapped \ {v}) \cup {e})
        /\ Cardinality((Mapped \ {v}) \cup {e}) \in {Cardinality(Mapped \ {v}), Cardinality(Mapped \ {v}) + 1}
    BY <2>1, FS_AddElement
  <2>3. Cardinality((Mapped \ {v}) \cup {e}) <= MaxBrowsers
    BY <1>1, <2>1, <2>2
  <2> QED
    BY <1>2, <1>5, <2>2, <2>3
<1> QED
  BY <1>3, <1>4, <1>5 DEF MapKeepsBound

\* No more than QAAI_BROWSER_POOL_MAX browsers are kept running, however many callers and
\* launch configurations there are: a browser that runs has its entry, and an entry comes
\* only where there is room or in the place of another (reserveSlot, checkout).
THEOREM KeptAliveIsBounded == Spec => []KeptAliveBounded
<1>1. Init => Bounded
  <2>1. Init => Mapped = {}
    BY PoolConstants DEF Init, Mapped
  <2> QED
    BY <2>1, FS_EmptySet, PoolConstants DEF Bounded
<1>2. PoolInv /\ Bounded /\ [Next]_vars => Bounded'
  BY BoundStep, BoundKept
<1>3. PoolInv /\ Bounded => KeptAliveBounded
  <2> SUFFICES ASSUME PoolInv, Bounded PROVE KeptAliveBounded
    OBVIOUS
  <2> DEFINE running == {e \in Entry : Has(e)}
  <2>1. running \subseteq Mapped
    BY DEF PoolInv, NoStrayBrowser
  <2>2. IsFiniteSet(running) /\ Cardinality(running) <= Cardinality(Mapped)
    BY <2>1, FS_Subset DEF Bounded
  <2>3. Cardinality(running) \in Nat /\ Cardinality(Mapped) \in Nat
    BY <2>2, FS_CardinalityType DEF Bounded
  <2>4. Cardinality(running) <= MaxBrowsers
    BY <2>2, <2>3, PoolConstants DEF Bounded
  <2> QED
    BY <2>4 DEF KeptAliveBounded
<1> QED
  BY <1>1, <1>2, <1>3, PoolInvHolds, PTL DEF Spec

-------------------------------------------------------------------------------
(***************************************************************************)
(* The idle clock                                                          *)
(***************************************************************************)

Awaited(e) == \E c \in Caller : caller[c].phase = "waiting" /\ caller[c].at = e

InHand(e) == \E c \in Caller : caller[c].at = e /\ caller[c].phase \in {"launched", "clearing"}

\* What is being launched is awaited by a caller, who will take it up.
IdleInv ==
    /\ IdleBrowserExpires
    /\ \A e \in Entry : launch[e] # "none" => Awaited(e)

\* A caller that awaits no launch goes on, no browser opens, and an idle one does not
\* lose its clock, nor the caller that was about to see to it without being given one.
IdleMove(c, x) ==
    /\ caller' = [caller EXCEPT ![c] = x]
    /\ caller[c].phase # "waiting"
    /\ \A e \in Entry : launch'[e] # "none" =>
          launch[e] # "none" \/ (x.phase = "waiting" /\ x.at = e)
    /\ \A e \in Entry : browser'[e] = "open" /\ leases'[e] = 0 =>
          \/ x.phase = "clearing" /\ x.at = e
          \/ /\ browser[e] = "open" /\ leases[e] = 0
             /\ timer[e] => timer'[e]
             /\ caller[c].phase \in {"launched", "clearing"} /\ caller[c].at = e => timer'[e]

\* Such a move leaves every idle browser to its clock or in hand.
LEMMA IdleGoes ==
    ASSUME PoolInv, IdleInv, NEW c \in Caller, NEW x, IdleMove(c, x)
    PROVE  IdleInv'
<1>1. \A d \in Caller : caller'[d] = IF d = c THEN x ELSE caller[d]
  BY DEF PoolInv, PoolTypeOK, IdleMove
<1>2. ASSUME NEW e \in Entry, launch'[e] # "none" PROVE Awaited(e)'
  BY <1>1, <1>2 DEF IdleInv, Awaited, IdleMove
<1>3. ASSUME NEW e \in Entry, browser'[e] = "open", leases'[e] = 0
      PROVE  timer'[e] \/ InHand(e)'
  <2>1. CASE x.phase = "clearing" /\ x.at = e
    BY <1>1, <2>1 DEF InHand
  <2>2. CASE /\ browser[e] = "open" /\ leases[e] = 0
             /\ timer[e] => timer'[e]
             /\ caller[c].phase \in {"launched", "clearing"} /\ caller[c].at = e => timer'[e]
    <3>1. timer[e] \/ InHand(e)
      BY <2>2 DEF IdleInv, IdleBrowserExpires, InHand
    <3>2. ASSUME NEW d \in Caller, caller[d].at = e, caller[d].phase \in {"launched", "clearing"}
          PROVE  timer'[e] \/ InHand(e)'
      BY <1>1, <2>2, <3>2 DEF InHand
    <3> QED
      BY <2>2, <3>1, <3>2 DEF InHand
  <2> QED
    BY <1>3, <2>1, <2>2 DEF IdleMove
<1> QED
  BY <1>2, <1>3 DEF IdleInv, IdleBrowserExpires, InHand

\* No caller moves, no browser opens, and no idle one loses its clock.
LEMMA IdleKept ==
    ASSUME PoolInv, IdleInv, UNCHANGED <<caller, leases, launch>>,
           \A e \in Entry : browser'[e] = "open" /\ leases[e] = 0 =>
               browser[e] = "open" /\ (timer[e] => timer'[e])
    PROVE  IdleInv'
BY DEF IdleInv, IdleBrowserExpires, Awaited

\* closeEntry stops the clock of none but the entry it closes.
LEMMA CloseEntryIdle ==
    ASSUME PoolInv, NEW e \in Entry, CloseEntry(e), NEW f \in Entry,
           browser'[f] = "open", leases[f] = 0
    PROVE  f # e /\ browser[f] = "open" /\ timer'[f] = timer[f]
<1>1. /\ timer' = [timer EXCEPT ![e] = FALSE] /\ timer \in [Entry -> BOOLEAN]
      /\ browser \in [Entry -> {"none", "open", "dead"}]
  BY DEF CloseEntry, PoolInv, PoolTypeOK
<1>2. CASE leases[e] > 0
  <2>1. f # e /\ browser' = browser
    BY <1>2 DEF CloseEntry
  <2> QED
    BY <1>1, <2>1
<1>3. CASE ~(leases[e] > 0)
  <2>1. browser' = [browser EXCEPT ![e] = "none"]
    BY <1>3 DEF CloseEntry
  <2> QED
    BY <1>1, <2>1
<1> QED
  BY <1>2, <1>3

\* A caller in checkout leaves no idle browser without its clock.
LEMMA UseIdle ==
    ASSUME PoolInv, IdleInv, NEW c \in Caller, NEW k, NEW n, NEW e \in Entry, Use(c, k, n, e),
           caller[c].phase # "waiting",
           caller[c].phase \in {"launched", "clearing"} => browser[caller[c].at] # "open"
    PROVE  IdleInv'
<1>1. PoolTypeOK
  BY DEF PoolInv
<1>2. CASE /\ browser[e] = "open"
           /\ Lease(c, e)
           /\ timer' = [timer EXCEPT ![e] = FALSE]
           /\ UNCHANGED <<entries, browser, launch>>
  <2>1. /\ caller' = [caller EXCEPT ![c] = Holding("leased", e)]
        /\ leases' = [leases EXCEPT ![e] = leases[e] + 1]
    BY <1>2 DEF Lease
  <2>2. ASSUME NEW f \in Entry, leases'[f] = 0
        PROVE  f # e /\ leases[f] = 0 /\ timer'[f] = timer[f]
    <3>1. leases[e] \in Nat /\ leases'[e] = leases[e] + 1
      BY <1>1, <2>1 DEF PoolTypeOK
    <3>2. f # e
      BY <2>2, <3>1
    <3> QED
      BY <1>1, <1>2, <2>1, <2>2, <3>2 DEF PoolTypeOK
  <2>3. PICK x : x = Holding("leased", e)
    OBVIOUS
  <2>4. \A f \in Entry : caller[c].phase \in {"launched", "clearing"} /\ caller[c].at = f
                            => browser[f] # "open"
    OBVIOUS
  <2> QED
    <3>1. IdleMove(c, x)
      BY <1>2, <2>1, <2>2, <2>3, <2>4 DEF IdleMove
    <3> QED
      BY <3>1, IdleGoes
<1>3. CASE /\ CloseEntry(e)
           /\ caller' = [caller EXCEPT ![c] = Suspended("retrying", k, n + 1, e, Closes(e))]
           /\ UNCHANGED <<launch, leases>>
  <2>1. PICK x : caller' = [caller EXCEPT ![c] = x]
    BY <1>3
  <2>2. \A f \in Entry : browser'[f] = "open" /\ leases'[f] = 0 =>
           browser[f] = "open" /\ leases[f] = 0 /\ timer'[f] = timer[f]
    BY <1>3, CloseEntryIdle
  <2>3. \A f \in Entry : launch'[f] = launch[f]
    BY <1>3
  <2> QED
    <3>1. IdleMove(c, x)
      BY <2>1, <2>2, <2>3 DEF IdleMove
    <3> QED
      BY <3>1, IdleGoes
<1>4. CASE /\ ~Has(e)
           /\ launch' = [launch EXCEPT ![e] = IF @ = "none" THEN "starting" ELSE @]
           /\ timer' = [timer EXCEPT ![e] = FALSE]
           /\ caller' = [caller EXCEPT ![c] = Suspended("waiting", k, n, e, FALSE)]
           /\ UNCHANGED <<entries, browser, leases, older>>
  <2> DEFINE x == Suspended("waiting", k, n, e, FALSE)
  <2>1. caller' = [caller EXCEPT ![c] = x] /\ x.phase = "waiting" /\ x.at = e
    BY <1>4 DEF Suspended
  <2> HIDE DEF x
  <2>2. \A f \in Entry : /\ launch'[f] # "none" => launch[f] # "none" \/ f = e
                         /\ browser[f] = "open" => timer'[f] = timer[f]
    BY <1>1, <1>4 DEF PoolTypeOK, Has
  <2>3. UNCHANGED <<browser, leases>>
    BY <1>4
  <2> QED
    <3>1. IdleMove(c, x)
      BY <2>1, <2>2, <2>3 DEF IdleMove, Has
    <3> QED
      BY <3>1, IdleGoes
<1> QED
  BY <1>2, <1>3, <1>4 DEF Use

\* Nor does one pass of its loop.
LEMMA PassIdle ==
    ASSUME PoolInv, IdleInv, NEW c \in Caller, NEW k \in Key, NEW n, Pass(c, k, n),
           caller[c].phase # "waiting",
           caller[c].phase \in {"launched", "clearing"} => browser[caller[c].at] # "open"
    PROVE  IdleInv'
<1>1. PoolTypeOK
  BY DEF PoolInv
<1>2. CASE entries[k] # NoEntry /\ Use(c, k, n, entries[k])
  <2>1. entries[k] \in Entry
    BY <1>1, <1>2 DEF PoolTypeOK
  <2> QED
    BY <1>2, <2>1, UseIdle
<1>3. CASE Insert(c, k, n)
  <2> DEFINE e == CHOOSE f \in Free : TRUE
  <2>1. e \in Free
    BY <1>3 DEF Insert
  <2>2. /\ launch' = [launch EXCEPT ![e] = "starting"]
        /\ leases' = [leases EXCEPT ![e] = 0]
        /\ timer' = [timer EXCEPT ![e] = FALSE]
        /\ caller' = [caller EXCEPT ![c] = Suspended("waiting", k, n, e, FALSE)]
        /\ browser' = browser
    BY <1>3 DEF Insert
  <2> HIDE DEF e
  <2>3. e \in Entry /\ ~Has(e) /\ leases[e] = 0
    BY <2>1, FreeIsUnheld
  <2> DEFINE x == Suspended("waiting", k, n, e, FALSE)
  <2>4. caller' = [caller EXCEPT ![c] = x] /\ x.phase = "waiting" /\ x.at = e
    BY <2>2 DEF Suspended
  <2> HIDE DEF x
  <2>5. \A f \in Entry : /\ launch'[f] # "none" => launch[f] # "none" \/ f = e
                         /\ leases'[f] = leases[f]
                         /\ browser[f] = "open" => timer'[f] = timer[f]
    BY <1>1, <2>2, <2>3 DEF PoolTypeOK, Has
  <2>6. browser' = browser
    BY <2>2
  <2> QED
    <3>1. IdleMove(c, x)
      BY <2>4, <2>5, <2>6 DEF IdleMove
    <3> QED
      BY <3>1, IdleGoes
<1>4. CASE Evict(c, k, n)
  <2> DEFINE e == CHOOSE f \in Free : TRUE
  <2>1. e \in Free
    BY <1>4 DEF Evict
  <2>2. PICK v \in Victims :
          /\ leases' = [leases EXCEPT ![e] = 0]
          /\ timer' = [timer EXCEPT ![v] = FALSE, ![e] = FALSE]
          /\ browser' = [browser EXCEPT ![v] = "none"]
          /\ caller' = [caller EXCEPT ![c] = Suspended("evicting", k, n, e, Closes(v))]
    BY <1>4 DEF Evict
  <2> HIDE DEF e
  <2>3. e \in Entry /\ ~Has(e) /\ leases[e] = 0 /\ v \in Entry /\ launch' = launch
    BY <1>4, <2>1, FreeIsUnheld DEF Victims, Unheld, Mapped, Evict
  <2>4. \A f \in Entry : /\ leases'[f] = leases[f]
                         /\ browser'[f] = "open" => browser[f] = "open" /\ timer'[f] = timer[f]
    BY <1>1, <2>2, <2>3 DEF PoolTypeOK, Has
  <2>5. PICK x : caller' = [caller EXCEPT ![c] = x]
    BY <2>2
  <2>6. launch' = launch
    BY <2>3
  <2> QED
    <3>1. IdleMove(c, x)
      BY <2>4, <2>5, <2>6 DEF IdleMove
    <3> QED
      BY <3>1, IdleGoes
<1>5. CASE GoesTo(c, "direct") /\ UNCHANGED poolVars
  <2>1. IdleMove(c, Nowhere("direct"))
    BY <1>5 DEF IdleMove, GoesTo, poolVars
  <2> QED
    BY <2>1, IdleGoes
<1> QED
  BY <1>2, <1>3, <1>4, <1>5 DEF Pass

\* Nor does one that takes up the browser it awaited.
LEMMA LaunchedIdle ==
    ASSUME PoolInv, IdleInv, NEW c \in Caller, Launched(c)
    PROVE  IdleInv'
<1> DEFINE e == caller[c].at
           k == caller[c].key
           n == caller[c].attempt
<1>1. /\ e \in Entry /\ k \in Key /\ PoolTypeOK
      /\ caller[c].phase = "launched"
  BY DEF Launched, PoolInv, CallersPlaced, InCheckout
<1>2. CASE /\ browser[e] = "open"
           /\ Lease(c, e)
           /\ UNCHANGED <<entries, browser, launch, timer>>
  <2>1. /\ caller' = [caller EXCEPT ![c] = Holding("leased", e)]
        /\ leases' = [leases EXCEPT ![e] = leases[e] + 1]
    BY <1>2 DEF Lease
  <2>2. ASSUME NEW f \in Entry, leases'[f] = 0
        PROVE  f # e /\ leases[f] = 0
    <3>1. leases[e] \in Nat /\ leases'[e] = leases[e] + 1
      BY <1>1, <2>1 DEF PoolTypeOK
    <3>2. f # e
      BY <2>2, <3>1
    <3> QED
      BY <1>1, <2>1, <2>2, <3>2 DEF PoolTypeOK
  <2>3. IdleMove(c, Holding("leased", e))
    BY <1>1, <1>2, <2>1, <2>2 DEF IdleMove
  <2> QED
    BY <2>3, IdleGoes
<1>3. CASE /\ browser[e] # "open"
           /\ CloseEntry(e)
           /\ caller' = [caller EXCEPT ![c] = Suspended("retrying", k, n + 1, e, Closes(e))]
           /\ UNCHANGED <<launch, leases>>
  <2>1. PICK x : caller' = [caller EXCEPT ![c] = x]
    BY <1>3
  <2>2. \A f \in Entry : browser'[f] = "open" /\ leases'[f] = 0 =>
           browser[f] = "open" /\ leases[f] = 0 /\ timer'[f] = timer[f]
    BY <1>1, <1>3, CloseEntryIdle
  <2>3. \A f \in Entry : launch'[f] = launch[f]
    BY <1>3
  <2>4. IdleMove(c, x)
    BY <1>1, <1>3, <2>1, <2>2, <2>3 DEF IdleMove
  <2> QED
    BY <2>4, IdleGoes
<1>4. CASE browser[e] # "open" /\ Pass(c, k, n + 1)
  BY <1>1, <1>4, PassIdle
<1> QED
  BY <1>2, <1>3, <1>4 DEF Launched

\* The steps in which a caller goes on.
LEMMA CallerIdle ==
    ASSUME PoolInv, IdleInv, NEW c \in Caller, CallerGoesOn(c)
    PROVE  IdleInv'
<1>1. caller[c].phase \in InCheckout => caller[c].at \in Entry /\ caller[c].key \in Key
  BY DEF PoolInv, CallersPlaced
<1>2. CASE Evicted(c)
  BY <1>1, <1>2, UseIdle DEF Evicted, InCheckout
<1>3. CASE Retry(c)
  BY <1>1, <1>3, PassIdle DEF Retry, InCheckout
<1>4. CASE Launched(c)
  BY <1>4, LaunchedIdle
<1>5. CASE Refused(c)
  <2>1. IdleMove(c, Nowhere("direct"))
    BY <1>5 DEF IdleMove, Refused, GoesTo
  <2> QED
    BY <2>1, IdleGoes
<1>6. CASE Cleared(c)
  <2>1. caller[c].phase = "clearing" /\ caller[c].at \in Entry
    BY <1>6 DEF Cleared, PoolInv, CallersPlaced
  <2>2. \A f \in Entry : (timer[f] \/ (f = caller[c].at /\ browser[f] = "open")) => timer'[f]
    BY <1>6, <2>1 DEF Cleared, Arm, PoolInv, NoStrayBrowser, Has, PoolTypeOK
  <2>3. IdleMove(c, Nowhere("idle"))
    BY <1>6, <2>1, <2>2 DEF IdleMove, Cleared, GoesTo
  <2> QED
    BY <2>3, IdleGoes
<1> QED
  BY <1>2, <1>3, <1>4, <1>5, <1>6 DEF CallerGoesOn

\* A release leaves the browser in hand until the contexts are closed.
LEMMA ReleaseIdle ==
    ASSUME PoolInv, IdleInv, NEW c \in Caller, Release(c)
    PROVE  IdleInv'
<1> DEFINE e == caller[c].at
<1>1. /\ e \in Entry /\ PoolTypeOK /\ caller[c].phase = "leased" /\ c \in Holders(e)
      /\ leases' = [leases EXCEPT ![e] = @ - 1]
      /\ UNCHANGED <<browser, launch>>
  BY DEF Release, PoolInv, CallersPlaced, Holders
<1>2. leases[e] \in Nat /\ leases'[e] = leases[e] - 1 /\ \A f \in Entry : f # e => leases'[f] = leases[f]
  BY <1>1 DEF PoolTypeOK
<1>3. \A f \in Entry : timer[f] => timer'[f]
  BY <1>1 DEF Release, Arm, PoolTypeOK
<1>4. CASE leases[e] <= 1 /\ browser[e] = "open" /\ caller' = [caller EXCEPT ![c] = Holding("clearing", e)]
  <2>1. Holding("clearing", e).phase = "clearing" /\ Holding("clearing", e).at = e
    BY DEF Holding, Suspended
  <2>2. IdleMove(c, Holding("clearing", e))
    BY <1>1, <1>2, <1>3, <1>4, <2>1 DEF IdleMove
  <2> QED
    BY <2>2, IdleGoes
<1>5. CASE (leases[e] > 1 \/ browser[e] # "open") /\ GoesTo(c, "idle")
  <2>1. browser'[e] = "open" => leases'[e] # 0
    BY <1>1, <1>2, <1>5
  <2>2. IdleMove(c, Nowhere("idle"))
    BY <1>1, <1>2, <1>3, <1>5, <2>1 DEF IdleMove, GoesTo
  <2> QED
    BY <2>2, IdleGoes
<1> QED
  BY <1>4, <1>5 DEF Release

\* What Playwright does: the caller that awaited a launch takes the browser in hand.
LEMMA LaunchIdle ==
    ASSUME PoolInv, IdleInv, NEW e \in Entry, LaunchOpens(e) \/ LaunchRejects(e)
    PROVE  IdleInv'
<1>1. PoolTypeOK /\ caller \in [Caller -> CallerType] /\ UNCHANGED <<leases, timer>> /\ Awaited(e)
  BY DEF LaunchOpens, LaunchRejects, PoolInv, PoolTypeOK, CallerType, IdleInv
<1>2. CASE UNCHANGED <<browser, caller>> /\ launch' = [launch EXCEPT ![e] = "discarding"]
  <2>1. \A f \in Entry : launch'[f] # "none" => launch[f] # "none" \/ f = e
    BY <1>1, <1>2 DEF PoolTypeOK
  <2> QED
    BY <1>1, <1>2, <2>1 DEF IdleInv, IdleBrowserExpires, Awaited
<1>3. ASSUME NEW p \in {"launched", "refused"}, Wakes(e, p), launch' = [launch EXCEPT ![e] = "none"],
             \/ browser' = browser
             \/ p = "launched" /\ browser' = [browser EXCEPT ![e] = "open"]
      PROVE  IdleInv'
  <2>1. \A d \in Caller : /\ caller'[d].at = caller[d].at
                          /\ caller'[d].phase = IF caller[d].phase = "waiting" /\ caller[d].at = e
                                                THEN p ELSE caller[d].phase
    BY <1>1, <1>3 DEF Wakes, CallerType
  <2>2. ASSUME NEW f \in Entry, launch'[f] # "none" PROVE Awaited(f)'
    <3>1. f # e /\ launch[f] # "none"
      BY <1>1, <1>3, <2>2 DEF PoolTypeOK
    <3> QED
      BY <2>1, <3>1 DEF IdleInv, Awaited
  <2>3. ASSUME NEW f \in Entry, browser'[f] = "open", leases'[f] = 0
        PROVE  timer'[f] \/ InHand(f)'
    <3>1. CASE browser[f] = "open"
      <4>1. timer[f] \/ InHand(f)
        BY <1>1, <2>3, <3>1 DEF IdleInv, IdleBrowserExpires, InHand
      <4>2. InHand(f) => InHand(f)'
        BY <2>1 DEF InHand
      <4> QED
        BY <1>1, <4>1, <4>2
    <3>2. CASE browser[f] # "open"
      <4>1. f = e /\ p = "launched"
        BY <1>1, <1>3, <2>3, <3>2 DEF PoolTypeOK
      <4> QED
        BY <1>1, <2>1, <4>1 DEF Awaited, InHand
    <3> QED
      BY <3>1, <3>2
  <2> QED
    BY <2>2, <2>3 DEF IdleInv, IdleBrowserExpires, InHand
<1> QED
  BY <1>2, <1>3 DEF LaunchOpens, LaunchRejects

\* Every step does so.
LEMMA IdleStep ==
    ASSUME PoolInv, IdleInv, [Next]_vars
    PROVE  IdleInv'
<1>1. PoolTypeOK
  BY DEF PoolInv
<1>2. ASSUME NEW c \in Caller, NEW k \in Key, Acquire(c, k)
      PROVE  IdleInv'
  BY <1>2, PassIdle DEF Acquire
<1>3. ASSUME NEW c \in Caller, AcquireDirect(c) \/ GiveBack(c)
      PROVE  IdleInv'
  <2>1. PICK x : caller' = [caller EXCEPT ![c] = x]
    BY <1>3 DEF AcquireDirect, GiveBack, GoesTo
  <2>2. IdleMove(c, x)
    BY <1>3, <2>1 DEF AcquireDirect, GiveBack, IdleMove, poolVars
  <2> QED
    BY <2>2, IdleGoes
<1>4. ASSUME NEW c \in Caller, CloseReturns(c)
      PROVE  IdleInv'
  <2>1. \A d \in Caller : caller'[d].phase = caller[d].phase /\ caller'[d].at = caller[d].at
    BY <1>1, <1>4 DEF CloseReturns, PoolTypeOK
  <2> QED
    BY <1>4, <2>1 DEF CloseReturns, poolVars, IdleInv, IdleBrowserExpires, Awaited
<1>5. ASSUME NEW e \in Entry, Crash(e) \/ Disconnected(e)
      PROVE  IdleInv'
  <2>1. /\ UNCHANGED <<caller, leases, launch>>
        /\ \A f \in Entry : browser'[f] = "open" => browser[f] = "open" /\ (timer[f] => timer'[f])
    BY <1>1, <1>5 DEF Crash, Disconnected, PoolTypeOK
  <2> QED
    BY <2>1, IdleKept
<1>6. ASSUME NEW e \in Entry, IdleFires(e)
      PROVE  IdleInv'
  <2>1. /\ UNCHANGED <<caller, leases, launch>>
        /\ \A f \in Entry : browser'[f] = "open" /\ leases[f] = 0 =>
              browser[f] = "open" /\ (timer[f] => timer'[f])
    BY <1>6, CloseEntryIdle DEF IdleFires
  <2> QED
    BY <2>1, IdleKept
<1>7. ASSUME Shutdown
      PROVE  IdleInv'
  <2>1. /\ UNCHANGED <<caller, leases, launch>>
        /\ \A f \in Entry : browser'[f] = "open" => browser[f] = "open" /\ (timer[f] => timer'[f])
    BY <1>1, <1>7 DEF Shutdown, PoolTypeOK
  <2> QED
    BY <2>1, IdleKept
<1>8. CASE UNCHANGED vars
  BY <1>8, IdleKept DEF vars, poolVars
<1> QED
  BY <1>2, <1>3, <1>4, <1>5, <1>6, <1>7, <1>8, CallerIdle, ReleaseIdle, LaunchIdle DEF Next

\* A running browser nobody holds is on its way out or back into use, however releases,
\* launches, evictions and crashes fall between the awaits of one another: its clock
\* runs, or a caller has it in hand (releaseEntry, closeEntry, launchInto).
THEOREM IdleExpires == Spec => []IdleBrowserExpires
<1>1. Init => IdleInv
  BY DEF Init, IdleInv, IdleBrowserExpires
<1>2. PoolInv /\ IdleInv /\ [Next]_vars => IdleInv'
  BY IdleStep
<1>3. IdleInv => IdleBrowserExpires
  BY DEF IdleInv
<1> QED
  BY <1>1, <1>2, <1>3, PoolInvHolds, PTL DEF Spec

===============================================================================

-------------------------- MODULE AuthRefresh_proofs --------------------------
(***************************************************************************)
(* What holds of AuthRefresh for any number of profiles and of overlapping *)
(* sweeps, any cap and any size of a batch.                                *)
(*                                                                         *)
(* The cap rests on an account: a sweep that still holds a candidate it    *)
(* read below the cap may make one more attempt on that profile.  The      *)
(* failures so far and the sweeps that may still add one never come to     *)
(* more than the bound, because a sweep can only begin to hold a profile   *)
(* while its failures are below the cap, and an attempt that is recorded   *)
(* takes its sweep out of the account.                                     *)
(***************************************************************************)
EXTENDS AuthRefresh, FiniteSetTheorems, SequenceTheorems, TLAPS

Bound == MaxFailures + Cardinality(Tick) - 1

\* A sweep's memory: not empty while it works, every profile in it once, and the
\* candidate whose attempt is being recorded was below the cap.
GoodSweep(w) ==
    /\ w \in Sweep
    /\ Len(w.batch) <= Take
    /\ w.phase # "idle" => w.batch # <<>>
    /\ w.phase = "write" => ~Capped(Head(w.batch))
    /\ \A i, j \in 1 .. Len(w.batch) : w.batch[i].profile = w.batch[j].profile => i = j

SweepsGood ==
    /\ tick \in [Tick -> Sweep]
    /\ \A t \in Tick : GoodSweep(tick[t])

\* The sweep may still record an attempt on the profile.
Holds(w, p) == \E i \in 1 .. Len(w.batch) : w.batch[i].profile = p /\ ~Capped(w.batch[i])
Holding(p) == {t \in Tick : Holds(tick[t], p)}

\* What is recorded of a profile is what has happened to it, and there is room
\* under the bound for every sweep that may still try it.
Accounts ==
    \A p \in Profile :
        /\ tries[p] = row[p].failures
        /\ row[p].failures + Cardinality(Holding(p)) <= Bound

RowsTyped == row \in [Profile -> Row]
RestTyped ==
    /\ place \in Placing
    /\ brake \in Brakes
    /\ down \subseteq Profile
    /\ run \in Signing
    /\ tries \in [Profile -> Nat]

CapInv == RowsTyped /\ RestTyped /\ SweepsGood /\ Accounts

-------------------------------------------------------------------------------
(***************************************************************************)
(* The operators of the model                                              *)
(***************************************************************************)

\* The bound is a number, at least as large as the cap.
LEMMA BoundIsNat == Bound \in Nat /\ Bound >= MaxFailures /\ Cardinality(Tick) \in Nat
<1>1. Cardinality(Tick) \in Nat /\ Cardinality(Tick) # 0
  BY AuthRefreshAssumption, FS_CardinalityType, FS_EmptySet
<1> QED  BY <1>1, AuthRefreshAssumption DEF Bound

\* A sign-in writes a row and leaves the count of its failures alone.
LEMMA SignInWrites ==
    ASSUME NEW r \in Row
    PROVE  /\ Sealed(r) \in Row /\ Sealed(r).failures = r.failures
           /\ Plain(r) \in Row /\ Plain(r).failures = r.failures
BY DEF Row, Left, Sealed, Plain

\* A success starts the count anew, a failure adds one to it.
LEMMA SweepWrites ==
    ASSUME NEW r \in Row, NEW mode, NEW read
    PROVE  /\ Success(r, mode) \in Row /\ Success(r, mode).failures = 0
           /\ Failure(r, read).failures = r.failures + 1
           /\ r.failures + 1 <= Bound => Failure(r, read) \in Row
<1>1. 0 \in Failures  BY BoundIsNat DEF Failures, Bound
<1>2. r.failures + 1 <= Bound => r.failures + 1 \in Failures
  BY BoundIsNat DEF Row, Failures, Bound
<1>3. Success(r, mode) \in Row /\ Success(r, mode).failures = 0
  <2>1. CASE mode = "ENFORCE"  BY <1>1, <2>1 DEF Row, Left, Success, Sealed
  <2>2. CASE mode # "ENFORCE"  BY <1>1, <2>2 DEF Row, Left, Success, Plain
  <2> QED  BY <2>1, <2>2
<1> QED  BY <1>2, <1>3 DEF Row, Failure

\* A tick that has begun, for what it found.
Begun(batch) == [IdleTick EXCEPT !.phase = "next", !.batch = batch]
BeginsWith(found) == Begun([i \in DOMAIN found |-> Read(found[i])])

\* What is read of a row is a candidate.
LEMMA ReadIsCandidate ==
    ASSUME RowsTyped, NEW p \in Profile
    PROVE  /\ Read(p) \in Candidate
           /\ Read(p).profile = p
           /\ Capped(Read(p)) <=> Capped(row[p])
<1>1. row[p] \in Row  BY DEF RowsTyped
<1>2. RefreshDue(row[p], "OBSERVE") \in BOOLEAN  BY DEF RefreshDue
<1>3. row[p].failures \in Failures  BY <1>1 DEF Row
<1> QED  BY <1>2, <1>3 DEF Read, Candidate, Capped

\* A worklist holds at most Take profiles, and each of them once.
LEMMA WorklistOnce ==
    ASSUME NEW found \in Worklist, RestTyped
    PROVE  /\ found \in Seq(Profile)
           /\ Len(found) <= Take
           /\ \A i, j \in 1 .. Len(found) : found[i] = found[j] => i = j
<1> DEFINE Found == {p \in Profile : OnWorklist(row[p])}
           size == IF Cardinality(Found) > Take THEN Take ELSE Cardinality(Found)
<1>1. IsFiniteSet(Found)
  BY FS_Subset, AuthRefreshAssumption
<1>2. size \in Nat /\ size <= Take
  BY <1>1, FS_CardinalityType, AuthRefreshAssumption
<1> HIDE DEF size
<1>3. /\ found \in [1 .. size -> Found]
      /\ \A i \in 1 .. size, p \in Found :
            (place[p] < place[found[i]]) <=> (\E j \in 1 .. i - 1 : found[j] = p)
  BY DEF Worklist, size
<1>4. found \in Seq(Profile) /\ Len(found) = size
  BY <1>2, <1>3
<1>5. \A i, j \in 1 .. size : i < j => found[i] # found[j]
  <2> SUFFICES ASSUME NEW i \in 1 .. size, NEW j \in 1 .. size, i < j PROVE found[i] # found[j]
    OBVIOUS
  <2>1. found[i] \in Found /\ found[j] \in Found
    BY <1>3
  <2>2. i \in 1 .. j - 1
    BY <1>2
  <2>3. place[found[i]] < place[found[j]]
    BY <1>3, <2>1, <2>2
  <2>4. place[found[j]] \in Int
    BY <2>1 DEF RestTyped, Placing
  <2> QED  BY <2>3, <2>4
<1>6. \A i, j \in 1 .. size : found[i] = found[j] => i = j
  <2> SUFFICES ASSUME NEW i \in 1 .. size, NEW j \in 1 .. size, found[i] = found[j], i # j
               PROVE FALSE
    OBVIOUS
  <2>1. i < j \/ j < i  BY <1>2
  <2> QED  BY <1>5, <2>1
<1> QED  BY <1>2, <1>4, <1>6

\* A tick that begins remembers well, and may try only what is below the cap now.
LEMMA BeginsGood ==
    ASSUME RowsTyped, RestTyped, NEW found \in Worklist, found # <<>>
    PROVE  /\ GoodSweep(BeginsWith(found))
           /\ \A p \in Profile : Holds(BeginsWith(found), p) => ~Capped(row[p])
<1> DEFINE batch == [i \in DOMAIN found |-> Read(found[i])]
<1>1. /\ found \in Seq(Profile) /\ Len(found) <= Take
      /\ \A i, j \in 1 .. Len(found) : found[i] = found[j] => i = j
  BY WorklistOnce
<1>2. DOMAIN found = 1 .. Len(found) /\ Len(found) \in Nat
  BY <1>1
<1>3. \A i \in 1 .. Len(found) : found[i] \in Profile
  BY <1>1
<1>4. \A i \in 1 .. Len(found) : batch[i] = Read(found[i]) /\ batch[i] \in Candidate
  BY <1>2, <1>3, ReadIsCandidate
<1>5. batch \in Seq(Candidate) /\ Len(batch) = Len(found)
  BY <1>2, <1>4
<1>6. Len(found) # 0
  BY <1>1, EmptySeq
<1>7. batch # <<>>
  BY <1>5, <1>6
<1> HIDE DEF batch
<1>8. BeginsWith(found) = [phase |-> "next", batch |-> batch, mode |-> "unread", ok |-> FALSE]
  <2>1. BeginsWith(found) = Begun(batch)
    BY DEF BeginsWith, batch
  <2> QED  BY <2>1 DEF Begun, IdleTick
<1>9. BeginsWith(found) \in Sweep
  BY <1>5, <1>8 DEF Sweep
<1>10. \A i, j \in 1 .. Len(batch) : batch[i].profile = batch[j].profile => i = j
  BY <1>1, <1>3, <1>4, <1>5, ReadIsCandidate
<1>11. \A p \in Profile, i \in 1 .. Len(batch) :
          batch[i].profile = p /\ ~Capped(batch[i]) => ~Capped(row[p])
  BY <1>3, <1>4, <1>5, ReadIsCandidate
<1>12. GoodSweep(BeginsWith(found))
  BY <1>1, <1>5, <1>7, <1>8, <1>9, <1>10 DEF GoodSweep
<1>13. \A p \in Profile : Holds(BeginsWith(found), p) => ~Capped(row[p])
  BY <1>8, <1>11 DEF Holds
<1> QED  BY <1>12, <1>13

\* A tick that has dealt with its first candidate.
GoesOn(w, mode) ==
    IF Len(w.batch) = 1 THEN IdleTick
    ELSE [phase |-> "next", batch |-> Tail(w.batch), mode |-> mode, ok |-> FALSE]

\* A tick that is over remembers nothing.
LEMMA IdleIsGood ==
    /\ GoodSweep(IdleTick)
    /\ \A p \in Profile : ~Holds(IdleTick, p)
<1>1. <<>> \in Seq(Candidate) /\ Len(<<>>) = 0
  BY EmptySeq
<1>2. IdleTick \in Sweep
  BY <1>1 DEF IdleTick, Sweep
<1> QED  BY <1>1, <1>2, AuthRefreshAssumption DEF GoodSweep, Holds, IdleTick

\* It remembers well what is left, and no longer holds the profile it dealt with.
LEMMA GoesOnGood ==
    ASSUME NEW w, GoodSweep(w), w.batch # <<>>, NEW mode \in Brakes \cup {"unread"}
    PROVE  /\ GoodSweep(GoesOn(w, mode))
           /\ \A p \in Profile : Holds(GoesOn(w, mode), p) => Holds(w, p)
           /\ ~Holds(GoesOn(w, mode), Head(w.batch).profile)
           /\ Head(w.batch) = w.batch[1] /\ Head(w.batch) \in Candidate
           /\ 1 \in 1 .. Len(w.batch)
<1>1. w.batch \in Seq(Candidate)
  BY DEF GoodSweep, Sweep
<1>2. /\ Len(w.batch) \in Nat /\ Len(w.batch) # 0
  BY <1>1, EmptySeq
<1>3. /\ Head(w.batch) = w.batch[1] /\ Head(w.batch) \in Candidate
      /\ 1 \in 1 .. Len(w.batch)
  BY <1>1, <1>2
<1>4. Head(w.batch).profile \in Profile
  BY <1>3 DEF Candidate
<1>5. CASE Len(w.batch) = 1
  BY <1>3, <1>4, <1>5, IdleIsGood DEF GoesOn
<1>6. CASE Len(w.batch) # 1
  <2> DEFINE rest == Tail(w.batch)
  <2>1. /\ rest \in Seq(Candidate) /\ Len(rest) = Len(w.batch) - 1
        /\ \A i \in 1 .. Len(rest) : rest[i] = w.batch[i + 1]
    BY <1>1, <1>2, HeadTailProperties
  <2> HIDE DEF rest
  <2>2. rest # <<>>
    <3>1. Len(rest) # 0
      BY <1>2, <1>6, <2>1
    <3> QED  BY <2>1, <3>1, EmptySeq
  <2>3. GoesOn(w, mode) = [phase |-> "next", batch |-> rest, mode |-> mode, ok |-> FALSE]
    BY <1>6 DEF GoesOn, rest
  <2>4. GoesOn(w, mode) \in Sweep
    BY <2>1, <2>3 DEF Sweep
  <2>5. \A i \in 1 .. Len(rest) : i + 1 \in 1 .. Len(w.batch) /\ i + 1 # 1
    BY <1>2, <2>1
  <2>6. \A i, j \in 1 .. Len(rest) : rest[i].profile = rest[j].profile => i = j
    <3> SUFFICES ASSUME NEW i \in 1 .. Len(rest), NEW j \in 1 .. Len(rest),
                        rest[i].profile = rest[j].profile
                 PROVE i = j
      OBVIOUS
    <3>1. i + 1 = j + 1
      BY <2>1, <2>5 DEF GoodSweep
    <3> QED  BY <3>1
  <2>7. \A i \in 1 .. Len(rest) : rest[i].profile # Head(w.batch).profile
    BY <1>3, <2>1, <2>5 DEF GoodSweep
  <2>8. Len(rest) <= Take
    BY <1>2, <2>1, AuthRefreshAssumption DEF GoodSweep
  <2>9. GoodSweep(GoesOn(w, mode))
    BY <2>2, <2>3, <2>4, <2>6, <2>8 DEF GoodSweep
  <2>10. \A p \in Profile : Holds(GoesOn(w, mode), p) => Holds(w, p)
    BY <2>1, <2>3, <2>5 DEF Holds
  <2>11. ~Holds(GoesOn(w, mode), Head(w.batch).profile)
    BY <2>3, <2>7 DEF Holds
  <2> QED  BY <1>3, <2>9, <2>10, <2>11
<1> QED  BY <1>5, <1>6

-------------------------------------------------------------------------------
(***************************************************************************)
(* The steps of a sweep                                                    *)
(***************************************************************************)

\* A step of one tick leaves the sweeps good if what the tick then remembers is.
LEMMA TickMoves ==
    ASSUME SweepsGood, NEW t \in Tick, NEW w, GoodSweep(w), tick' = [tick EXCEPT ![t] = w]
    PROVE  /\ SweepsGood'
           /\ \A p \in Profile, u \in Tick :
                  Holds(tick'[u], p) => (u = t /\ Holds(w, p)) \/ Holds(tick[u], p)
           /\ \A p \in Profile : Holds(tick'[t], p) => Holds(w, p)
<1>1. w \in Sweep
  BY DEF GoodSweep
<1>2. tick' \in [Tick -> Sweep] /\ tick'[t] = w /\ \A u \in Tick : u # t => tick'[u] = tick[u]
  BY <1>1 DEF SweepsGood
<1>3. \A u \in Tick : GoodSweep(tick'[u])
  BY <1>2 DEF SweepsGood
<1>4. SweepsGood'
  BY <1>2, <1>3 DEF SweepsGood, GoodSweep
<1> QED  BY <1>2, <1>4

\* The sweeps that hold a profile are some of all of them.
LEMMA HoldingFinite ==
    ASSUME NEW p \in Profile
    PROVE  /\ IsFiniteSet(Holding(p)) /\ Cardinality(Holding(p)) \in Nat
           /\ IsFiniteSet(Holding(p)') /\ Cardinality(Holding(p)') \in Nat
           /\ Cardinality(Holding(p)') <= Cardinality(Tick)
           /\ Holding(p)' \subseteq Holding(p)
                => Cardinality(Holding(p)') <= Cardinality(Holding(p))
           /\ \A t \in Holding(p) : Holding(p)' \subseteq Holding(p) \ {t}
                => Cardinality(Holding(p)') + 1 <= Cardinality(Holding(p))
<1>1. Holding(p) \subseteq Tick /\ Holding(p)' \subseteq Tick
  BY DEF Holding
<1>2. /\ IsFiniteSet(Holding(p)) /\ IsFiniteSet(Holding(p)')
      /\ Cardinality(Holding(p)') <= Cardinality(Tick)
  BY <1>1, FS_Subset, AuthRefreshAssumption
<1>3. Cardinality(Holding(p)) \in Nat /\ Cardinality(Holding(p)') \in Nat
  BY <1>2, FS_CardinalityType
<1>4. Holding(p)' \subseteq Holding(p) => Cardinality(Holding(p)') <= Cardinality(Holding(p))
  BY <1>2, FS_Subset
<1>5. ASSUME NEW t \in Holding(p), Holding(p)' \subseteq Holding(p) \ {t}
      PROVE  Cardinality(Holding(p)') + 1 <= Cardinality(Holding(p))
  <2>1. /\ IsFiniteSet(Holding(p) \ {t})
        /\ Cardinality(Holding(p) \ {t}) = Cardinality(Holding(p)) - 1
    BY <1>2, FS_RemoveElement
  <2>2. Cardinality(Holding(p)') <= Cardinality(Holding(p) \ {t})
    BY <1>5, <2>1, FS_Subset
  <2> QED  BY <1>3, <2>1, <2>2
<1> QED  BY <1>2, <1>3, <1>4, <1>5

\* The rows and what was counted stay, and every sweep holds at most what it held.
LEMMA AccountsKept ==
    ASSUME CapInv, \A p \in Profile : row'[p].failures = row[p].failures, tries' = tries,
           \A p \in Profile, u \in Tick : Holds(tick'[u], p) => Holds(tick[u], p)
    PROVE  Accounts'
<1> SUFFICES ASSUME NEW p \in Profile
             PROVE  /\ tries'[p] = row'[p].failures
                    /\ row'[p].failures + Cardinality(Holding(p)') <= Bound
  BY DEF Accounts, Bound
<1>1. Holding(p)' \subseteq Holding(p)
  BY DEF Holding
<1>2. row[p].failures \in Nat
  BY DEF CapInv, RowsTyped, Row, Failures
<1> QED  BY <1>1, <1>2, HoldingFinite, BoundIsNat DEF CapInv, Accounts

\* The tick that begins.
LEMMA BeginsKeeps ==
    ASSUME CapInv, NEW t \in Tick, TickBegins(t)
    PROVE  CapInv'
<1>1. PICK found \in Worklist : found # <<>> /\ tick' = [tick EXCEPT ![t] = BeginsWith(found)]
  BY DEF TickBegins, BeginsWith, Begun
<1>2. UNCHANGED <<row, place, brake, down, run, tries>>
  BY DEF TickBegins
<1>3. /\ GoodSweep(BeginsWith(found))
      /\ \A p \in Profile : Holds(BeginsWith(found), p) => ~Capped(row[p])
  BY <1>1, BeginsGood DEF CapInv
<1> DEFINE w == BeginsWith(found)
<1> HIDE DEF w
<1>4. GoodSweep(w) /\ tick' = [tick EXCEPT ![t] = w]
  BY <1>1, <1>3 DEF w
<1>5. /\ SweepsGood'
      /\ \A p \in Profile, u \in Tick :
            Holds(tick'[u], p) => (u = t /\ Holds(w, p)) \/ Holds(tick[u], p)
  BY <1>4, TickMoves DEF CapInv
<1>6. Accounts'
  <2> SUFFICES ASSUME NEW p \in Profile
               PROVE  /\ tries'[p] = row'[p].failures
                      /\ row'[p].failures + Cardinality(Holding(p)') <= Bound
    BY DEF Accounts, Bound
  <2>1. row[p].failures \in Nat
    BY DEF CapInv, RowsTyped, Row, Failures
  <2>2. CASE Capped(row[p])
    <3>1. ~Holds(w, p)
      BY <1>3, <2>2 DEF w
    <3>2. Holding(p)' \subseteq Holding(p)
      BY <1>5, <3>1 DEF Holding
    <3> QED  BY <1>2, <2>1, <3>2, HoldingFinite, BoundIsNat DEF CapInv, Accounts
  <2>3. CASE ~Capped(row[p])
    <3>1. row[p].failures <= MaxFailures - 1
      BY <2>1, <2>3, AuthRefreshAssumption DEF Capped
    <3> QED  BY <1>2, <2>1, <3>1, HoldingFinite, BoundIsNat, AuthRefreshAssumption
             DEF CapInv, Accounts, Bound
  <2> QED  BY <2>2, <2>3
<1> QED  BY <1>2, <1>5, <1>6 DEF CapInv, RowsTyped, RestTyped

\* A step of a tick that writes nothing, after which it holds no more than before.
LEMMA TickOnly ==
    ASSUME CapInv, NEW t \in Tick, NEW w, GoodSweep(w), tick' = [tick EXCEPT ![t] = w],
           \A p \in Profile : Holds(w, p) => Holds(tick[t], p),
           UNCHANGED <<row, place, brake, down, run, tries>>
    PROVE  CapInv'
<1>1. /\ SweepsGood'
      /\ \A p \in Profile, u \in Tick :
            Holds(tick'[u], p) => (u = t /\ Holds(w, p)) \/ Holds(tick[u], p)
  BY TickMoves DEF CapInv
<1>2. \A p \in Profile, u \in Tick : Holds(tick'[u], p) => Holds(tick[u], p)
  BY <1>1
<1>3. Accounts'
  BY <1>2, AccountsKept
<1> QED  BY <1>1, <1>3 DEF CapInv, RowsTyped, RestTyped

\* What is remembered after the first candidate has been dealt with.
LEMMA PassedOverIs ==
    ASSUME CapInv, NEW t \in Tick, tick[t].phase # "idle"
    PROVE  /\ PassedOver(t) = [tick EXCEPT ![t] = GoesOn(tick[t], ModeOf(t))]
           /\ GoodSweep(tick[t]) /\ tick[t].batch # <<>>
           /\ ModeOf(t) \in Brakes \cup {"unread"}
<1>1. GoodSweep(tick[t]) /\ tick[t].batch # <<>>
  BY DEF CapInv, SweepsGood, GoodSweep
<1>2. ModeOf(t) \in Brakes \cup {"unread"}
  BY <1>1 DEF ModeOf, CapInv, RestTyped, GoodSweep, Sweep
<1> QED  BY <1>1, <1>2 DEF PassedOver, GoesOn

\* Passing over a candidate without a word, for whatever reason.
LEMMA PassesKeeps ==
    ASSUME CapInv, NEW t \in Tick, tick[t].phase # "idle",
           tick' = PassedOver(t) \/ tick' = [tick EXCEPT ![t] = IdleTick],
           UNCHANGED <<row, place, brake, down, run, tries>>
    PROVE  CapInv'
<1>1. CASE tick' = PassedOver(t)
  <2> DEFINE w == GoesOn(tick[t], ModeOf(t))
  <2>1. GoodSweep(w) /\ \A p \in Profile : Holds(w, p) => Holds(tick[t], p)
    BY PassedOverIs, GoesOnGood
  <2>2. tick' = [tick EXCEPT ![t] = w]
    BY <1>1, PassedOverIs
  <2> HIDE DEF w
  <2> QED  BY <2>1, <2>2, TickOnly
<1>2. CASE tick' = [tick EXCEPT ![t] = IdleTick]
  BY <1>2, IdleIsGood, TickOnly
<1> QED  BY <1>1, <1>2

\* An attempt begins on a candidate that was below the cap when it was read.
LEMMA AttemptKeeps ==
    ASSUME CapInv, NEW t \in Tick, Attempt(t)
    PROVE  CapInv'
<1> DEFINE ok == Head1(t).profile \notin down
           w == [phase |-> "write", batch |-> tick[t].batch, mode |-> ModeOf(t), ok |-> ok]
<1>1. tick[t].phase = "next" /\ ~Capped(Head1(t))
  BY DEF Attempt
<1>2. GoodSweep(tick[t]) /\ tick[t].batch # <<>> /\ ModeOf(t) \in Brakes \cup {"unread"}
  BY <1>1, PassedOverIs
<1>3. tick[t] \in Sweep
  BY <1>2 DEF GoodSweep
<1>4. ok \in BOOLEAN
  OBVIOUS
<1> HIDE DEF ok
<1>5. w \in Sweep
  BY <1>2, <1>3, <1>4 DEF Sweep
<1>6. GoodSweep(w)
  BY <1>1, <1>2, <1>5 DEF GoodSweep, Head1
<1>7. \A p \in Profile : Holds(w, p) => Holds(tick[t], p)
  BY DEF Holds
<1>8. tick' = [tick EXCEPT ![t] = w]
  BY DEF Attempt, ok, CapInv, SweepsGood
<1>9. UNCHANGED <<row, place, brake, down, run, tries>>
  BY DEF Attempt
<1> HIDE DEF w
<1> QED  BY <1>6, <1>7, <1>8, <1>9, TickOnly

\* The order of the profiles remains one.
LEMMA AttemptedNowPlaces ==
    ASSUME RestTyped, NEW p \in Profile
    PROVE  AttemptedNow(p) \in Placing
<1> DEFINE N == Cardinality(Profile)
<1>1. N \in Nat
  BY AuthRefreshAssumption, FS_CardinalityType
<1>2. place \in [Profile -> 1 .. N] /\ \A q, r \in Profile : place[q] = place[r] => q = r
  BY DEF RestTyped, Placing
<1> HIDE DEF N
<1>3. \A q \in Profile : place[q] \in 1 .. N
  BY <1>2
<1>4. \A q \in Profile : AttemptedNow(p)[q] \in 1 .. N /\ (q # p => AttemptedNow(p)[q] < N)
  <2> SUFFICES ASSUME NEW q \in Profile
               PROVE  AttemptedNow(p)[q] \in 1 .. N /\ (q # p => AttemptedNow(p)[q] < N)
    OBVIOUS
  <2>1. place[q] \in 1 .. N /\ place[p] \in 1 .. N /\ (q # p => place[q] # place[p])
    BY <1>2
  <2> QED  BY <1>1, <2>1 DEF AttemptedNow, N
<1>5. \A q, r \in Profile : AttemptedNow(p)[q] = AttemptedNow(p)[r] => q = r
  <2> SUFFICES ASSUME NEW q \in Profile, NEW r \in Profile,
                      AttemptedNow(p)[q] = AttemptedNow(p)[r]
               PROVE  q = r
    OBVIOUS
  <2>1. CASE q = p \/ r = p
    BY <1>1, <1>4, <2>1 DEF AttemptedNow, N
  <2>2. CASE q # p /\ r # p
    <3>1. /\ place[q] \in Int /\ place[r] \in Int /\ place[p] \in Int
          /\ place[q] # place[p] /\ place[r] # place[p]
      BY <1>1, <1>2, <2>2
    <3>2. place[q] = place[r]
      BY <2>2, <3>1 DEF AttemptedNow
    <3> QED  BY <1>2, <3>2
  <2> QED  BY <2>1, <2>2
<1> QED  BY <1>4, <1>5 DEF Placing, AttemptedNow, N

\* The attempt of a tick is recorded: its sweep leaves the account of the profile.
LEMMA RecordKeeps ==
    ASSUME CapInv, NEW t \in Tick, RecordAttempt(t)
    PROVE  CapInv'
<1> DEFINE w == GoesOn(tick[t], ModeOf(t))
<1>1. tick[t].phase = "write" /\ UNCHANGED <<brake, down, run>>
  BY DEF RecordAttempt
<1>2. /\ tick' = [tick EXCEPT ![t] = w]
      /\ GoodSweep(tick[t]) /\ tick[t].batch # <<>> /\ ModeOf(t) \in Brakes \cup {"unread"}
  BY <1>1, PassedOverIs DEF RecordAttempt
<1>3. /\ GoodSweep(w)
      /\ \A q \in Profile : Holds(w, q) => Holds(tick[t], q)
      /\ ~Holds(w, Head(tick[t].batch).profile)
      /\ Head(tick[t].batch) = tick[t].batch[1] /\ Head(tick[t].batch) \in Candidate
      /\ 1 \in 1 .. Len(tick[t].batch)
  BY <1>2, GoesOnGood
<1>4. PICK p \in Profile : p = Head1(t).profile /\ ~Holds(w, p)
  BY <1>3 DEF Head1, Candidate
<1> DEFINE written == IF tick[t].ok THEN Success(row[p], tick[t].mode)
                                    ELSE Failure(row[p], Head1(t))
<1>5. t \in Holding(p)
  BY <1>1, <1>2, <1>3, <1>4 DEF Holding, Holds, GoodSweep, Head1
<1>6. /\ row' = [row EXCEPT ![p] = written]
      /\ place' = AttemptedNow(p)
      /\ tries' = [tries EXCEPT ![p] = IF tick[t].ok THEN 0 ELSE tries[p] + 1]
  BY <1>4 DEF RecordAttempt, CapInv, RowsTyped, RestTyped
<1> HIDE DEF w
<1>7. /\ SweepsGood'
      /\ \A q \in Profile, u \in Tick :
            Holds(tick'[u], q) => (u = t /\ Holds(w, q)) \/ Holds(tick[u], q)
      /\ \A q \in Profile : Holds(tick'[t], q) => Holds(w, q)
  BY <1>2, <1>3, TickMoves DEF CapInv
<1>8. Holding(p)' \subseteq Holding(p) \ {t}
  BY <1>4, <1>7 DEF Holding
<1>9. \A q \in Profile : Holding(q)' \subseteq Holding(q)
  BY <1>3, <1>7 DEF Holding
<1>10. /\ row[p] \in Row /\ row[p].failures \in Nat /\ tries[p] = row[p].failures
       /\ Cardinality(Holding(p)') + 1 <= Cardinality(Holding(p))
       /\ row[p].failures + Cardinality(Holding(p)) <= Bound
  BY <1>4, <1>5, <1>8, HoldingFinite DEF CapInv, RowsTyped, Accounts, Row, Failures
<1>11. row[p].failures + 1 + Cardinality(Holding(p)') <= Bound
  BY <1>4, <1>10, HoldingFinite, BoundIsNat
<1>12. /\ written \in Row
       /\ written.failures = IF tick[t].ok THEN 0 ELSE row[p].failures + 1
  BY <1>4, <1>10, <1>11, SweepWrites, HoldingFinite, BoundIsNat
<1> HIDE DEF written
<1>13. RowsTyped' /\ \A q \in Profile : row'[q] = IF q = p THEN written ELSE row[q]
  BY <1>4, <1>6, <1>12 DEF CapInv, RowsTyped
<1>14. /\ \A q \in Profile : tries'[q] = IF q = p THEN (IF tick[t].ok THEN 0 ELSE tries[p] + 1)
                                                  ELSE tries[q]
       /\ tries' \in [Profile -> Nat]
  BY <1>4, <1>6 DEF CapInv, RestTyped
<1>15. RestTyped'
  BY <1>1, <1>4, <1>6, <1>14, AttemptedNowPlaces DEF CapInv, RestTyped
<1>16. ASSUME NEW q \in Profile
       PROVE  tries'[q] = row'[q].failures /\ row'[q].failures + Cardinality(Holding(q)') <= Bound
  <2>1. CASE q # p
    <3>1. row[q].failures \in Nat
      BY DEF CapInv, RowsTyped, Row, Failures
    <3> QED  BY <1>9, <1>13, <1>14, <2>1, <3>1, HoldingFinite, BoundIsNat DEF CapInv, Accounts
  <2>2. CASE q = p
    <3>1. tries'[q] = row'[q].failures
      BY <1>10, <1>12, <1>13, <1>14, <2>2
    <3>2. row'[q].failures <= row[p].failures + 1 /\ row'[q].failures \in Nat
      BY <1>10, <1>12, <1>13, <2>2
    <3>3. row'[q].failures + Cardinality(Holding(p)') <= Bound
      BY <1>4, <1>10, <1>11, <3>2, HoldingFinite, BoundIsNat
    <3> QED  BY <2>2, <3>1, <3>3
  <2> QED  BY <2>1, <2>2
<1>17. Accounts'
  BY <1>16 DEF Accounts, Bound
<1> QED  BY <1>7, <1>13, <1>15, <1>17 DEF CapInv

-------------------------------------------------------------------------------
(***************************************************************************)
(* The other steps                                                         *)
(***************************************************************************)

\* A row is written by someone who does not count attempts.
LEMMA WritesKeep ==
    ASSUME CapInv, NEW p \in Profile, NEW r \in Row, r.failures = row[p].failures,
           row' = [row EXCEPT ![p] = r], run' \in Signing,
           UNCHANGED <<place, brake, down, tick, tries>>
    PROVE  CapInv'
<1>1. RowsTyped' /\ \A q \in Profile : row'[q].failures = row[q].failures
  BY DEF CapInv, RowsTyped
<1>2. RestTyped' /\ SweepsGood'
  BY DEF CapInv, RestTyped, SweepsGood, GoodSweep
<1>3. Accounts'
  BY <1>1, AccountsKept
<1> QED  BY <1>1, <1>2, <1>3 DEF CapInv

\* Nothing of the rows or the sweeps is touched.
LEMMA RestMoves ==
    ASSUME CapInv, RestTyped', UNCHANGED <<row, tick, tries>>
    PROVE  CapInv'
<1>1. Accounts'
  BY AccountsKept
<1> QED  BY <1>1 DEF CapInv, RowsTyped, SweepsGood, GoodSweep

\* A run that signs nothing in is of its type.
LEMMA IdleRunTyped == IdleRun \in Signing
BY AuthRefreshAssumption DEF IdleRun, Signing

\* Initially no sweep is under way and nothing has failed.
LEMMA CapInit == Init => CapInv
<1> SUFFICES ASSUME Init PROVE CapInv
  OBVIOUS
<1>1. 0 \in Failures
  BY BoundIsNat DEF Failures, Bound
<1>2. Absent \in Row /\ Migrated \in Row /\ Plain(Absent) \in Row
  BY <1>1 DEF Absent, Migrated, Plain, Row, Left
<1>3. Absent.failures = 0 /\ Migrated.failures = 0 /\ Plain(Absent).failures = 0
  BY DEF Absent, Migrated, Plain
<1>4. RowsTyped /\ \A p \in Profile : row[p].failures = 0
  BY <1>2, <1>3 DEF Init, RowsTyped
<1>5. RestTyped
  BY IdleRunTyped DEF Init, RestTyped
<1>6. SweepsGood
  <2>1. GoodSweep(IdleTick)
    BY IdleIsGood
  <2>2. IdleTick \in Sweep
    BY <2>1 DEF GoodSweep
  <2> QED  BY <2>1, <2>2 DEF Init, SweepsGood
<1>7. \A p \in Profile : Holding(p) = {}
  BY IdleIsGood DEF Init, Holding
<1>8. Accounts
  BY <1>4, <1>7, FS_EmptySet, BoundIsNat, AuthRefreshAssumption DEF Init, Accounts
<1> QED  BY <1>4, <1>5, <1>6, <1>8 DEF CapInv

\* Every step of the system keeps the account.
LEMMA CapStep == CapInv /\ [Next]_vars => CapInv'
<1> SUFFICES ASSUME CapInv, [Next]_vars PROVE CapInv'
  OBVIOUS
<1>1. ASSUME NEW t \in Tick, Sweeps(t) PROVE CapInv'
  <2>1. CASE TickBegins(t)  BY <2>1, BeginsKeeps
  <2>2. CASE Skip(t)        BY <2>2, PassesKeeps DEF Skip
  <2>3. CASE Attempt(t)     BY <2>3, AttemptKeeps
  <2>4. CASE RecordAttempt(t)  BY <2>4, RecordKeeps
  <2>5. CASE WriteFails(t)  BY <2>5, PassesKeeps DEF WriteFails
  <2>6. CASE WorkerDies(t)  BY <2>6, PassesKeeps DEF WorkerDies
  <2> QED  BY <1>1, <2>1, <2>2, <2>3, <2>4, <2>5, <2>6 DEF Sweeps
<1>2. ASSUME NEW p \in Profile, RunSignsIn(p) PROVE CapInv'
  <2>1. RestTyped'
    BY <1>2 DEF RunSignsIn, CapInv, RestTyped, Signing
  <2> QED  BY <1>2, <2>1, RestMoves DEF RunSignsIn
<1>3. ASSUME NEW p \in Profile, PersonSignsIn(p) PROVE CapInv'
  <2>1. row[p] \in Row
    BY DEF CapInv, RowsTyped
  <2>2. row' = [row EXCEPT ![p] = Sealed(row[p])] /\ run' \in Signing
    BY <1>3 DEF PersonSignsIn, CapInv, RowsTyped, RestTyped
  <2> QED  BY <1>3, <2>1, <2>2, SignInWrites, WritesKeep DEF PersonSignsIn
<1>4. ASSUME NEW p \in Profile, TimePasses(p) PROVE CapInv'
  <2> DEFINE left == IF row[p].left = "fresh" THEN "due" ELSE "expired"
             r == [row[p] EXCEPT !.left = left]
  <2>1. row[p] \in Row
    BY DEF CapInv, RowsTyped
  <2>2. left \in Left
    BY DEF Left
  <2> HIDE DEF left
  <2>3. r \in Row /\ r.failures = row[p].failures
    BY <2>1, <2>2 DEF Row
  <2>4. row' = [row EXCEPT ![p] = r]
    BY <1>4 DEF TimePasses, left, CapInv, RowsTyped
  <2>5. run' \in Signing
    BY <1>4 DEF TimePasses, CapInv, RestTyped
  <2> HIDE DEF r
  <2> QED  BY <1>4, <2>3, <2>4, <2>5, WritesKeep DEF TimePasses
<1>5. ASSUME NEW p \in Profile, SignInBreaks(p) \/ SignInWorks(p) PROVE CapInv'
  <2>1. RestTyped'
    BY <1>5 DEF SignInBreaks, SignInWorks, CapInv, RestTyped
  <2> QED  BY <1>5, <2>1, RestMoves DEF SignInBreaks, SignInWorks
<1>6. CASE RunSaves
  <2> DEFINE r == IF run.mode = "ENFORCE" THEN Sealed(row[run.profile]) ELSE Plain(row[run.profile])
  <2>1. run.profile \in Profile /\ row[run.profile] \in Row /\ run' \in Signing
    BY <1>6, IdleRunTyped DEF RunSaves, CapInv, RowsTyped, RestTyped, Signing
  <2>2. UNCHANGED <<place, brake, down, tick, tries>>
    BY <1>6 DEF RunSaves
  <2>3. CASE UNCHANGED row
    <3>1. RestTyped'
      BY <2>1, <2>2 DEF CapInv, RestTyped
    <3> QED  BY <2>2, <2>3, <3>1, RestMoves
  <2>4. CASE row # row'
    <3>1. row' = [row EXCEPT ![run.profile] = r]
      BY <1>6, <2>1, <2>4 DEF RunSaves, CapInv, RowsTyped
    <3>2. r \in Row /\ r.failures = row[run.profile].failures
      BY <2>1, SignInWrites
    <3> HIDE DEF r
    <3> QED  BY <2>1, <2>2, <3>1, <3>2, WritesKeep
  <2> QED  BY <2>3, <2>4
<1>7. ASSUME NEW b \in Brakes, SetsBrake(b) PROVE CapInv'
  <2>1. RestTyped'
    BY <1>7 DEF SetsBrake, CapInv, RestTyped
  <2> QED  BY <1>7, <2>1, RestMoves DEF SetsBrake
<1>8. CASE UNCHANGED vars
  <2>1. RestTyped'
    BY <1>8 DEF vars, CapInv, RestTyped
  <2> QED  BY <1>8, <2>1, RestMoves DEF vars
<1> QED  BY <1>1, <1>2, <1>3, <1>4, <1>5, <1>6, <1>7, <1>8 DEF Next, Signs, Environment

\* The account holds in every reachable state.
LEMMA CapInvariant == Spec => []CapInv
BY CapInit, CapStep, PTL DEF Spec

\* In every reachable state the rows, the order of the profiles and what the sweeps
\* and the run remember are of their types: a count of failures never passes the
\* bound, and a batch never the budget of a tick (auth-refresh.ts, maxProfiles).
THEOREM AuthRefreshTyped == Spec => []AuthRefreshTypeOK
<1>1. CapInv => AuthRefreshTypeOK
  BY DEF CapInv, RowsTyped, RestTyped, SweepsGood, GoodSweep, AuthRefreshTypeOK
<1> QED  BY <1>1, CapInvariant, PTL

\* However many sweeps overlap, a profile whose sign-in keeps failing is tried at most
\* MAX_REFRESH_FAILURES times, and once more for each other sweep that had already
\* decided (auth-refresh.ts, refreshBackoff and failureWrite).
THEOREM AuthRefreshCapped == Spec => []CapHolds
<1>1. CapInv => CapHolds
  <2> SUFFICES ASSUME CapInv, NEW p \in Profile PROVE tries[p] <= Bound
    BY DEF CapHolds, Bound
  <2>1. row[p].failures \in Nat /\ tries[p] = row[p].failures
    BY DEF CapInv, RowsTyped, Row, Failures, Accounts
  <2>2. row[p].failures + Cardinality(Holding(p)) <= Bound
    BY DEF CapInv, Accounts
  <2> QED  BY <2>1, <2>2, HoldingFinite, BoundIsNat
<1> QED  BY <1>1, CapInvariant, PTL

-------------------------------------------------------------------------------
(***************************************************************************)
(* Whose expiry a row carries                                              *)
(***************************************************************************)

\* The expiry belongs to the plain session while there is one, else to the sealed
\* one: stronger than the property, and kept by every writer of a row alone.
Owned(r) ==
    /\ r.plain => r.owner = "plain"
    /\ ~r.plain /\ r.sealed => r.owner = "sealed"

RowsOwned == \A p \in Profile : Owned(row[p])

\* Every way of writing a row leaves its expiry with its owner.
LEMMA WritesOwned ==
    ASSUME NEW r \in Row, Owned(r), NEW mode, NEW read
    PROVE  Owned(Sealed(r)) /\ Owned(Plain(r)) /\ Owned(Success(r, mode)) /\ Owned(Failure(r, read))
<1>1. Owned(Sealed(r)) /\ Owned(Plain(r)) /\ Owned(Failure(r, read))
  BY DEF Owned, Sealed, Plain, Failure, Row
<1>2. CASE mode = "ENFORCE"  BY <1>1, <1>2 DEF Owned, Success, Sealed, Row
<1>3. CASE mode # "ENFORCE"  BY <1>1, <1>3 DEF Owned, Success, Plain, Row
<1> QED  BY <1>1, <1>2, <1>3

\* So does every row a sweep may begin with.
LEMMA OwnedInit == Init => RowsOwned
<1>1. Owned(Absent) /\ Owned(Migrated) /\ Owned(Plain(Absent))
  BY DEF Owned, Absent, Migrated, Plain
<1> QED  BY <1>1 DEF Init, RowsOwned

\* A row changes by one of the ways of writing it.
LEMMA RowsChange ==
    ASSUME CapInv, [Next]_vars
    PROVE  \/ UNCHANGED row
           \/ \E p \in Profile : \E r : row' = [row EXCEPT ![p] = r] /\ (Owned(row[p]) => Owned(r))
<1>1. \A p \in Profile : row[p] \in Row
  BY DEF CapInv, RowsTyped
<1>2. ASSUME NEW t \in Tick, RecordAttempt(t)
      PROVE  \E p \in Profile : \E r : row' = [row EXCEPT ![p] = r] /\ (Owned(row[p]) => Owned(r))
  <2> DEFINE p == Head1(t).profile
             r == IF tick[t].ok THEN Success(row[p], tick[t].mode) ELSE Failure(row[p], Head1(t))
  <2>1. p \in Profile
    <3>1. tick[t].phase # "idle"
      BY <1>2 DEF RecordAttempt
    <3>2. GoodSweep(tick[t]) /\ tick[t].batch # <<>>
      BY <3>1, PassedOverIs
    <3>3. tick[t].batch \in Seq(Candidate) /\ Head1(t) \in Candidate
      BY <3>2 DEF GoodSweep, Sweep, Head1
    <3> QED  BY <3>3 DEF Candidate
  <2>2. row' = [row EXCEPT ![p] = r]
    BY <1>2, <2>1 DEF RecordAttempt, CapInv, RowsTyped
  <2>3. Owned(row[p]) => Owned(r)
    BY <1>1, <2>1, WritesOwned
  <2> HIDE DEF p, r
  <2> QED  BY <2>1, <2>2, <2>3
<1>3. ASSUME NEW p \in Profile, TimePasses(p)
      PROVE  \E q \in Profile : \E r : row' = [row EXCEPT ![q] = r] /\ (Owned(row[q]) => Owned(r))
  <2> DEFINE left == IF row[p].left = "fresh" THEN "due" ELSE "expired"
             r == [row[p] EXCEPT !.left = left]
  <2>1. row' = [row EXCEPT ![p] = r]
    BY <1>3 DEF TimePasses, CapInv, RowsTyped
  <2> HIDE DEF left
  <2>2. Owned(row[p]) => Owned(r)
    BY <1>1 DEF Owned, Row
  <2> HIDE DEF r
  <2> QED  BY <2>1, <2>2
<1>4. ASSUME RunSaves, row' # row
      PROVE  \E p \in Profile : \E r : row' = [row EXCEPT ![p] = r] /\ (Owned(row[p]) => Owned(r))
  <2>1. run.profile \in Profile
    BY DEF CapInv, RestTyped, Signing
  <2>2. PICK r \in {Sealed(row[run.profile]), Plain(row[run.profile])} :
           row' = [row EXCEPT ![run.profile] = r]
    BY <1>4, <2>1 DEF RunSaves, CapInv, RowsTyped
  <2>3. Owned(row[run.profile]) => Owned(r)
    BY <1>1, <2>1, <2>2, WritesOwned
  <2> QED  BY <2>1, <2>2, <2>3
<1>5. ASSUME NEW p \in Profile, PersonSignsIn(p)
      PROVE  \E q \in Profile : \E r : row' = [row EXCEPT ![q] = r] /\ (Owned(row[q]) => Owned(r))
  <2>1. row' = [row EXCEPT ![p] = Sealed(row[p])]
    BY <1>5 DEF PersonSignsIn, CapInv, RowsTyped
  <2> QED  BY <1>1, <2>1, WritesOwned
<1> QED
  BY <1>2, <1>3, <1>4, <1>5
  DEF Next, Sweeps, Signs, Environment, TickBegins, Skip, Attempt, WriteFails, WorkerDies,
      RunSignsIn, SignInBreaks, SignInWorks, SetsBrake, vars

\* No step parts an expiry from its owner.
LEMMA OwnedStep == CapInv /\ RowsOwned /\ [Next]_vars => RowsOwned'
<1> SUFFICES ASSUME CapInv, RowsOwned, [Next]_vars PROVE RowsOwned'
  OBVIOUS
<1>1. CASE UNCHANGED row
  BY <1>1 DEF RowsOwned, Owned
<1>2. ASSUME NEW p \in Profile, NEW r, row' = [row EXCEPT ![p] = r], Owned(row[p]) => Owned(r)
      PROVE  RowsOwned'
  <2>1. \A q \in Profile : row'[q] = IF q = p THEN r ELSE row[q]
    BY <1>2 DEF CapInv, RowsTyped
  <2>2. \A q \in Profile : Owned(row'[q])
    BY <1>2, <2>1 DEF RowsOwned
  <2> QED  BY <2>2 DEF RowsOwned, Owned
<1> QED  BY <1>1, <1>2, RowsChange

\* Whoever wrote a row last, and in whichever mode, the session a run may carry from
\* it is judged by its own expiry (session-store.ts, SealedSessionWrite; auth-refresh.ts,
\* openCachedSession).
THEOREM AuthRefreshOwnExpiry == Spec => []CarriedOnItsOwnExpiry
<1>1. CapInv /\ RowsOwned => CarriedOnItsOwnExpiry
  <2> SUFFICES ASSUME CapInv, RowsOwned, NEW p \in Profile, Carried(row[p]) # "none"
               PROVE  row[p].owner = Carried(row[p])
    BY DEF CarriedOnItsOwnExpiry
  <2>1. Owned(row[p]) /\ row[p] \in Row
    BY DEF RowsOwned, CapInv, RowsTyped
  <2>2. CASE row[p].plain
    <3>1. State(row[p]) = "LEGACY_PLAINTEXT"
      BY <2>2 DEF State
    <3> QED  BY <2>1, <2>2, <3>1 DEF Owned, Carried
  <2>3. CASE ~row[p].plain
    <3>1. State(row[p]) \in {"fresh", "due"} /\ Carried(row[p]) = "sealed"
      BY <2>1, <2>3 DEF State, Carried, Row, Left
    <3>2. row[p].sealed
      BY <2>1, <2>3, <3>1 DEF State, Row
    <3> QED  BY <2>1, <2>3, <3>1, <3>2 DEF Owned
  <2> QED  BY <2>2, <2>3
<1> QED  BY <1>1, CapInvariant, OwnedInit, OwnedStep, PTL DEF Spec
===============================================================================

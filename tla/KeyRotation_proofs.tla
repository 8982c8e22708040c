-------------------------- MODULE KeyRotation_proofs --------------------------
(***************************************************************************)
(* What holds of KeyRotation for any number of rows, of API processes and  *)
(* of faults, any size of a page and any rows that cannot be opened.       *)
(***************************************************************************)
EXTENDS KeyRotation, FiniteSetTheorems, SequenceTheorems, TLAPS

\* How many of the rows that cannot be opened a cursor has passed.
Below(cursor) == Cardinality({b \in Broken : b <= cursor})

\* What the tool remembers: the rows of its page lie ahead of its cursor in id order,
\* and one that did not open is one of those that cannot be opened.
PageAhead(page, cursor) ==
    /\ page \in Seq(Read)
    /\ Len(page) <= Batch
    /\ \A i \in 1 .. Len(page) : page[i].id > cursor /\ (page[i].opens \/ page[i].id \in Broken)
    /\ \A i, j \in 1 .. Len(page) : i < j => page[i].id < page[j].id

ToolShape == [phase : {"off", "page", "rows", "count"}, cursor : 0 .. Rows,
              unopenable : Nat, page : Seq(Read)]
SweepShape == [state : {"none", "RUNNING", "FAILED", "COMPLETED"}, cursor : 0 .. Rows,
               unopenable : Nat]

GoodTool(w) ==
    /\ w \in ToolShape
    /\ PageAhead(w.page, w.cursor)
    /\ w.unopenable <= Below(w.cursor)

GoodSweep(w) == w \in SweepShape /\ w.unopenable <= Below(w.cursor)

RowsTyped ==
    /\ secret \in [Id -> Stored]
    /\ \A s \in Id : secret[s].version # 0 /\ ~secret[s].opens => s \in Broken

RestTyped ==
    /\ source \in {"READABLE", "COMPROMISED"}
    /\ fresh \in SUBSET Api
    /\ exit \in {"none", "ok", "incomplete"}
    /\ late \subseteq Id
    /\ faults \in 0 .. MaxFaults

\* No count is ahead of its cursor: a sweep that resumes counts no row twice.
CountsInv == RowsTyped /\ RestTyped /\ GoodTool(tool) /\ GoodSweep(sweep)

-------------------------------------------------------------------------------
(***************************************************************************)
(* Rows, cursors and pages                                                 *)
(***************************************************************************)

\* There are finitely many rows.
LEMMA IdsFinite == IsFiniteSet(Id)
<1>1. 1 \in Int /\ Rows \in Int
  BY KeyRotationAssumption
<1> QED  BY <1>1, FS_Interval DEF Id

\* A cursor that moves past an unopenable row has one more of them behind it.
LEMMA BelowCounts ==
    /\ \A m \in 0 .. Rows : Below(m) \in Nat /\ Below(m) <= Cardinality(Broken)
    /\ \A m, n \in 0 .. Rows : m <= n => Below(m) <= Below(n)
    /\ \A m, n \in 0 .. Rows : m < n /\ n \in Broken => Below(m) + 1 <= Below(n)
    /\ Cardinality(Broken) \in Nat
<1>1. IsFiniteSet(Broken) /\ \A b \in Broken : b \in Nat
  <2>1. Broken \subseteq Id /\ \A b \in Id : b \in Nat
    BY KeyRotationAssumption DEF Id
  <2> QED  BY <2>1, IdsFinite, FS_Subset
<1> DEFINE Passed(n) == {b \in Broken : b <= n}
<1>2. \A n \in 0 .. Rows : IsFiniteSet(Passed(n)) /\ Cardinality(Passed(n)) <= Cardinality(Broken)
  BY <1>1, FS_Subset
<1>3. \A n \in 0 .. Rows : Cardinality(Passed(n)) \in Nat
  BY <1>2, FS_CardinalityType
<1>4. \A m, n \in 0 .. Rows : m <= n => Cardinality(Passed(m)) <= Cardinality(Passed(n))
  <2> SUFFICES ASSUME NEW m \in 0 .. Rows, NEW n \in 0 .. Rows, m <= n
               PROVE  Cardinality(Passed(m)) <= Cardinality(Passed(n))
    OBVIOUS
  <2>1. Passed(m) \subseteq Passed(n)
    BY <1>1
  <2> QED  BY <1>2, <2>1, FS_Subset
<1>5. ASSUME NEW m \in 0 .. Rows, NEW n \in 0 .. Rows, m < n, n \in Broken
      PROVE  Cardinality(Passed(m)) + 1 <= Cardinality(Passed(n))
  <2>1. Passed(m) \subseteq Passed(n) \ {n} /\ n \in Passed(n)
    <3>1. m \in Int /\ n \in Int /\ n <= n /\ ~(n <= m)
      BY <1>5
    <3>2. \A b \in Passed(m) : b \in Broken /\ b <= n /\ b # n
      BY <1>1, <3>1
    <3> QED  BY <1>5, <3>1, <3>2
  <2>2. /\ IsFiniteSet(Passed(n) \ {n})
        /\ Cardinality(Passed(n) \ {n}) = Cardinality(Passed(n)) - 1
    BY <1>2, <2>1, FS_RemoveElement
  <2>3. Cardinality(Passed(m)) <= Cardinality(Passed(n) \ {n})
    BY <2>1, <2>2, FS_Subset
  <2> QED  BY <1>3, <2>2, <2>3
<1>6. \A n : Below(n) = Cardinality(Passed(n))
  BY DEF Below
<1>7. Cardinality(Broken) \in Nat
  BY <1>1, FS_CardinalityType
<1> HIDE DEF Passed
<1> QED  BY <1>2, <1>3, <1>4, <1>5, <1>6, <1>7

\* The rows of a page are rows at version 1 past the cursor, in the order of their ids.
LEMMA PageOrdered ==
    ASSUME NEW ids \in Pages, tool.cursor \in 0 .. Rows
    PROVE  /\ ids \in Seq(Id) /\ Len(ids) <= Batch /\ DOMAIN ids = 1 .. Len(ids)
           /\ \A i \in 1 .. Len(ids) : ids[i] \in Id /\ ids[i] > tool.cursor
                                       /\ secret[ids[i]].version = 1
           /\ \A i, j \in 1 .. Len(ids) : i < j => ids[i] < ids[j]
<1> DEFINE size == IF Cardinality(Remaining) > Batch THEN Batch ELSE Cardinality(Remaining)
<1>1. IsFiniteSet(Remaining)
  <2>1. Remaining \subseteq Id
    BY DEF Remaining, AtVersion
  <2> QED  BY <2>1, IdsFinite, FS_Subset
<1>2. size \in Nat /\ size <= Batch
  BY <1>1, FS_CardinalityType, KeyRotationAssumption
<1> HIDE DEF size
<1>3. /\ ids \in [1 .. size -> Remaining]
      /\ \A i \in 1 .. size, s \in Remaining :
            (s < ids[i]) <=> (\E j \in 1 .. i - 1 : ids[j] = s)
  BY DEF Pages, size
<1>4. \A s \in Remaining : s \in Id /\ s > tool.cursor /\ secret[s].version = 1
  BY DEF Remaining, AtVersion
<1>5. ids \in Seq(Id) /\ Len(ids) = size /\ DOMAIN ids = 1 .. size
  BY <1>2, <1>3, <1>4
<1>6. \A i, j \in 1 .. size : i < j => ids[i] < ids[j]
  <2> SUFFICES ASSUME NEW i \in 1 .. size, NEW j \in 1 .. size, i < j PROVE ids[i] < ids[j]
    OBVIOUS
  <2>1. ids[i] \in Remaining /\ i \in 1 .. j - 1
    BY <1>2, <1>3
  <2> QED  BY <1>3, <2>1
<1> QED  BY <1>2, <1>3, <1>4, <1>5, <1>6

\* With its first row dealt with, a page lies ahead of that row.
LEMMA TailAhead ==
    ASSUME NEW page, NEW cursor \in 0 .. Rows, PageAhead(page, cursor), page # <<>>
    PROVE  /\ Head(page) \in Read /\ Head(page).id \in Id /\ Head(page).id > cursor
           /\ ~Head(page).opens => Head(page).id \in Broken
           /\ PageAhead(Tail(page), Head(page).id)
<1>1. page \in Seq(Read) /\ Len(page) <= Batch
  BY DEF PageAhead
<1>2. Len(page) \in Nat /\ Len(page) # 0
  BY <1>1, EmptySeq
<1>3. Head(page) = page[1] /\ 1 \in 1 .. Len(page) /\ Head(page) \in Read
  BY <1>1, <1>2
<1>4. /\ Tail(page) \in Seq(Read) /\ Len(Tail(page)) = Len(page) - 1
      /\ \A i \in 1 .. Len(Tail(page)) : Tail(page)[i] = page[i + 1] /\ i + 1 \in 1 .. Len(page)
  BY <1>1, <1>2, HeadTailProperties
<1>5. /\ \A i \in 1 .. Len(page) : page[i].id > cursor /\ (page[i].opens \/ page[i].id \in Broken)
      /\ \A i, j \in 1 .. Len(page) : i < j => page[i].id < page[j].id
  BY DEF PageAhead
<1>6. Head(page).id \in Id
  BY <1>3 DEF Read
<1>7. \A i \in 1 .. Len(Tail(page)) :
         Tail(page)[i].id > Head(page).id /\ (Tail(page)[i].opens \/ Tail(page)[i].id \in Broken)
  <2> SUFFICES ASSUME NEW i \in 1 .. Len(Tail(page))
               PROVE  /\ Tail(page)[i].id > Head(page).id
                      /\ Tail(page)[i].opens \/ Tail(page)[i].id \in Broken
    OBVIOUS
  <2>1. Tail(page)[i] = page[i + 1] /\ i + 1 \in 1 .. Len(page) /\ 1 < i + 1
    BY <1>2, <1>4
  <2>2. page[1].id < page[i + 1].id /\ (page[i + 1].opens \/ page[i + 1].id \in Broken)
    BY <1>3, <1>5, <2>1
  <2>3. Tail(page)[i] \in Read
    BY <1>4
  <2>4. Tail(page)[i].id \in Int /\ Head(page).id \in Int
    BY <1>6, <2>3, KeyRotationAssumption DEF Read, Id
  <2> QED  BY <1>3, <2>1, <2>2, <2>4
<1>8. \A i, j \in 1 .. Len(Tail(page)) : i < j => Tail(page)[i].id < Tail(page)[j].id
  BY <1>4, <1>5
<1>9. Len(Tail(page)) <= Batch
  BY <1>1, <1>2, <1>4, KeyRotationAssumption
<1>10. PageAhead(Tail(page), Head(page).id)
  BY <1>4, <1>7, <1>8, <1>9 DEF PageAhead
<1> QED  BY <1>3, <1>5, <1>6, <1>10

-------------------------------------------------------------------------------
(***************************************************************************)
(* The counts are inductive                                                *)
(***************************************************************************)

\* The tool at rest, and the tool that begins to count, remember well.
LEMMA OffIsGood ==
    /\ GoodTool(Off)
    /\ GoodTool([Off EXCEPT !.phase = "count"])
    /\ \A c \in 0 .. Rows, u \in Nat :
          u <= Below(c) =>
              GoodTool([phase |-> "page", cursor |-> c, unopenable |-> u, page |-> <<>>])
<1>1. <<>> \in Seq(Read) /\ Len(<<>>) = 0
  BY EmptySeq
<1>2. \A c \in 0 .. Rows : PageAhead(<<>>, c)
  BY <1>1, KeyRotationAssumption DEF PageAhead
<1>3. 0 \in 0 .. Rows /\ 0 \in Nat /\ 0 <= Below(0)
  BY BelowCounts, KeyRotationAssumption
<1>4. \A phase \in {"off", "page", "count"}, c \in 0 .. Rows, u \in Nat :
         u <= Below(c) =>
             GoodTool([phase |-> phase, cursor |-> c, unopenable |-> u, page |-> <<>>])
  BY <1>1, <1>2 DEF GoodTool, ToolShape
<1>5. [Off EXCEPT !.phase = "count"]
         = [phase |-> "count", cursor |-> 0, unopenable |-> 0, page |-> <<>>]
  BY DEF Off
<1> QED  BY <1>3, <1>4, <1>5 DEF Off

\* The sweep row is saved from what the tool has counted up to its cursor.
LEMMA SavedIsGood ==
    ASSUME NEW state \in {"none", "RUNNING", "FAILED", "COMPLETED"}, NEW c \in 0 .. Rows,
           NEW u \in Nat, u <= Below(c)
    PROVE  GoodSweep(Saved(state, c, u))
BY DEF GoodSweep, Saved, SweepShape

\* A page is read: it lies ahead, and what does not open cannot be opened.
LEMMA ReadsKeeps ==
    ASSUME CountsInv, ToolReadsPage
    PROVE  CountsInv'
<1>1. /\ tool \in ToolShape /\ tool.cursor \in 0 .. Rows /\ tool.unopenable \in Nat
      /\ tool.unopenable <= Below(tool.cursor) /\ PageAhead(tool.page, tool.cursor)
  BY DEF CountsInv, GoodTool, ToolShape
<1>2. UNCHANGED <<secret, source, fresh, exit, late, faults>>
  BY DEF ToolReadsPage
<1>3. ASSUME NEW ids \in Pages, UNCHANGED sweep,
             tool' = [tool EXCEPT !.phase = "rows",
                                  !.page = [i \in DOMAIN ids |->
                                              [id |-> ids[i], opens |-> secret[ids[i]].opens]]]
      PROVE  CountsInv'
  <2>1. /\ ids \in Seq(Id) /\ Len(ids) <= Batch /\ DOMAIN ids = 1 .. Len(ids)
        /\ \A i \in 1 .. Len(ids) : ids[i] \in Id /\ ids[i] > tool.cursor
                                    /\ secret[ids[i]].version = 1
        /\ \A i, j \in 1 .. Len(ids) : i < j => ids[i] < ids[j]
    BY <1>1, PageOrdered
  <2>2. PICK page : page = [i \in DOMAIN ids |-> [id |-> ids[i], opens |-> secret[ids[i]].opens]]
    OBVIOUS
  <2>3. \A i \in 1 .. Len(ids) :
           /\ page[i] \in Read /\ page[i].id = ids[i]
           /\ page[i].opens \/ page[i].id \in Broken
    <3> SUFFICES ASSUME NEW i \in 1 .. Len(ids)
                 PROVE  /\ page[i] \in Read /\ page[i].id = ids[i]
                        /\ page[i].opens \/ page[i].id \in Broken
      OBVIOUS
    <3>1. ids[i] \in Id /\ secret[ids[i]].version = 1 /\ secret[ids[i]] \in Stored
      BY <2>1 DEF CountsInv, RowsTyped
    <3>2. secret[ids[i]].opens \in BOOLEAN
      BY <3>1 DEF Stored, Absent
    <3>3. page[i] = [id |-> ids[i], opens |-> secret[ids[i]].opens]
      BY <2>1, <2>2
    <3>4. secret[ids[i]].opens \/ ids[i] \in Broken
      BY <3>1, <3>2 DEF CountsInv, RowsTyped
    <3> QED  BY <3>1, <3>2, <3>3, <3>4 DEF Read
  <2>4. page \in Seq(Read) /\ Len(page) = Len(ids)
    BY <2>1, <2>2, <2>3
  <2>5. PageAhead(page, tool.cursor)
    BY <2>1, <2>3, <2>4 DEF PageAhead
  <2>6. tool' = [tool EXCEPT !.phase = "rows", !.page = page]
    BY <1>3, <2>2
  <2>7. GoodTool(tool')
    BY <1>1, <2>4, <2>5, <2>6 DEF GoodTool, ToolShape
  <2> QED  BY <1>2, <1>3, <2>7 DEF CountsInv, RowsTyped, RestTyped, GoodSweep, GoodTool
<1>4. ASSUME tool' = [tool EXCEPT !.phase = "count"],
             sweep' = Saved(IF tool.unopenable > 0 THEN "FAILED" ELSE "COMPLETED",
                            tool.cursor, tool.unopenable)
      PROVE  CountsInv'
  <2>1. GoodTool(tool')
    BY <1>1, <1>4 DEF GoodTool, ToolShape
  <2>2. GoodSweep(sweep')
    BY <1>1, <1>4, SavedIsGood
  <2> QED  BY <1>2, <2>1, <2>2 DEF CountsInv, RowsTyped, RestTyped, GoodSweep, GoodTool
<1> QED  BY <1>3, <1>4 DEF ToolReadsPage

\* A row is stored, deleted or re-sealed: it opens or is gone.
LEMMA RowWritten ==
    ASSUME RowsTyped, NEW s \in Id, NEW v \in Stored, v.version = 0 \/ v.opens,
           secret' = [secret EXCEPT ![s] = v]
    PROVE  RowsTyped'
<1>1. \A x \in Id : secret'[x] = IF x = s THEN v ELSE secret[x]
  BY DEF RowsTyped
<1>2. \A x \in Id : secret'[x].version # 0 /\ ~secret'[x].opens => x \in Broken
  BY <1>1 DEF RowsTyped
<1>3. secret' \in [Id -> Stored]
  BY DEF RowsTyped
<1> QED  BY <1>2, <1>3 DEF RowsTyped

\* The rows the API and the tool write are rows.
LEMMA WritesStored ==
    /\ Absent \in Stored /\ Absent.version = 0
    /\ \A v \in {1, 2} : /\ [version |-> v, opens |-> TRUE] \in Stored
                         /\ [version |-> v, opens |-> TRUE].version = v
                         /\ [version |-> v, opens |-> TRUE].opens
BY DEF Stored, Absent

\* The tool deals with the first row of its page: the cursor passes it, and it is
\* counted if it is one that cannot be opened.
LEMMA PastIsGood ==
    ASSUME GoodTool(tool), tool.page # <<>>
    PROVE  /\ Head(tool.page).id \in Id
           /\ GoodTool(Past(Head(tool.page)))
           /\ ~Head(tool.page).opens =>
                 GoodTool([Past(Head(tool.page)) EXCEPT !.unopenable = tool.unopenable + 1])
           /\ Past(Head(tool.page)).unopenable = tool.unopenable
<1>1. PICK row : row = Head(tool.page)
  OBVIOUS
<1>2. /\ tool \in ToolShape /\ tool.cursor \in 0 .. Rows /\ tool.unopenable \in Nat
      /\ tool.unopenable <= Below(tool.cursor) /\ PageAhead(tool.page, tool.cursor)
  BY DEF GoodTool, ToolShape
<1>3. /\ row \in Read /\ row.id \in Id /\ row.id > tool.cursor
      /\ ~row.opens => row.id \in Broken
      /\ PageAhead(Tail(tool.page), row.id)
  BY <1>1, <1>2, TailAhead
<1>4. row.id \in 0 .. Rows
  BY <1>3, KeyRotationAssumption DEF Id
<1>5. Tail(tool.page) \in Seq(Read)
  BY <1>3 DEF PageAhead
<1>6. Past(row) = [tool EXCEPT !.page = Tail(tool.page), !.cursor = row.id]
  BY DEF Past
<1>7. /\ Past(row) \in ToolShape /\ Past(row).page = Tail(tool.page)
      /\ Past(row).cursor = row.id /\ Past(row).unopenable = tool.unopenable
  BY <1>2, <1>4, <1>5, <1>6 DEF ToolShape
<1>8. tool.unopenable <= Below(row.id)
  BY <1>2, <1>3, <1>4, BelowCounts
<1>9. GoodTool(Past(row))
  BY <1>3, <1>7, <1>8 DEF GoodTool
<1>10. ASSUME ~row.opens
       PROVE  GoodTool([Past(row) EXCEPT !.unopenable = tool.unopenable + 1])
  <2>1. PICK counted : counted = [Past(row) EXCEPT !.unopenable = tool.unopenable + 1]
    OBVIOUS
  <2>2. /\ counted \in ToolShape /\ counted.page = Tail(tool.page)
        /\ counted.cursor = row.id /\ counted.unopenable = tool.unopenable + 1
    BY <1>2, <1>7, <2>1 DEF ToolShape
  <2>3. tool.unopenable + 1 <= Below(row.id)
    BY <1>2, <1>3, <1>4, <1>10, BelowCounts
  <2> QED  BY <1>3, <2>1, <2>2, <2>3 DEF GoodTool
<1> QED  BY <1>1, <1>3, <1>7, <1>9, <1>10

\* Initially nothing is counted.
LEMMA CountsInit == Init => CountsInv
<1> SUFFICES ASSUME Init PROVE CountsInv
  OBVIOUS
<1>1. RowsTyped
  <2>1. PICK stored \in SUBSET Id :
           secret = [s \in Id |-> IF s \in stored THEN [version |-> 1, opens |-> s \notin Broken]
                                  ELSE Absent]
    BY DEF Init
  <2>2. \A s \in Id, b \in BOOLEAN : [version |-> 1, opens |-> b] \in Stored
    BY DEF Stored
  <2>3. \A s \in Id : (s \notin Broken) \in BOOLEAN
    OBVIOUS
  <2>4. \A s \in Id : secret[s] \in Stored
    BY <2>1, <2>2, <2>3, WritesStored
  <2>5. \A s \in Id : secret[s].version # 0 /\ ~secret[s].opens => s \in Broken
    BY <2>1 DEF Absent
  <2> QED  BY <2>1, <2>4, <2>5 DEF RowsTyped
<1>2. GoodTool(tool)
  BY OffIsGood DEF Init
<1>3. 0 \in 0 .. Rows /\ 0 <= Below(0)
  BY BelowCounts, KeyRotationAssumption
<1>4. GoodSweep(sweep)
  BY <1>3, SavedIsGood DEF Init
<1>5. RestTyped
  BY KeyRotationAssumption DEF Init, RestTyped
<1> QED  BY <1>1, <1>2, <1>4, <1>5 DEF CountsInv

\* A step of the tool or of the operator that writes no row.
LEMMA RestMoves ==
    ASSUME CountsInv, UNCHANGED secret, RestTyped', GoodTool(tool'), GoodSweep(sweep')
    PROVE  CountsInv'
BY DEF CountsInv, RowsTyped, GoodTool, GoodSweep

\* A step that writes one row and leaves the sweep as it is saved.
LEMMA RowMoves ==
    ASSUME CountsInv, NEW s \in Id, NEW v \in Stored, v.version = 0 \/ v.opens,
           secret' = [secret EXCEPT ![s] = v], late' \subseteq Id, GoodTool(tool'),
           UNCHANGED <<source, fresh, sweep, exit, faults>>
    PROVE  CountsInv'
<1>1. RowsTyped'
  BY RowWritten DEF CountsInv
<1> QED  BY <1>1 DEF CountsInv, RestTyped, GoodTool, GoodSweep

\* No step counts a row twice.
LEMMA CountsStep == CountsInv /\ [Next]_vars => CountsInv'
<1> SUFFICES ASSUME CountsInv, [Next]_vars PROVE CountsInv'
  OBVIOUS
<1>a. /\ RestTyped /\ GoodTool(tool) /\ GoodSweep(sweep)
      /\ tool \in ToolShape /\ tool.cursor \in 0 .. Rows /\ tool.unopenable \in Nat
      /\ tool.unopenable <= Below(tool.cursor)
      /\ sweep.cursor \in 0 .. Rows /\ sweep.unopenable \in Nat
      /\ sweep.unopenable <= Below(sweep.cursor)
  BY DEF CountsInv, GoodTool, GoodSweep, ToolShape, SweepShape
<1>b. MaxFaults \in Nat
  BY KeyRotationAssumption
<1>1. ASSUME NEW p \in Api, NEW s \in Id, StoreSecret(p, s) PROVE CountsInv'
  <2>1. SealingVersion(p) \in {1, 2}
    BY DEF SealingVersion
  <2>2. late' \subseteq Id
    BY <1>1, <1>a DEF StoreSecret, RestTyped
  <2> QED  BY <1>1, <1>a, <2>1, <2>2, WritesStored, RowMoves DEF StoreSecret
<1>2. ASSUME NEW s \in Id, DeleteSecret(s) PROVE CountsInv'
  <2>1. late' \subseteq Id
    BY <1>2, <1>a DEF DeleteSecret, RestTyped
  <2> QED  BY <1>2, <1>a, <2>1, WritesStored, RowMoves DEF DeleteSecret
<1>3. ASSUME NEW p \in Api, Boot(p) \/ Install(p) PROVE CountsInv'
  <2>1. RestTyped' /\ UNCHANGED <<secret, tool, sweep>>
    BY <1>3, <1>a DEF Boot, Install, RestTyped
  <2> QED  BY <1>a, <2>1, RestMoves
<1>4. CASE ToolStarts
  <2>1. RestTyped' /\ UNCHANGED secret
    BY <1>4, <1>a DEF ToolStarts, RestTyped
  <2>2. GoodTool(tool')
    BY <1>4, <1>a, OffIsGood DEF ToolStarts
  <2>3. GoodSweep(sweep')
    BY <1>4, <1>a, SavedIsGood DEF ToolStarts
  <2> QED  BY <2>1, <2>2, <2>3, RestMoves
<1>5. CASE ToolFindsCompleted
  <2>1. RestTyped' /\ UNCHANGED secret
    BY <1>5, <1>a DEF ToolFindsCompleted, RestTyped
  <2>2. GoodTool(tool') /\ GoodSweep(sweep')
    BY <1>5, <1>a, OffIsGood DEF ToolFindsCompleted
  <2> QED  BY <2>1, <2>2, RestMoves
<1>6. CASE ToolReadsPage
  BY <1>6, ReadsKeeps
<1>7. CASE ToolPassesUnopenable
  <2>1. RestTyped' /\ UNCHANGED <<secret, sweep>>
    BY <1>7, <1>a DEF ToolPassesUnopenable, RestTyped
  <2>2. tool' = [Past(Head(tool.page)) EXCEPT !.unopenable = tool.unopenable + 1]
    BY <1>7, <1>a, PastIsGood DEF ToolPassesUnopenable
  <2>3. GoodTool(tool')
    BY <1>7, <1>a, <2>2, PastIsGood DEF ToolPassesUnopenable
  <2> QED  BY <1>a, <2>1, <2>3, RestMoves
<1>8. CASE ToolWritesRow
  <2>1. tool.page # <<>> /\ tool' = Past(Head(tool.page))
        /\ secret' = [secret EXCEPT ![Head(tool.page).id] = [version |-> 2, opens |-> TRUE]]
        /\ UNCHANGED <<source, fresh, sweep, exit, late, faults>>
    BY <1>8 DEF ToolWritesRow, Writable
  <2>2. Head(tool.page).id \in Id /\ GoodTool(tool')
    BY <1>a, <2>1, PastIsGood
  <2>3. late' \subseteq Id
    BY <1>a, <2>1 DEF RestTyped
  <2> QED  BY <2>1, <2>2, <2>3, WritesStored, RowMoves
<1>9. CASE ToolFailsToWrite
  <2>1. RestTyped' /\ UNCHANGED secret
    BY <1>9, <1>a, <1>b DEF ToolFailsToWrite, RestTyped
  <2>2. GoodTool(tool') /\ GoodSweep(sweep')
    BY <1>9, <1>a, OffIsGood, SavedIsGood DEF ToolFailsToWrite
  <2> QED  BY <2>1, <2>2, RestMoves
<1>10. CASE ToolSavesBatch
  <2>1. RestTyped' /\ UNCHANGED secret
    BY <1>10, <1>a DEF ToolSavesBatch, RestTyped
  <2>2. GoodSweep(sweep')
    BY <1>10, <1>a, SavedIsGood DEF ToolSavesBatch
  <2>3. GoodTool(tool')
    BY <1>10, <1>a DEF ToolSavesBatch, GoodTool, ToolShape
  <2> QED  BY <2>1, <2>2, <2>3, RestMoves
<1>11. CASE ToolExits
  <2>1. RestTyped' /\ UNCHANGED secret
    BY <1>11, <1>a DEF ToolExits, RestTyped
  <2>2. GoodTool(tool') /\ GoodSweep(sweep')
    BY <1>11, <1>a, OffIsGood DEF ToolExits
  <2> QED  BY <2>1, <2>2, RestMoves
<1>12. CASE ToolKilled
  <2>1. RestTyped' /\ UNCHANGED secret
    BY <1>12, <1>a, <1>b DEF ToolKilled, RestTyped
  <2>2. GoodTool(tool') /\ GoodSweep(sweep')
    BY <1>12, <1>a, OffIsGood DEF ToolKilled
  <2> QED  BY <2>1, <2>2, RestMoves
<1>13. CASE Compromise
  <2>1. RestTyped'
    BY <1>13, <1>a DEF Compromise, RestTyped
  <2> QED  BY <1>13, <1>a, <2>1, RestMoves DEF Compromise
<1>14. CASE UNCHANGED vars
  <2>1. RestTyped'
    BY <1>14, <1>a DEF vars, RestTyped
  <2> QED  BY <1>14, <1>a, <2>1, RestMoves DEF vars
<1> QED
  BY <1>1, <1>2, <1>3, <1>4, <1>5, <1>6, <1>7, <1>8, <1>9, <1>10, <1>11, <1>12, <1>13, <1>14
  DEF Next, ToolSteps

\* The counts hold in every reachable state.
LEMMA CountsInvariant == Spec => []CountsInv
BY CountsInit, CountsStep, PTL DEF Spec

\* In every reachable state what the tables, the tool and the operator hold is of its
\* type.  No count passes the number of rows that cannot be opened, however often the
\* tool was killed and resumed: a row that was counted lies behind the cursor that was
\* saved with the count (rotate-vault-key.ts, saveSweep).
THEOREM KeyRotationTyped == Spec => []KeyRotationTypeOK
<1>1. CountsInv => KeyRotationTypeOK
  <2> SUFFICES ASSUME CountsInv PROVE KeyRotationTypeOK
    OBVIOUS
  <2>1. tool \in ToolShape /\ Len(tool.page) <= Batch /\ tool.unopenable <= Below(tool.cursor)
    BY DEF CountsInv, GoodTool, PageAhead
  <2>2. tool.unopenable \in 0 .. Cardinality(Broken)
    BY <2>1, BelowCounts DEF ToolShape
  <2>3. sweep \in SweepShape /\ sweep.unopenable <= Below(sweep.cursor)
    BY DEF CountsInv, GoodSweep
  <2>4. sweep.unopenable \in 0 .. Cardinality(Broken)
    BY <2>3, BelowCounts DEF SweepShape
  <2>5. tool \in Tool /\ sweep \in Sweep
    BY <2>1, <2>2, <2>3, <2>4 DEF ToolShape, Tool, SweepShape, Sweep
  <2> QED  BY <2>1, <2>5 DEF CountsInv, RowsTyped, RestTyped, KeyRotationTypeOK
<1> QED  BY <1>1, CountsInvariant, PTL

-------------------------------------------------------------------------------
(***************************************************************************)
(* What the exit code proves                                               *)
(***************************************************************************)

\* Nothing comes to be under key 1 by a step of the tool, nor by a process that seals
\* under key 2; and the tool starts the history anew only over no row at all.
LEMMA ProvesStep == CountsInv /\ ExitZeroProves /\ [Next]_vars => ExitZeroProves'
<1> SUFFICES ASSUME CountsInv, ExitZeroProves, [Next]_vars PROVE ExitZeroProves'
  OBVIOUS
<1>1. secret \in [Id -> Stored]
  BY DEF CountsInv, RowsTyped
<1>2. ASSUME UNCHANGED <<secret, late>> PROVE ExitZeroProves'
  BY <1>2 DEF ExitZeroProves, AtVersion
<1>3. ASSUME NEW s \in Id, NEW v \in Stored, secret' = [secret EXCEPT ![s] = v],
             late \subseteq late', v.version = 1 => s \in late'
      PROVE  ExitZeroProves'
  <2>1. \A x \in Id : secret'[x] = IF x = s THEN v ELSE secret[x]
    BY <1>1, <1>3
  <2> QED  BY <1>3, <2>1 DEF ExitZeroProves, AtVersion
<1>4. ASSUME NEW p \in Api, NEW s \in Id, StoreSecret(p, s) PROVE ExitZeroProves'
  <2>1. PICK v \in Stored :
           /\ v.version = SealingVersion(p)
           /\ secret' = [secret EXCEPT ![s] = v]
    <3>1. SealingVersion(p) \in {1, 2}
      BY DEF SealingVersion
    <3> QED  BY <1>4, <3>1, WritesStored DEF StoreSecret
  <2>2. late \subseteq late' /\ (SealingVersion(p) = 1 => s \in late')
    BY <1>4 DEF StoreSecret
  <2> QED  BY <1>3, <2>1, <2>2
<1>5. ASSUME NEW s \in Id, DeleteSecret(s) PROVE ExitZeroProves'
  <2>1. Absent \in Stored /\ Absent.version # 1
    BY WritesStored
  <2>2. secret' = [secret EXCEPT ![s] = Absent] /\ UNCHANGED late
    BY <1>5 DEF DeleteSecret
  <2> QED  BY <1>3, <2>1, <2>2
<1>6. CASE ToolWritesRow
  <2>1. Head(tool.page).id \in Id
    BY <1>6, PastIsGood DEF ToolWritesRow, Writable, CountsInv
  <2>2. PICK v \in Stored : v = [version |-> 2, opens |-> TRUE] /\ v.version # 1
    BY WritesStored
  <2>3. secret' = [secret EXCEPT ![Head(tool.page).id] = v] /\ UNCHANGED late
    BY <1>6, <2>2 DEF ToolWritesRow
  <2> QED  BY <1>3, <2>1, <2>2, <2>3
<1>7. CASE ToolExits
  <2>1. UNCHANGED secret /\ (late' = late \/ AtVersion(1) = {})
    BY <1>7 DEF ToolExits
  <2> QED  BY <2>1 DEF ExitZeroProves, AtVersion
<1> QED
  BY <1>2, <1>4, <1>5, <1>6, <1>7
  DEF Next, ToolSteps, Boot, Install, ToolStarts, ToolFindsCompleted, ToolReadsPage,
      ToolPassesUnopenable, ToolFailsToWrite, ToolSavesBatch, ToolKilled, Compromise, vars

\* Exit code 0 is proof: whatever is under key 1 was stored after the tool last exited
\* with it, by a process without key 2, however often the tool was killed and resumed
\* before and whatever the processes stored under it (rotate-vault-key.ts, the count
\* that follows every sweep).
THEOREM KeyRotationExitProves == Spec => []ExitZeroProves
<1>1. Init => ExitZeroProves
  BY DEF Init, ExitZeroProves, AtVersion
<1> QED  BY <1>1, ProvesStep, CountsInvariant, PTL DEF Spec
===============================================================================

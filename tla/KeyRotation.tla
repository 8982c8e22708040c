----------------------------- MODULE KeyRotation -----------------------------
(***************************************************************************)
(* Moving one sealed field, Secret.valueEnc, from vault key 1 to vault key *)
(* 2 with apps/api/src/scripts/rotate-vault-key.ts while the API goes on   *)
(* writing secrets.  It begins where the operator has registered key 2 as  *)
(* ACTIVE and moved key 1 to READABLE: a process keeps the keyring of its  *)
(* boot (apps/api/src/lib/vault.ts, installKeyringAtBoot), so one that has *)
(* not been restarted still seals under key 1, and so does one that boots  *)
(* until it has loaded its keyring.                                        *)
(*                                                                         *)
(* The tool reads a page of rows, re-seals what it read and writes row by  *)
(* row; nothing holds the rows in between, and it can die at any step.     *)
(***************************************************************************)
EXTENDS Naturals, Sequences, FiniteSets

CONSTANTS
    Rows,       \* how many Secret ids there are: 1 .. Rows, in id order
    Api,        \* the API processes
    Stale,      \* those not restarted since key 2 was registered, at first
    Broken,     \* rows that no key of the deployment opens
    Batch,      \* BATCH_SIZE
    MaxFaults   \* writes that fail, tools that are killed

ASSUME KeyRotationAssumption ==
    /\ Rows \in Nat /\ Batch \in Nat \ {0} /\ MaxFaults \in Nat
    /\ IsFiniteSet(Api) /\ Stale \subseteq Api
    /\ Broken \subseteq 1 .. Rows

VARIABLES
    secret,   \* the Secret rows: the version of the key, and whether it opens
    source,   \* VaultKey.state of version 1
    fresh,    \* API processes whose keyring has key 2
    sweep,    \* the KeyRotationSweep row
    tool,     \* the rotation tool
    exit,     \* what the last run of the tool said
    late,     \* history: rows stored under key 1 since it last exited with 0;
              \* all, as long as it has not
    faults

vars == <<secret, source, fresh, sweep, tool, exit, late, faults>>

Id == 1 .. Rows
Absent == [version |-> 0, opens |-> FALSE]

Stored == {Absent} \cup [version : {1, 2}, opens : BOOLEAN]
Sweep == [state : {"none", "RUNNING", "FAILED", "COMPLETED"}, cursor : 0 .. Rows,
          unopenable : 0 .. Cardinality(Broken)]

\* A row as the tool holds it in memory after reading the page.
Read == [id : Id, opens : BOOLEAN]
Tool == [phase : {"off", "page", "rows", "count"}, cursor : 0 .. Rows,
         unopenable : 0 .. Cardinality(Broken), page : Seq(Read)]

KeyRotationTypeOK ==
    /\ secret \in [Id -> Stored]
    /\ source \in {"READABLE", "COMPROMISED"}
    /\ fresh \in SUBSET Api
    /\ sweep \in Sweep
    /\ tool \in Tool /\ Len(tool.page) <= Batch
    /\ exit \in {"none", "ok", "incomplete"}
    /\ late \subseteq Id
    /\ faults \in 0 .. MaxFaults
-------------------------------------------------------------------------------
(***************************************************************************)
(* The API                                                                 *)
(***************************************************************************)

\* decideSeal: the one ACTIVE key of the keyring the process booted with.
SealingVersion(p) == IF p \in fresh THEN 2 ELSE 1

\* A new row has an id of its own, and not that of a row the tool has read.
StoreSecret(p, s) ==
    /\ secret[s] # Absent \/ \A i \in DOMAIN tool.page : tool.page[i].id # s
    /\ secret' = [secret EXCEPT ![s] = [version |-> SealingVersion(p), opens |-> TRUE]]
    /\ late' = IF SealingVersion(p) = 1 THEN late \cup {s} ELSE late
    /\ UNCHANGED <<source, fresh, sweep, tool, exit, faults>>

DeleteSecret(s) ==
    /\ secret[s] # Absent
    /\ secret' = [secret EXCEPT ![s] = Absent]
    /\ UNCHANGED <<source, fresh, sweep, tool, exit, late, faults>>

\* The server listens before its keyring is loaded, and when loading it fails: it
\* has the implicit keyring of one key, version 1.
Boot(p) ==
    /\ p \in fresh
    /\ fresh' = fresh \ {p}
    /\ UNCHANGED <<secret, source, sweep, tool, exit, late, faults>>

\* installKeyringAtBoot, of a process that booted since key 2 was registered.
Install(p) ==
    /\ p \notin fresh
    /\ fresh' = fresh \cup {p}
    /\ UNCHANGED <<secret, source, sweep, tool, exit, late, faults>>
-------------------------------------------------------------------------------
(***************************************************************************)
(* The tool: sweep --field Secret.valueEnc --from 1 --to 2 --confirm       *)
(***************************************************************************)

Off == [phase |-> "off", cursor |-> 0, unopenable |-> 0, page |-> <<>>]
AtVersion(version) == {s \in Id : secret[s].version = version}

\* saveSweep writes every column of the row.
Saved(state, cursor, unopenable) ==
    [state |-> state, cursor |-> cursor, unopenable |-> unopenable]

\* A slip: the counts are resumed and the cursor is not.
ToolStartsOver ==
    /\ tool.phase = "off" /\ source # "COMPROMISED" /\ sweep.state # "COMPLETED"
    /\ sweep' = Saved("RUNNING", 0, sweep.unopenable)
    /\ tool' = [Off EXCEPT !.phase = "page", !.unopenable = sweep.unopenable]
    /\ exit' = "none"
    /\ UNCHANGED <<secret, source, fresh, late, faults>>

\* canSweep, and a sweep that is not COMPLETED resumes from the saved cursor.
ToolStarts ==
    /\ tool.phase = "off" /\ source # "COMPROMISED" /\ sweep.state # "COMPLETED"
    /\ sweep' = Saved("RUNNING", sweep.cursor, sweep.unopenable)
    /\ tool' = [phase |-> "page", cursor |-> sweep.cursor, unopenable |-> sweep.unopenable,
                page |-> <<>>]
    /\ exit' = "none"
    /\ UNCHANGED <<secret, source, fresh, late, faults>>

\* A COMPLETED sweep is not restarted: only the count is taken again.
ToolFindsCompleted ==
    /\ tool.phase = "off" /\ source # "COMPROMISED" /\ sweep.state = "COMPLETED"
    /\ tool' = [Off EXCEPT !.phase = "count"]
    /\ exit' = "none"
    /\ UNCHANGED <<secret, source, fresh, sweep, late, faults>>

Remaining == {s \in AtVersion(1) : s > tool.cursor}

\* What the query may return: the first Batch of the remaining rows, by their id.
Pages ==
    LET size == IF Cardinality(Remaining) > Batch THEN Batch ELSE Cardinality(Remaining)
        Ordered(ids) == \A i \in 1 .. size, s \in Remaining :
                           (s < ids[i]) <=> (\E j \in 1 .. i - 1 : ids[j] = s)
    IN  {ids \in [1 .. size -> Remaining] : Ordered(ids)}

ToolReadsPage ==
    /\ tool.phase = "page"
    /\ \/ /\ Remaining # {}
          /\ \E ids \in Pages :
                tool' = [tool EXCEPT !.phase = "rows",
                                     !.page = [i \in DOMAIN ids |->
                                                 [id |-> ids[i], opens |-> secret[ids[i]].opens]]]
          /\ UNCHANGED sweep
       \/ /\ Remaining = {}
          /\ tool' = [tool EXCEPT !.phase = "count"]
          /\ sweep' = Saved(IF tool.unopenable > 0 THEN "FAILED" ELSE "COMPLETED",
                            tool.cursor, tool.unopenable)
    /\ UNCHANGED <<secret, source, fresh, exit, late, faults>>

Past(row) == [tool EXCEPT !.page = Tail(@), !.cursor = row.id]

\* resealSecret refuses what it cannot open: the row stays as it is and is counted.
ToolPassesUnopenable ==
    /\ tool.phase = "rows" /\ tool.page # <<>> /\ ~Head(tool.page).opens
    /\ tool' = [Past(Head(tool.page)) EXCEPT !.unopenable = @ + 1]
    /\ UNCHANGED <<secret, source, fresh, sweep, exit, late, faults>>

Writable == tool.phase = "rows" /\ tool.page # <<>> /\ Head(tool.page).opens

\* The update by id: ciphertext and version in one statement.  It is what was read,
\* whatever the row holds by now: it opens, and may be a value since replaced.
ToolWritesRow ==
    /\ Writable
    /\ LET row == Head(tool.page) IN
          /\ secret[row.id] # Absent
          /\ secret' = [secret EXCEPT ![row.id] = [version |-> 2, opens |-> TRUE]]
          /\ tool' = Past(row)
    /\ UNCHANGED <<source, fresh, sweep, exit, late, faults>>

\* A slip: the cursor that is saved is past the row that was not written.
ToolFailsToWritePast ==
    /\ Writable
    /\ \/ secret[Head(tool.page).id] = Absent /\ UNCHANGED faults
       \/ faults < MaxFaults /\ faults' = faults + 1
    /\ sweep' = Saved("FAILED", Head(tool.page).id, tool.unopenable)
    /\ tool' = [Off EXCEPT !.phase = "count"]
    /\ UNCHANGED <<secret, source, fresh, exit, late>>

\* The row is gone, or the database fails: FAILED, with a cursor before the row.
ToolFailsToWrite ==
    /\ Writable
    /\ \/ secret[Head(tool.page).id] = Absent /\ UNCHANGED faults
       \/ faults < MaxFaults /\ faults' = faults + 1
    /\ sweep' = Saved("FAILED", tool.cursor, tool.unopenable)
    /\ tool' = [Off EXCEPT !.phase = "count"]
    /\ UNCHANGED <<secret, source, fresh, exit, late>>

ToolSavesBatch ==
    /\ tool.phase = "rows" /\ tool.page = <<>>
    /\ sweep' = Saved("RUNNING", tool.cursor, tool.unopenable)
    /\ tool' = [tool EXCEPT !.phase = "page"]
    /\ UNCHANGED <<secret, source, fresh, exit, late, faults>>

\* A slip: COMPLETED is taken at its word.
ToolExitsTrusting ==
    /\ tool.phase = "count"
    /\ exit' = IF sweep.state = "COMPLETED" THEN "ok" ELSE "incomplete"
    /\ late' = IF exit' = "ok" THEN {} ELSE late
    /\ tool' = Off
    /\ UNCHANGED <<secret, source, fresh, sweep, faults>>

\* The exit code: COMPLETED is checked against the rows that are left now.
ToolExits ==
    /\ tool.phase = "count"
    /\ exit' = IF sweep.state = "COMPLETED" /\ AtVersion(1) = {} THEN "ok" ELSE "incomplete"
    /\ late' = IF exit' = "ok" THEN {} ELSE late
    /\ tool' = Off
    /\ UNCHANGED <<secret, source, fresh, sweep, faults>>

ToolKilled ==
    /\ tool.phase # "off" /\ faults < MaxFaults
    /\ tool' = Off
    /\ faults' = faults + 1
    /\ UNCHANGED <<secret, source, fresh, sweep, exit, late>>
-------------------------------------------------------------------------------
(***************************************************************************)
(* The operator                                                            *)
(***************************************************************************)

\* compromise --version 1 --confirm: nothing is asked of the rows, the processes or
\* the tool, which may be sweeping.
Compromise ==
    /\ source # "COMPROMISED"
    /\ source' = "COMPROMISED"
    /\ UNCHANGED <<secret, fresh, sweep, tool, exit, late, faults>>

Init ==
    /\ \E stored \in SUBSET Id :
          /\ Broken \subseteq stored
          /\ secret = [s \in Id |-> IF s \in stored THEN [version |-> 1, opens |-> s \notin Broken]
                                    ELSE Absent]
    /\ source = "READABLE"
    /\ fresh = Api \ Stale
    /\ sweep = Saved("none", 0, 0)
    /\ tool = Off
    /\ exit = "none"
    /\ late = Id
    /\ faults = 0

ToolSteps ==
    \/ ToolStarts \/ ToolFindsCompleted \/ ToolReadsPage \/ ToolPassesUnopenable
    \/ ToolWritesRow \/ ToolFailsToWrite \/ ToolSavesBatch \/ ToolExits

Next ==
    \/ \E p \in Api, s \in Id : StoreSecret(p, s)
    \/ \E s \in Id : DeleteSecret(s)
    \/ \E p \in Api : Boot(p) \/ Install(p)
    \/ ToolSteps \/ ToolKilled
    \/ Compromise

Spec == Init /\ [][Next]_vars

\* The operator runs the tool again until it exits with 0, and it gets on.
Fairness ==
    /\ WF_vars(exit # "ok" /\ ToolStarts) /\ WF_vars(exit # "ok" /\ ToolFindsCompleted)
    /\ WF_vars(ToolReadsPage) /\ WF_vars(ToolPassesUnopenable)
    /\ WF_vars(ToolWritesRow \/ ToolFailsToWrite)
    /\ WF_vars(ToolSavesBatch) /\ WF_vars(ToolExits)

FairSpec == Spec /\ Fairness
-------------------------------------------------------------------------------
(***************************************************************************)
(* Properties                                                              *)
(***************************************************************************)

\* Exit code 0 is proof, however the tool was killed and resumed before: what is
\* under key 1 was stored afterwards, by a process without key 2.  `compromise`
\* checks nothing: an operator who waits for the 0 and has key 2 in every process
\* from then on has no row broken by it, and no one else is promised that.
ExitZeroProves == AtVersion(1) \subseteq late

\* If every process has key 2 from the tool's first run on, key 1 is not given up
\* before, and no row turns out unopenable, the tool ends by proving that key 1 may
\* go: kills, failed writes and rows deleted under it cost another run and no more
\* ("a killed process leaves a RESUMABLE sweep").
SweepProvesIt ==
    (/\ [](sweep.state # "none" => fresh = Api)
     /\ [](source # "COMPROMISED")
     /\ [](tool.unopenable + sweep.unopenable = 0)) => <>(exit = "ok")
===============================================================================

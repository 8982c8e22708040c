SPECIFICATION RunSpec
CONSTANTS
    j1 = j1
    j2 = j2
    w1 = w1
    w2 = w2
    s1 = s1
    s2 = s2
    r1 = r1
    NoJob = NoJob
    NoRunner = NoRunner
    NoRun = NoRun
    Job = {j1, j2}
    Run = {r1}
    Runner = {w1, w2}
    Sweeper = {s1}
    RunOf <- OneRun
    Rank <- QueueOrder
    Take = 2
    MaxAttempts = 1
    MaxClaims = 1
    MaxCalls = 1
    Outcomes = {}
    Completions = {"COMPLETED"}
    Events = {"grace", "silent"}
SYMMETRY Runners
INVARIANTS StartsOnce NeverGreenUntested
PROPERTIES TerminalIsFinal
CHECK_DEADLOCK FALSE

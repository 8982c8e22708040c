SPECIFICATION FairSpec
CONSTANTS
    i1 = i1
    i2 = i2
    e1 = e1
    e2 = e2
    e3 = e3
    t1 = t1
    t2 = t2
    Slice = {i1, i2}
    Whole = i1
    Exec = {e1, e2, e3}
    SliceOf <- Carries
    Test = {t1, t2}
    PartOf <- SliceOfTest
    Results = {"FAILED"}
    Mortal = {e1}
    Slow = {}
    Gates = {"PASSED"}
    Refusals <- Refusing
    Sweep = Sweep
    Events = {"throw", "stop"}
PROPERTIES ShardedRunReports
CHECK_DEADLOCK FALSE

SPECIFICATION Spec
CONSTANTS
    i1 = i1
    i2 = i2
    e1 = e1
    e2 = e2
    e3 = e3
    t1 = t1
    t2 = t2
    Slice = {i1, i2}
    Whole = i1
    Exec = {e1, e2, e3}
    SliceOf <- Carries
    Test = {t1, t2}
    PartOf <- SliceOfTest
    Results = {"PASSED"}
    Mortal = {}
    Slow = {e1}
    Gates = {"PASSED"}
    Refusals <- Refusing
    Sweep = Sweep
    Events = {"cancel", "sweepdie", "lostclaim"}
INVARIANTS CloudTypeOK FinalisedWhenAllDone NeverGreenUnexecuted
PROPERTIES ReportSpec
CHECK_DEADLOCK FALSE

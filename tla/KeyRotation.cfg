SPECIFICATION FairSpec
CONSTANTS
    a1 = a1
    a2 = a2
    Rows = 4
    Api = {a1, a2}
    Stale = {a1}
    Broken = {2}
    Batch = 2
    MaxFaults = 2
INVARIANTS KeyRotationTypeOK ExitZeroProves
PROPERTIES SweepProvesIt

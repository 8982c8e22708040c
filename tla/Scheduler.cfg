SPECIFICATION FairSpec
CONSTANTS
    s1 = s1
    s2 = s2
    r1 = r1
    hourly = hourly
    typo = typo
    Schedule = {s1, s2}
    Request = {r1}
    Every <- MCEvery
    Cap = 1
    MaxTime = 3
    MaxFaults = 1
INVARIANTS SchedulerTypeOK OverCapOnlyByRaces
PROPERTIES FiresOnce NoneStaysDue

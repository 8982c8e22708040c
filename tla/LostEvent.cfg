SPECIFICATION Spec
CONSTANTS
    d1 = d1
    d2 = d2
    Delivery = {d1, d2}
    Price = {"TEAM", "unknown"}
    MaxEvents = 1
    MaxRepeats = 1
    MaxFaults = 1
    Faults = {"throw"}
INVARIANTS AnsweredIsRecorded
CHECK_DEADLOCK FALSE

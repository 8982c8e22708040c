SPECIFICATION Spec
CONSTANTS
    d1 = d1
    d2 = d2
    Delivery = {d1, d2}
    Price = {"TEAM", "unknown"}
    MaxEvents = 3
    MaxRepeats = 1
    MaxFaults = 1
    Faults = {"throw", "die"}
SYMMETRY Deliveries
INVARIANTS BillingTypeOK MailedOnce PlanIsNewest DunningIsNewest PlanMovesAudited
CHECK_DEADLOCK FALSE

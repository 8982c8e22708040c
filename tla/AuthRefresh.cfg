SPECIFICATION FairSpec
CONSTANTS
    p1 = p1
    p2 = p2
    t1 = t1
    t2 = t2
    Profile = {p1}
    Tick = {t1, t2}
    MaxFailures = 2
    Take = 1
    Writers = {"run", "person"}
    Brakes = {"OBSERVE", "ENFORCE"}
INVARIANTS AuthRefreshTypeOK CapHolds CarriedOnItsOwnExpiry
PROPERTIES DueIsRefreshed ArmedPlaintextGoes

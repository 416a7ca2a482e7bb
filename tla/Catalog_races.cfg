CONSTANTS
    t1 = t1
    t2 = t2
    c1 = c1
    c2 = c2
    NoClaim = NoClaim
    Tasks = {t1, t2}
    ClaimIds = {c1, c2}
    ClaimTypes = {"DEFECTIVE"}
    TotalCents = 3
    Amounts = {1}
    Faults = {"stripe", "timeout", "db", "decline"}
SPECIFICATION FairSpec
INVARIANTS BookedIsRefunded
PROPERTY ChargeIsSeen
CHECK_DEADLOCK FALSE

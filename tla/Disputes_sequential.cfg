CONSTANTS
    t1 = t1
    t2 = t2
    d1 = d1
    d2 = d2
    c1 = c1
    NoDispute = NoDispute
    NoChargeback = NoChargeback
    Tasks = {t1}
    Claims = {"WRONG_ORDER", "FOOD_POISONING", "ALLERGEN_FALSE_DECLARATION"}
    DisputeIds = {d1, d2}
    Chargebacks = {c1}
    HasDelivery = FALSE
    MaxStrikes = 2
    Faults = {"stripe"}
SPECIFICATION FairSpec
PROPERTY PendingEarningSettles
CHECK_DEADLOCK FALSE


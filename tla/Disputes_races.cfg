CONSTANTS
    t1 = t1
    t2 = t2
    d1 = d1
    d2 = d2
    c1 = c1
    NoDispute = NoDispute
    NoChargeback = NoChargeback
    Tasks = {t1, t2}
    Claims = {"NEVER_RECEIVED", "SPOILED_FOOD"}
    DisputeIds = {d1, d2}
    Chargebacks = {c1}
    HasDelivery = TRUE
    MaxStrikes = 0
    Faults = {"db"}
SPECIFICATION Spec
INVARIANTS NoRefundWithoutClaim
PROPERTY AdminDecisionKept
CHECK_DEADLOCK FALSE
SYMMETRY Symm

CONSTANTS
    t1 = t1
    t2 = t2
    s1 = s1
    s2 = s2
    Tasks = {t1, t2}
    NoArg = NoArg
    Null = Null
    MaxNow = 1
    NoEnd = NoEnd
    SubIds = {s1, s2}
    NoSub = NoSub
    Entitlements = {"seller_premium"}
    PeriodTypes = {"TRIAL"}
    Dated = {TRUE, FALSE}
    Focuses = {"requests", "subscriptions", "store"}
    Hints <- MCHints
    MaxEvents = 2
SPECIFICATION MCSpec
PROPERTIES ImplementsPaidAccess PaidSellerRestored
CHECK_DEADLOCK FALSE

SPECIFICATION MCSpec
CONSTANTS
    t1 = t1
    t2 = t2
    d1 = d1
    d2 = d2
    NoDriver = NoDriver
    Tasks = {t1, t2}
    Drivers = {d1, d2}
    MaxDeliveries = 2
    InitialPortions = 0
    Quantity = 1
    Faults = {}
    MaxOverlaps = 1
SYMMETRY Symm
INVARIANTS
    PaidBeforeSeller
    CustodyChain
    SellerPaidOnlyAfterHandover
    DriverPaidOnlyForOwnTrip
PROPERTIES
    ClaimExclusive
    LedgerMonotone
CHECK_DEADLOCK FALSE

SPECIFICATION FairSpec
CONSTANTS
    t1 = t1
    t2 = t2
    u1 = u1
    k1 = k1
    k2 = k2
    l1 = l1
    l2 = l2
    o1 = o1
    o2 = o2
    o3 = o3
    NoCart = NoCart
    NoUser = NoUser
    NoKey = NoKey
    NoOrder = NoOrder
    Tasks = {t1, t2}
    Users = {u1}
    Keys = {k1, k2}
    Listings = {l1, l2}
    CookToOrder = {}
    Carts <- CrossedCarts
    InitialPortions = 2
    OrderIds = {o1, o2}
    MaxCustomers = 2
    Faults = {"db", "stripe"}
PROPERTIES
    RequestsEnd
INVARIANTS StockConserved OneChargePerKey
CHECK_DEADLOCK FALSE

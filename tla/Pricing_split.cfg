SPECIFICATION Spec
CONSTANTS
    DeliveryFeeCents = 500
    PlatformBuyerFeeBps = 500
    UnitPrices = {1, 49, 450}
    Quantities = {1, 3}
    MaxSubtotal = 1200
INVARIANTS
    SplitReconciles
CHECK_DEADLOCK FALSE

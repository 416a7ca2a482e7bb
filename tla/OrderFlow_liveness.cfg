SPECIFICATION FairSpec
CONSTANTS
    t1 = t1
    d1 = d1
    d2 = d2
    NoDriver = NoDriver
    Tasks = {t1}
    Drivers = {d1, d2}
    MaxDeliveries = 2
    InitialPortions = 0
    Quantity = 1
    Faults = {"redis"}
INVARIANTS
    CancelledSaleIsRefunded
PROPERTIES
    PaymentEventuallySeen
    DeliveryResolves
    SearchEnds
CHECK_DEADLOCK FALSE

CONSTANTS
    t1 = t1
    t2 = t2
    i1 = i1
    i2 = i2
    e1 = e1
    e2 = e2
    p1 = p1
    p2 = p2
    ulysse = ulysse
    solene = solene
    dario = dario
    doc1 = doc1
    doc2 = doc2
    v0 = v0
    v1 = v1
    v2 = v2
    c1 = c1
    c2 = c2
    m1 = m1
    m2 = m2
    j1 = j1
    j2 = j2
    Trips = {j1, j2}
    Guest <- MCGuest
    Couriers = {dario}
    MaxFixes = 2
    MaxTokens = 3
    Reporters = {ulysse}
    Dishes = {"dish"}
    Accused = {"seller"}
    MaxReports = 2
    Tasks = {t1, t2}
    NoArg = NoArg
    Null = Null
    Ids = {i1, i2}
    Emails = {e1, e2}
    Phones = {p1, p2}
    UserRoles = {"SELLER"}
    AddressIds = {"a1", "a2"}
    Points = {"here", "there"}
    AddressRoles = {"SELLER", "BUYER"}
    Users = {ulysse, solene, dario}
    Devices = {"phone", "tablet"}
    Documents = {doc1, doc2}
    Versions = {v1, v2}
    FallbackVersion = v0
    Buyer = ulysse
    Seller = solene
    Drivers = {dario}
    Conversations = {c1, c2}
    MessageIds = {m1, m2}
    Areas = {"phones", "mail", "addresses", "push", "legal", "reports", "chat", "map", "codes"}
SPECIFICATION MCSpec
SYMMETRY MCSymmetry
INVARIANTS VerifiedPhoneWasProven ConfirmedPhoneMirrored PickupMirrored DeviceFollowsLogin TermsInForce UnreadCountsUnseen OneThreadUnlessRivals BuyerFollowsOwnTrip ShownCodeOpens
CHECK_DEADLOCK FALSE

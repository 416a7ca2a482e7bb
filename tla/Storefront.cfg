CONSTANTS
    t1 = t1
    t2 = t2
    i1 = i1
    i2 = i2
    i3 = i3
    o1 = o1
    o2 = o2
    o3 = o3
    l1 = l1
    Tasks = {t1, t2}
    NoArg = NoArg
    MaxNow = 1
    NoEnd = NoEnd
    SubIds = {}
    NoSub = NoSub
    Entitlements = {"seller_premium"}
    PeriodTypes = {"NORMAL"}
    Dated = {TRUE}
    Hints = {}
    MaxEvents = 2
    Incidents = {i1, i2, i3}
    Points <- MCPoints
    MaxRows = 2
    Orders = {o1, o2, o3}
    Ratings = {2, 5}
    RatingMinReviews = 2
    NoReview = NoReview
    Roles = {"SELLER", "DRIVER"}
    SellerCategories = {"FAIT_MAISON", "RESTAURANT"}
    DocTypes = {"ID_FRONT", "ID_BACK", "SELFIE"}
    IdTypes = {"CARTE_IDENTITE"}
    Vehicles = {"CAR", "BIKE"}
    MaxReviewers = 1
    ListingIds = {l1}
    Drafts <- MCDrafts
    Edits <- MCEdits
    Null = Null
SPECIFICATION MCSpec
INVARIANTS SuspensionRulesApplied KycFollowsReviews CompleteMeansCanTrade CategoryShapeKept ShownIsOrderable
CHECK_DEADLOCK FALSE

CONSTANTS
    f1 = f1
    o1 = o1
    o2 = o2
    p1 = p1
    p2 = p2
    Future = {f1}
    Order = {o1, o2}
    OFuture = {p1, p2}
    None = None
    FirstId = 2
    MaxRequests = 1
    MaxRows = 1
    Kinds = {"symbols"}
    OrderIds = {1, 2}
    GivenIds = {2}
    MaxListings = 2
SPECIFICATION OrdersSpec
SYMMETRY Symmetry
CHECK_DEADLOCK FALSE
CONSTRAINT ListingApart
INVARIANTS
    OrderRouting
    NoOrderForgotten
    NoOrderLeftWaiting
    CallsBesideOrders
    OrdersMisfireCause

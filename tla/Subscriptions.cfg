CONSTANTS
    m1 = m1
    d1 = d1
    b1 = b1
    t1 = t1
    Market = {m1}
    Depth = {d1}
    Bars = {b1}
    Ticks = {t1}
    None = None
    MaxRequests = 3
    MaxListeners = 2
SPECIFICATION FairSpec
CONSTRAINT UntilStopped
CHECK_DEADLOCK FALSE
INVARIANTS
    Routed
    NoStreamLeaks
    HandlersServed
    OnlyStrayDepthRaises
PROPERTIES
    SubscriptionsSettle

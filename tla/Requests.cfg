CONSTANTS
    f1 = f1
    f2 = f2
    Future = {f1, f2}
    None = None
    FirstId = 7
    MaxRequests = 2
    MaxRows = 2
    Kinds = {"symbols", "history", "executions", "details"}
SPECIFICATION FairSpec
CHECK_DEADLOCK FALSE
INVARIANTS
    NoOneLeftWaiting
    ResultMatchesRows
    MisfireCause
    CancelJustified
PROPERTIES
    KeepsPromise
    EventuallySettled

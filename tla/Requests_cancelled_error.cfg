CONSTANTS
    f1 = f1
    Future = {f1}
    None = None
    FirstId = 7
    MaxRequests = 1
    MaxRows = 1
    Kinds = {"history"}
SPECIFICATION Spec
CHECK_DEADLOCK FALSE
INVARIANT LoopSurvivesErrors

SPECIFICATION FairSpec
CONSTANTS
    Handler = {h1, h2}
    Dummy = Dummy
    MaxFutures = 2
    MaxRows = 1
    MaxConnects = 2
CHECK_DEADLOCK FALSE
INVARIANTS
    StreamMatches
PROPERTIES
    SharedFutureKept
    CallersAnswered
    DummyGoes

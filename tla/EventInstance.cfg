CONSTANTS
    h1 = h1
    h2 = h2
    Handler = {h1, h2}
    MaxRefs = 2
    MaxDepth = 2
SPECIFICATION FairSpec
CHECK_DEADLOCK FALSE
INVARIANTS
    NoStrayStream
    ConsumersServed
PROPERTIES
    AbandonedStreamCloses

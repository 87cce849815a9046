CONSTANT MaxCalls = 5
SPECIFICATION TimeFairSpec
CHECK_DEADLOCK FALSE
INVARIANTS
    MisfireCause
PROPERTIES
    EachCallAnswered

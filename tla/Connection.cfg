CONSTANTS
    MaxConnects = 2
    MaxMessages = 2
SPECIFICATION FairSpec
CHECK_DEADLOCK FALSE
INVARIANTS
    Framed
    InOrderOnce
PROPERTIES
    OwnVersion
    DisconnectEnds

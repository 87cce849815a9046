SPECIFICATION DepthSpec
CONSTANTS
    Entry = {e1, e2}
    MaxRows = 2
    MaxSubs = 3
    MaxWire = 2
CHECK_DEADLOCK FALSE
INVARIANTS
    BookOnTop

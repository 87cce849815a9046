SPECIFICATION CodecSpec
CONSTANTS
    MaxVersion = 2
    MaxItems = 2
CHECK_DEADLOCK FALSE
INVARIANTS
    RoundTrip
    RaisedCause
    OnlyFirstAttributeTold
    DurationKept

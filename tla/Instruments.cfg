SPECIFICATION Spec
SYMMETRY Symmetry
CONSTANTS
    Instrument = {o1, o2, o3}
    Id = {i1, i2}
    Request = {r1, r2}
    Nobody = Nobody
    Unknown = Unknown
    MaxRows = 2
CHECK_DEADLOCK FALSE
INVARIANTS
    RegistryRight
    StreamsApart
    RaisedCause
PROPERTIES
    IdsStand

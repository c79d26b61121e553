CONSTANTS
    Query = {q1, q2, dr}
    Drops = {dr}
    Timeouts <- MCTimeouts
    NoCursor = NoCursor
    Idle = Idle
    MaxRows = 1
    MaxLapses = 2
SPECIFICATION FairSpec
CONSTRAINT FewLapses
INVARIANTS
    HandlerRestored
    OwnTimeout
    ShutdownStops
PROPERTY
    CallsReturn

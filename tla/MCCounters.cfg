SPECIFICATION Spec
CONSTANTS
    Request = {r1, r2}
    Threshold = 1
    StreamMax = 1
    MaxEvents = 3
    MaxFaults = 2
INVARIANTS
    CounterIsExact
    OvershootIsBounded
PROPERTY
    ServesAgain
CHECK_DEADLOCK FALSE

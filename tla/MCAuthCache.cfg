SPECIFICATION Spec
CONSTANTS
    r1 = r1
    r2 = r2
    Requests = {r1, r2}
    Second = 2
    TTL = 2
    Ceiling = 4
    DbTimeout = 1
    CacheTimeout = 1
    MaxTime = 7
    MaxRestarts = 1
SYMMETRY Interchangeable
INVARIANTS TypeOK RevokedWithinWindow StaleWithinCeiling IssuedWithinWindow KnownRevokedStaysRefused
CHECK_DEADLOCK FALSE

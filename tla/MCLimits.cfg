SPECIFICATION Spec
CONSTANTS
    Operator = {o1, o2}
    MaxPlans = 2
    MaxChanges = 3
    MaxIncidents = 1
    NoRow = NoRow
    NoThreshold = NoThreshold
INVARIANTS
    TypeOK
    WrongIsExplained
PROPERTY
    EventuallyEnforced
CHECK_DEADLOCK FALSE

SPECIFICATION Spec
CONSTANTS
    Operator = {o1}
    MaxPlans = 2
    MaxChanges = 3
    MaxIncidents = 0
    NoRow = NoRow
    NoThreshold = NoThreshold
INVARIANT
    RemovalIsVisible
CHECK_DEADLOCK FALSE
